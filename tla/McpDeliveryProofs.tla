------------------------- MODULE McpDeliveryProofs -------------------------
(* Theorems about McpDelivery for every set of rows, every number of       *)
(* workers, every attempt and batch limit and every bound on faults.       *)
EXTENDS McpDelivery, FiniteSetTheorems, WellFoundedInduction, TLAPS

-----------------------------------------------------------------------------
(* The inductive invariant. *)

\* The row w is at has been posted by this drain, whose outcome is not written.
Sent(w, d) == d = Current(w) /\ step[w] \in {"delivered", "rejected", "retry"}

\* What is recorded as delivered was accepted.
Earned ==
  /\ \A d \in Deliveries : status[d] = "success" => accepted[d] > 0
  /\ \A w \in Workers :
       batch[w] # {} /\ step[w] = "delivered" => accepted[Current(w)] > 0

\* A row whose lease never ran out and whose answers all came is in one drain
\* at most, which knows its attempts and posts it once for the one it counted.
Held(w, d) ==
  /\ status[d] \in {"delivering", "gone"} /\ d \notin due
  /\ snap[w][d] = attempts[d] /\ attempts[d] <= MaxAttempts
  /\ \A v \in Workers : d \in batch[v] => v = w
  /\ posts[d] <= attempts[d]
  /\ ~Sent(w, d) => posts[d] < attempts[d]
  /\ ~Sent(w, d) \/ step[w] # "delivered" => accepted[d] = 0

Waiting(d) ==
  /\ posts[d] <= attempts[d] /\ attempts[d] < MaxAttempts
  /\ accepted[d] = 0

Steady ==
  \A d \in Deliveries \ disturbed :
    /\ status[d] \in {"none", "queued"} => Waiting(d)
    /\ d \in due => status[d] # "delivering"
    /\ \A w \in Workers : d \in batch[w] => Held(w, d)
    /\ posts[d] <= MaxAttempts /\ accepted[d] <= 1

IInv == TypeOK /\ Earned /\ Steady

-----------------------------------------------------------------------------
\* A batch has an oldest row, and its drain is at that one.
LEMMA OldestExists ==
  ASSUME NEW S, S \subseteq Nat, S # {}
  PROVE  \E x \in S : \A y \in S : x <= y
<1>1. PICK x \in S :
        \A y \in S : ~ (<<y, x>> \in OpToRel(<, Nat))
  BY NatLessThanWellFounded, WFMin, Zenon
<1>2. \A y \in S : x <= y
  <2> TAKE y \in S
  <2>1. ~ (y < x)
    <3> SUFFICES ASSUME y < x PROVE FALSE
      OBVIOUS
    <3>1. <<y, x>> \in OpToRel(<, Nat)
      BY Zenon DEF OpToRel
    <3> QED
      BY <1>1, <3>1, Zenon
  <2> QED
    BY <2>1
<1> QED
  BY <1>2

LEMMA CurrentInBatch ==
  ASSUME TypeOK, NEW w \in Workers, batch[w] # {}
  PROVE  Current(w) \in batch[w]
<1>1. batch[w] \subseteq Nat
  BY DeliveriesAssumption DEF TypeOK
<1>2. \E x \in batch[w] : \A y \in batch[w] : x <= y
  BY <1>1, OldestExists
<1> QED
  BY <1>2 DEF Current, Oldest

\* A drain that keeps its batch stays at its row.
LEMMA SameCurrent ==
  ASSUME NEW w, batch'[w] = batch[w]
  PROVE  Current(w)' = Current(w)
  BY DEF Current, Oldest

\* Nothing the invariant speaks of moves in the life of the subscription.
LEMMA SubscriptionStep ==
  ASSUME IInv, Subscribe \/ Expire \/ AccessChanges
  PROVE  IInv'
<1> USE DEF IInv
<1>1. /\ UNCHANGED <<rowVars, runVars, history, faults>>
      /\ sub' \in {"absent", "active", "expired"} /\ epoch' \in Nat /\ access' \in BOOLEAN
  <2>1. CASE Subscribe
    BY <2>1 DEF Subscribe, TypeOK
  <2>2. CASE Expire
    BY <2>2 DEF Expire, TypeOK
  <2>3. CASE AccessChanges
    <3>1. access' \in BOOLEAN
      BY <2>3, Zenon DEF AccessChanges
    <3> QED
      BY <2>3, <3>1 DEF AccessChanges, TypeOK
  <2> QED
    BY <2>1, <2>2, <2>3
<1>2. \A v \in Workers : Current(v)' = Current(v)
  BY <1>1, SameCurrent DEF runVars
<1>3. TypeOK'
  BY <1>1 DEF TypeOK, rowVars, runVars, history
<1>4. Earned'
  BY <1>1, <1>2 DEF Earned, rowVars, runVars, history
<1>5. Steady'
  BY <1>1, <1>2 DEF Steady, Held, Waiting, Sent, rowVars, runVars, history
<1> QED
  BY <1>3, <1>4, <1>5

\* Rows go along with the subscription; their drains go on.
LEMMA UnsubscribeStep ==
  ASSUME IInv, Unsubscribe
  PROVE  IInv'
<1> USE DEF IInv
<1>1. \A v \in Workers : Current(v)' = Current(v)
  BY SameCurrent DEF Unsubscribe, runVars
<1>2. TypeOK'
  BY DEF Unsubscribe, TypeOK, Cascade, Exists, Pending, Terminal, runVars, history
<1>3. Earned'
  BY <1>1 DEF Unsubscribe, Earned, TypeOK, Cascade, Exists, runVars, history
<1>4. Steady'
  BY <1>1 DEF Unsubscribe, Steady, TypeOK, Held, Waiting, Sent, Cascade, Exists, runVars, history
<1> QED
  BY <1>2, <1>3, <1>4

\* A new row is untouched and waits.
LEMMA EnqueueStep ==
  ASSUME IInv, NEW e \in Deliveries, Enqueue(e)
  PROVE  IInv'
<1> USE DEF IInv
<1>1. \A v \in Workers : Current(v)' = Current(v)
  BY SameCurrent DEF Enqueue, runVars
<1>2. TypeOK'
  BY DEF Enqueue, TypeOK, Pending, subVars, runVars, history
<1>3. Earned'
  BY <1>1 DEF Enqueue, Earned, TypeOK, subVars, runVars, history
<1>4. Steady'
  BY <1>1 DEF Enqueue, Steady, TypeOK, Held, Waiting, Sent, subVars, runVars, history
<1> QED
  BY <1>2, <1>3, <1>4

-----------------------------------------------------------------------------
(* The drain. *)

\* A claim takes rows that are due: none that a drain holds undisturbed.
LEMMA ClaimStep ==
  ASSUME IInv, NEW w \in Workers, Claim(w)
  PROVE  IInv'
<1> USE DEF IInv
<1>1. PICK claimed \in SUBSET Claimable :
        /\ status' = [d \in Deliveries |-> IF d \in claimed THEN "delivering" ELSE status[d]]
        /\ attempts' = [d \in Deliveries |-> IF d \in claimed THEN attempts[d] + 1 ELSE attempts[d]]
        /\ snap' = [snap EXCEPT ![w] =
             [d \in Deliveries |-> IF d \in claimed THEN attempts[d] + 1 ELSE 0]]
        /\ due' = due \ claimed
        /\ batch' = [batch EXCEPT ![w] = claimed]
  BY DEF Claim, Count, FirstOf
<1>2. /\ batch[w] = {}
      /\ step' = [step EXCEPT ![w] = "load"] /\ gate' = [gate EXCEPT ![w] = 0]
      /\ UNCHANGED <<born, subVars, history, faults>>
  BY DEF Claim
<1>3. claimed \subseteq Deliveries /\ \A d \in claimed : d \in due /\ status[d] \in Pending
  BY <1>1 DEF Claimable, TypeOK
<1>4. \A v \in Workers \ {w} : Current(v)' = Current(v)
  BY <1>1, SameCurrent DEF TypeOK
<1>5. TypeOK'
  BY <1>1, <1>2, <1>3 DEF TypeOK, Pending, Steps, subVars, history
<1>6. Earned'
  BY <1>1, <1>2, <1>3, <1>4 DEF Earned, TypeOK, history
<1>7. Steady'
  <2> SUFFICES ASSUME NEW d \in Deliveries, d \notin disturbed
               PROVE  /\ status'[d] \in {"none", "queued"} => Waiting(d)'
                      /\ d \in due' => status'[d] # "delivering"
                      /\ \A v \in Workers : d \in batch'[v] => Held(v, d)'
                      /\ posts'[d] <= MaxAttempts /\ accepted'[d] <= 1
    BY <1>2 DEF Steady, history
  <2>1. CASE d \in claimed
    <3>1. status[d] = "queued" /\ Waiting(d) /\ \A v \in Workers : d \notin batch[v]
      BY <1>3, <2>1 DEF Steady, Held, Pending
    <3>2. \A v \in Workers : d \in batch'[v] => v = w
      BY <1>1, <3>1 DEF TypeOK
    <3>3. Held(w, d)'
      BY <1>1, <1>2, <2>1, <3>1, <3>2, LimitsAssumption
      DEF Held, Waiting, Sent, TypeOK, history
    <3> QED
      BY <1>1, <1>2, <2>1, <3>1, <3>2, <3>3 DEF TypeOK, Waiting, Steady, history
  <2>2. CASE d \notin claimed
    <3>1. \A v \in Workers : d \in batch'[v] => v # w /\ d \in batch[v]
      BY <1>1, <2>2 DEF TypeOK
    <3>2. \A v \in Workers : d \in batch'[v] => Held(v, d)'
      BY <1>1, <1>2, <1>4, <2>2, <3>1 DEF Steady, Held, Sent, TypeOK, history
    <3> QED
      BY <1>1, <1>2, <2>2, <3>2 DEF Steady, Waiting, TypeOK, history
  <2> QED
    BY <2>1, <2>2
<1> QED
  BY <1>5, <1>6, <1>7

\* Resolving the gate moves no row.
LEMMA GateStep ==
  ASSUME IInv, NEW w \in Workers,
         Authorize(w) \/ EndSubscription(w) \/ Skip(w)
  PROVE  IInv'
<1> USE DEF IInv
<1>1. /\ UNCHANGED <<rowVars, batch, snap, history, faults>>
      /\ \E s \in {"next", "revoke", "skipped"} : step' = [step EXCEPT ![w] = s]
      /\ gate' \in [Workers -> Nat]
      /\ sub' \in {"absent", "active", "expired"} /\ epoch' \in Nat /\ access' \in BOOLEAN
  <2>1. CASE Authorize(w)
    BY <2>1 DEF Authorize, Goto, TypeOK, subVars
  <2>2. CASE EndSubscription(w)
    BY <2>2 DEF EndSubscription, Goto, TypeOK
  <2>3. CASE Skip(w)
    BY <2>3 DEF Skip, Goto, TypeOK, subVars
  <2> QED
    BY <2>1, <2>2, <2>3
<1>2. step[w] \notin {"delivered", "rejected", "retry"}
  BY DEF Authorize, EndSubscription, Skip, At
<1>3. \A v \in Workers : Current(v)' = Current(v)
  BY <1>1, SameCurrent
<1>4. TypeOK'
  BY <1>1 DEF TypeOK, rowVars, history, Steps, Outcomes
<1>5. Earned'
  BY <1>1, <1>3 DEF Earned, TypeOK, rowVars, history
<1>6. \A v \in Workers : \A d : Sent(v, d)' <=> Sent(v, d)
  BY <1>1, <1>2, <1>3 DEF Sent, TypeOK
<1>7. \A v \in Workers : step'[v] = "delivered" <=> step[v] = "delivered"
  BY <1>1, <1>2 DEF TypeOK
<1>8. Steady'
  BY <1>1, <1>6, <1>7 DEF Steady, Held, Waiting, rowVars, history
<1> QED
  BY <1>4, <1>5, <1>8

\* A drain that loses its batch before it posted the row it is at, or crashes,
\* leaves every row as it is.
LEMMA BatchLost ==
  ASSUME IInv, NEW w \in Workers,
         batch' = [batch EXCEPT ![w] = {}],
         UNCHANGED <<rowVars, snap, history>>,
         \A v \in Workers \ {w} : step'[v] = step[v]
  PROVE  Earned' /\ Steady'
<1> USE DEF IInv
<1>1. \A v \in Workers \ {w} : batch'[v] = batch[v] /\ Current(v)' = Current(v)
  BY SameCurrent DEF TypeOK
<1>2. batch'[w] = {}
  BY DEF TypeOK
<1>3. Earned'
  BY <1>1, <1>2 DEF Earned, rowVars, history
<1>4. Steady'
  BY <1>1, <1>2 DEF Steady, Held, Waiting, Sent, rowVars, history
<1> QED
  BY <1>3, <1>4

LEMMA DropBatchStep ==
  ASSUME IInv, NEW w \in Workers, AuthorizeFails(w) \/ Crash(w)
  PROVE  IInv'
<1>1. Earned' /\ Steady'
  BY BatchLost DEF AuthorizeFails, Crash
<1>2. TypeOK'
  BY DEF IInv, AuthorizeFails, Crash, TypeOK, Fault, rowVars, subVars, history
<1> QED
  BY <1>1, <1>2 DEF IInv

LEMMA LoadSubscriptionStep ==
  ASSUME IInv, NEW w \in Workers, LoadSubscription(w)
  PROVE  IInv'
<1> USE DEF IInv
<1>1. /\ UNCHANGED <<rowVars, subVars, snap, history, faults>>
      /\ \E s \in {"authorize", "next"} : step' = [step EXCEPT ![w] = s]
      /\ gate' \in [Workers -> Nat]
      /\ step[w] = "load"
      /\ batch' = [batch EXCEPT ![w] = {}] \/ batch' = batch
  BY DEF LoadSubscription, Goto, At, TypeOK
<1>2. TypeOK'
  BY <1>1 DEF TypeOK, rowVars, subVars, history, Steps, Outcomes
<1>3. CASE batch' = [batch EXCEPT ![w] = {}]
  BY <1>1, <1>2, <1>3, BatchLost DEF TypeOK
<1>4. CASE batch' = batch
  <2>1. \A v \in Workers : Current(v)' = Current(v)
    BY <1>4, SameCurrent
  <2>2. Earned'
    BY <1>1, <1>4, <2>1 DEF Earned, TypeOK, rowVars, history
  <2>3. \A v \in Workers : \A d : Sent(v, d)' <=> Sent(v, d)
    BY <1>1, <2>1 DEF Sent, TypeOK
  <2>4. \A v \in Workers : step'[v] = "delivered" <=> step[v] = "delivered"
    BY <1>1 DEF TypeOK
  <2>5. Steady'
    BY <1>1, <1>4, <2>3, <2>4 DEF Steady, Held, Waiting, rowVars, history
  <2> QED
    BY <1>2, <2>2, <2>5
<1> QED
  BY <1>1, <1>3, <1>4

\* A post uses the attempt the claim counted.
LEMMA PostStep ==
  ASSUME IInv, NEW w \in Workers, Post(w)
  PROVE  IInv'
<1> USE DEF IInv
<1> DEFINE c == Current(w)
<1>1. c \in batch[w] /\ c \in Deliveries
  BY CurrentInBatch DEF Post, At, TypeOK
<1>2. /\ UNCHANGED <<rowVars, subVars, batch, snap, gate, tried>>
      /\ posts' = [posts EXCEPT ![c] = @ + 1]
      /\ step[w] = "next"
  BY DEF Post, At
<1>3. \/ /\ step' = [step EXCEPT ![w] = "delivered"]
         /\ accepted' = [accepted EXCEPT ![c] = @ + 1]
         /\ UNCHANGED <<disturbed, faults>>
      \/ /\ step' = [step EXCEPT ![w] = "retry"]
         /\ accepted' = [accepted EXCEPT ![c] = @ + 1]
         /\ disturbed' = disturbed \cup {c} /\ faults' \in Nat
      \/ /\ \E s \in {"rejected", "retry"} : step' = [step EXCEPT ![w] = s]
         /\ UNCHANGED <<accepted, disturbed, faults>>
  BY DEF Post, Goto, Fault, TypeOK
<1>4. \A v \in Workers : Current(v)' = Current(v)
  BY <1>2, SameCurrent
<1>5. TypeOK'
  <2>1. step' \in [Workers -> Steps]
    BY <1>3 DEF TypeOK, Steps, Outcomes
  <2>2. posts' \in [Deliveries -> Nat]
    BY <1>1, <1>2 DEF TypeOK
  <2>3. accepted' \in [Deliveries -> Nat]
    BY <1>1, <1>3 DEF TypeOK
  <2>4. disturbed' \subseteq Deliveries /\ faults' \in Nat
    BY <1>1, <1>3 DEF TypeOK
  <2> QED
    BY <1>2, <2>1, <2>2, <2>3, <2>4 DEF TypeOK, rowVars, subVars
<1>6. \A d \in Deliveries : accepted'[d] >= accepted[d]
  BY <1>1, <1>3 DEF TypeOK
<1>7. Earned'
  <2>1. \A d \in Deliveries : status'[d] = "success" => accepted'[d] > 0
    BY <1>2, <1>5, <1>6 DEF Earned, TypeOK, rowVars
  <2>2. step'[w] = "delivered" => accepted'[c] > 0
    BY <1>1, <1>3 DEF TypeOK
  <2>3. ASSUME NEW v \in Workers \ {w}, batch[v] # {}, step'[v] = "delivered"
        PROVE  accepted'[Current(v)] > 0
    <3>1. Current(v) \in Deliveries
      BY <2>3, CurrentInBatch DEF TypeOK
    <3>2. step[v] = "delivered"
      BY <1>3, <2>3 DEF TypeOK
    <3> QED
      BY <1>5, <1>6, <2>3, <3>1, <3>2 DEF Earned, TypeOK
  <2> QED
    BY <1>2, <1>4, <2>1, <2>2, <2>3 DEF Earned
<1>8. Steady'
  <2> SUFFICES ASSUME NEW d \in Deliveries, d \notin disturbed'
               PROVE  /\ status'[d] \in {"none", "queued"} => Waiting(d)'
                      /\ d \in due' => status'[d] # "delivering"
                      /\ \A v \in Workers : d \in batch'[v] => Held(v, d)'
                      /\ posts'[d] <= MaxAttempts /\ accepted'[d] <= 1
    BY DEF Steady
  <2>0. d \notin disturbed
    BY <1>3
  <2>1. CASE d = c
    <3>1. Held(w, d) /\ ~Sent(w, d) /\ \A v \in Workers : d \in batch[v] => v = w
      BY <1>1, <1>2, <2>0, <2>1 DEF Steady, Held, Sent
    <3>2. Sent(w, d)'
      BY <1>3, <1>4, <2>1 DEF Sent, TypeOK
    <3>3. Held(w, d)'
      BY <1>2, <1>3, <1>5, <2>1, <3>1, <3>2 DEF Held, TypeOK, rowVars
    <3> QED
      BY <1>2, <1>3, <1>5, <2>0, <2>1, <3>1, <3>3, LimitsAssumption
      DEF Held, TypeOK, rowVars
  <2>2. CASE d # c
    <3>1. posts'[d] = posts[d] /\ accepted'[d] = accepted[d]
      BY <1>1, <1>2, <1>3, <2>2 DEF TypeOK
    <3>2. \A v \in Workers : Sent(v, d)' <=> Sent(v, d)
      BY <1>2, <1>3, <1>4, <2>2 DEF Sent, TypeOK
    <3>3. \A v \in Workers : v # w => step'[v] = step[v]
      BY <1>3 DEF TypeOK
    <3>4. ~Sent(w, d)
      BY <2>2 DEF Sent
    <3>5. \A v \in Workers : d \in batch[v] => Held(v, d)'
      BY <1>2, <2>0, <3>1, <3>2, <3>3, <3>4 DEF Steady, Held, rowVars
    <3> QED
      BY <1>2, <2>0, <3>1, <3>5 DEF Steady, Waiting, rowVars
  <2> QED
    BY <2>1, <2>2
<1> QED
  BY <1>5, <1>7, <1>8

\* A drain goes on to a row it has not posted.
LEMMA AfterNextRow ==
  ASSUME IInv, NEW w \in Workers, batch[w] # {}, NextRow(w)
  PROVE  /\ batch'[w] = batch[w] \ {Current(w)} /\ step'[w] = "next"
         /\ \A v \in Workers \ {w} : /\ batch'[v] = batch[v] /\ step'[v] = step[v]
                                     /\ Current(v)' = Current(v)
         /\ batch' \in [Workers -> SUBSET Deliveries] /\ step' \in [Workers -> Steps]
         /\ \A d : ~Sent(w, d)'
         /\ \A v \in Workers : \A d \in batch'[v] : Sent(v, d)' <=> Sent(v, d)
<1>1. /\ batch'[w] = batch[w] \ {Current(w)} /\ step'[w] = "next"
      /\ \A v \in Workers \ {w} : batch'[v] = batch[v] /\ step'[v] = step[v]
      /\ batch' \in [Workers -> SUBSET Deliveries] /\ step' \in [Workers -> Steps]
  BY DEF IInv, NextRow, Goto, TypeOK, Steps
<1>2. \A v \in Workers \ {w} : Current(v)' = Current(v)
  BY <1>1, SameCurrent
<1>3. \A d : ~Sent(w, d)'
  BY <1>1 DEF Sent
<1>4. \A v \in Workers : \A d \in batch'[v] : Sent(v, d)' <=> Sent(v, d)
  BY <1>1, <1>2, <1>3 DEF Sent
<1> QED
  BY <1>1, <1>2, <1>3, <1>4

\* A record concerns a row this drain alone holds, unless the row was disturbed.
LEMMA RecordStep ==
  ASSUME IInv, NEW w \in Workers, Record(w)
  PROVE  IInv'
<1> USE DEF IInv
<1> DEFINE c == Current(w)
<1>1. c \in batch[w] /\ c \in Deliveries /\ step[w] \in Outcomes
  BY CurrentInBatch DEF Record, TypeOK
<1>2. /\ status' = [status EXCEPT ![c] = IF Exists(c) THEN Recorded(w) ELSE @]
      /\ due' = due \ {c} /\ tried' = tried \cup {c}
      /\ UNCHANGED <<attempts, born, subVars, posts, accepted, disturbed, faults, snap, gate>>
  BY DEF Record, NextRow
<1>3. /\ batch'[w] = batch[w] \ {c} /\ step'[w] = "next"
      /\ \A v \in Workers \ {w} : /\ batch'[v] = batch[v] /\ step'[v] = step[v]
                                  /\ Current(v)' = Current(v)
      /\ batch' \in [Workers -> SUBSET Deliveries] /\ step' \in [Workers -> Steps]
      /\ \A v \in Workers : \A d \in batch'[v] : Sent(v, d)' <=> Sent(v, d)
      /\ \A d : ~Sent(w, d)'
  BY <1>1, AfterNextRow DEF Record
<1>4. Recorded(w) \in {"success", "queued", "failed"}
  BY DEF Recorded
<1>5. TypeOK'
  BY <1>1, <1>2, <1>3, <1>4 DEF TypeOK, subVars, Pending, Terminal
<1>6. Recorded(w) = "success" => step[w] = "delivered"
  BY DEF Recorded
<1>7. Earned'
  BY <1>1, <1>2, <1>3, <1>6 DEF Earned, TypeOK
<1>8. Steady'
  <2> SUFFICES ASSUME NEW d \in Deliveries, d \notin disturbed
               PROVE  /\ status'[d] \in {"none", "queued"} => Waiting(d)'
                      /\ d \in due' => status'[d] # "delivering"
                      /\ \A v \in Workers : d \in batch'[v] => Held(v, d)'
                      /\ posts'[d] <= MaxAttempts /\ accepted'[d] <= 1
    BY <1>2 DEF Steady
  <2>1. CASE d = c
    <3>1. Held(w, d)
      BY <1>1, <2>1 DEF Steady
    <3>2. \A v \in Workers : d \notin batch'[v]
      BY <1>3, <2>1, <3>1 DEF Held
    <3>3. Recorded(w) = "queued" => step[w] = "retry" /\ snap[w][d] < MaxAttempts
      BY <2>1 DEF Recorded
    <3>4. status'[d] \in {"none", "queued"} => Waiting(d)'
      BY <1>2, <1>4, <2>1, <3>1, <3>3 DEF Held, Waiting, Exists, TypeOK
    <3> QED
      BY <1>2, <2>1, <3>2, <3>4 DEF Steady
  <2>2. CASE d # c
    <3>1. status'[d] = status[d] /\ (d \in due' <=> d \in due)
      BY <1>2, <2>2 DEF TypeOK
    <3>2. \A v \in Workers : d \in batch'[v] => d \in batch[v] /\ Held(v, d)
      BY <1>3 DEF Steady
    <3>3. ~Sent(w, d)
      BY <2>2 DEF Sent
    <3>4. \A v \in Workers : d \in batch'[v] => Held(v, d)'
      BY <1>2, <1>3, <3>1, <3>2, <3>3 DEF Held
    <3> QED
      BY <1>2, <3>1, <3>4 DEF Steady, Waiting
  <2> QED
    BY <2>1, <2>2
<1> QED
  BY <1>5, <1>7, <1>8

\* A row that fails is left as it is and let go.
LEMMA RowFailsStep ==
  ASSUME IInv, NEW w \in Workers, RowFails(w)
  PROVE  IInv'
<1> USE DEF IInv
<1>1. /\ UNCHANGED <<rowVars, subVars, history, snap, gate>> /\ faults' \in Nat
  BY DEF RowFails, NextRow, Fault, TypeOK
<1>2. /\ batch'[w] = batch[w] \ {Current(w)} /\ step'[w] = "next"
      /\ \A v \in Workers \ {w} : /\ batch'[v] = batch[v] /\ step'[v] = step[v]
                                  /\ Current(v)' = Current(v)
      /\ batch' \in [Workers -> SUBSET Deliveries] /\ step' \in [Workers -> Steps]
      /\ \A v \in Workers : \A d \in batch'[v] : Sent(v, d)' <=> Sent(v, d)
      /\ \A d : ~Sent(w, d)'
  BY AfterNextRow DEF RowFails
<1>3. TypeOK'
  BY <1>1, <1>2 DEF TypeOK, rowVars, subVars, history
<1>4. Earned'
  BY <1>1, <1>2 DEF Earned, rowVars, history
<1>5. \A d \in Deliveries \ disturbed :
        \A v \in Workers : d \in batch'[v] => Held(v, d)'
  <2> SUFFICES ASSUME NEW d \in Deliveries \ disturbed, NEW v \in Workers, d \in batch'[v]
               PROVE  Held(v, d)'
    OBVIOUS
  <2>1. d \in batch[v] /\ Held(v, d)
    BY <1>2 DEF Steady
  <2>2. v = w => ~Sent(v, d)
    BY <1>2
  <2> QED
    BY <1>1, <1>2, <2>1, <2>2 DEF Held, rowVars, history
<1>6. Steady'
  BY <1>1, <1>5 DEF Steady, Waiting, rowVars, history
<1> QED
  BY <1>3, <1>4, <1>6

-----------------------------------------------------------------------------
(* Time and retention. *)

LEMMA BackoffEndsStep ==
  ASSUME IInv, NEW e \in Deliveries, BackoffEnds(e)
  PROVE  IInv'
<1> USE DEF IInv
<1>1. \A v \in Workers : Current(v)' = Current(v)
  BY SameCurrent DEF BackoffEnds, runVars
<1>2. TypeOK'
  BY DEF BackoffEnds, TypeOK, subVars, runVars, history
<1>3. Earned'
  BY <1>1 DEF BackoffEnds, Earned, subVars, runVars, history
<1>4. Steady'
  BY <1>1 DEF BackoffEnds, Steady, TypeOK, Held, Waiting, Sent, subVars, runVars, history
<1> QED
  BY <1>2, <1>3, <1>4

\* A lease that runs out disturbs its row, of which nothing more is claimed.
LEMMA LeaseExpiresStep ==
  ASSUME IInv, NEW e \in Deliveries, LeaseExpires(e)
  PROVE  IInv'
<1> USE DEF IInv
<1>1. \A v \in Workers : Current(v)' = Current(v)
  BY SameCurrent DEF LeaseExpires, runVars
<1>2. TypeOK'
  BY DEF LeaseExpires, TypeOK, Fault, subVars, runVars
<1>3. Earned'
  BY <1>1 DEF LeaseExpires, Earned, subVars, runVars
<1>4. Steady'
  BY <1>1 DEF LeaseExpires, Steady, TypeOK, Held, Waiting, Sent, subVars, runVars
<1> QED
  BY <1>2, <1>3, <1>4

LEMMA CleanupStep ==
  ASSUME IInv, NEW e \in Deliveries, Cleanup(e)
  PROVE  IInv'
<1> USE DEF IInv
<1>1. \A v \in Workers : Current(v)' = Current(v)
  BY SameCurrent DEF Cleanup, runVars
<1>2. TypeOK'
  BY DEF Cleanup, TypeOK, subVars, runVars, history
<1>3. Earned'
  BY <1>1 DEF Cleanup, Earned, TypeOK, subVars, runVars, history
<1>4. Steady'
  BY <1>1 DEF Cleanup, Steady, TypeOK, Held, Waiting, Sent, Terminal, subVars, runVars, history
<1> QED
  BY <1>2, <1>3, <1>4

-----------------------------------------------------------------------------
(* The theorems. *)

LEMMA Initially == Init => IInv
  BY LimitsAssumption
  DEF Init, IInv, TypeOK, Earned, Steady, Waiting, Held, Sent, Pending, Terminal, Steps, Outcomes

LEMMA Inductive == IInv /\ [Next]_vars => IInv'
<1> SUFFICES ASSUME IInv, [Next]_vars PROVE IInv'
  OBVIOUS
<1>1. CASE Subscribe \/ Expire \/ AccessChanges
  BY <1>1, SubscriptionStep
<1>2. CASE Unsubscribe
  BY <1>2, UnsubscribeStep
<1>3. CASE \E d \in Deliveries : Enqueue(d) \/ BackoffEnds(d) \/ LeaseExpires(d) \/ Cleanup(d)
  BY <1>3, EnqueueStep, BackoffEndsStep, LeaseExpiresStep, CleanupStep
<1>4. CASE \E w \in Workers : Claim(w) \/ Drain(w) \/ AuthorizeFails(w) \/ RowFails(w) \/ Crash(w)
  BY <1>4, ClaimStep, LoadSubscriptionStep, GateStep, PostStep, RecordStep, DropBatchStep,
     RowFailsStep
  DEF Drain
<1>5. CASE UNCHANGED vars
  <2> USE <1>5 DEF IInv, vars
  <2>1. UNCHANGED <<rowVars, subVars, runVars, history, faults>>
    OBVIOUS
  <2>2. \A v \in Workers : Current(v)' = Current(v)
    BY SameCurrent DEF runVars
  <2>3. TypeOK'
    BY DEF TypeOK, rowVars, subVars, runVars, history
  <2>4. Earned'
    BY <2>2 DEF Earned, rowVars, runVars, history
  <2>5. Steady'
    BY <2>2 DEF Steady, Held, Waiting, Sent, rowVars, runVars, history
  <2> QED
    BY <2>3, <2>4, <2>5
<1> QED
  BY <1>1, <1>2, <1>3, <1>4, <1>5 DEF Next

THEOREM Invariance == Spec => []IInv
  BY Initially, Inductive, PTL DEF Spec

\* The type invariant of the deliveries and their drains.
THEOREM TypeCorrect == Spec => []TypeOK
<1>1. IInv => TypeOK
  BY DEF IInv
<1> QED
  BY <1>1, Invariance, PTL

\* A receiver gets at most MaxAttempts POSTs of an occurrence whose lease never
\* ran out and none of whose answers was lost.
THEOREM BudgetHolds == Spec => []BudgetBoundsPosts
<1>1. IInv => BudgetBoundsPosts
  BY DEF IInv, Steady, BudgetBoundsPosts
<1> QED
  BY <1>1, Invariance, PTL

\* No stale worker forges a success.
THEOREM SuccessIsEarned == Spec => []SuccessIsReal
<1>1. IInv => SuccessIsReal
  BY DEF IInv, Earned, SuccessIsReal
<1> QED
  BY <1>1, Invariance, PTL

\* A receiver accepts an occurrence twice only after a lost answer or a lease
\* that ran out, whatever other workers, renewals and revocations do.
THEOREM DuplicatesHaveCauses == Spec => []DuplicateNeedsCause
<1>1. IInv => DuplicateNeedsCause
  BY DEF IInv, Steady, DuplicateNeedsCause
<1> QED
  BY <1>1, Invariance, PTL

\* An undisturbed row that ended is never opened again: whoever could write it
\* holds it, and a held row has not ended.
THEOREM EndsAreFinal == Spec => DoneStaysDone
<1>1. IInv /\ [Next]_vars =>
        [\A d \in Deliveries \ disturbed :
           status[d] \in Terminal => status'[d] \in {status[d], "gone"}]_vars
  <2> SUFFICES ASSUME IInv, Next, NEW d \in Deliveries, d \notin disturbed,
                      status[d] \in Terminal
               PROVE  status'[d] \in {status[d], "gone"}
    BY DEF vars
  <2> USE DEF IInv
  <2>1. \A w \in Workers : d \notin batch[w]
    BY DEF Steady, Held, Terminal
  <2>2. CASE Subscribe \/ Expire \/ AccessChanges
    BY <2>2 DEF Subscribe, Expire, AccessChanges, rowVars
  <2>3. CASE Unsubscribe
    BY <2>3 DEF Unsubscribe, Cascade
  <2>4. ASSUME NEW e \in Deliveries,
               Enqueue(e) \/ BackoffEnds(e) \/ LeaseExpires(e) \/ Cleanup(e)
        PROVE  status'[d] \in {status[d], "gone"}
    BY <2>4 DEF Enqueue, BackoffEnds, LeaseExpires, Cleanup, TypeOK, Terminal
  <2>5. ASSUME NEW w \in Workers, Claim(w)
        PROVE  status'[d] \in {status[d], "gone"}
    BY <2>5 DEF Claim, FirstOf, Claimable, Pending, Terminal
  <2>6. ASSUME NEW w \in Workers, Record(w)
        PROVE  status'[d] \in {status[d], "gone"}
    <3>1. Current(w) # d
      BY <2>1, <2>6, CurrentInBatch DEF Record
    <3> QED
      BY <2>6, <3>1 DEF Record, TypeOK
  <2>7. ASSUME NEW w \in Workers,
               \/ LoadSubscription(w) \/ Authorize(w) \/ EndSubscription(w) \/ Skip(w)
               \/ Post(w) \/ AuthorizeFails(w) \/ RowFails(w) \/ Crash(w)
        PROVE  status'[d] \in {status[d], "gone"}
    BY <2>7 DEF LoadSubscription, Authorize, EndSubscription, Skip, Post, AuthorizeFails,
                RowFails, Crash, rowVars
  <2> QED
    BY <2>2, <2>3, <2>4, <2>5, <2>6, <2>7 DEF Next, Drain
<1> QED
  BY <1>1, Invariance, PTL DEF Spec, DoneStaysDone

\* A renewed subscription gets nothing from before its renewal, but for a drain
\* that opened its gate before it.
THEOREM RenewalsForget == Spec => NoReplay
<1>1. IInv /\ [Next]_vars =>
        [\A d \in Deliveries : posts'[d] > posts[d] /\ born[d] < epoch =>
           \E w \in Workers : d \in batch[w] /\ gate[w] < epoch]_vars
  <2> SUFFICES ASSUME IInv, Next, NEW d \in Deliveries,
                      posts'[d] > posts[d], born[d] < epoch
               PROVE  \E w \in Workers : d \in batch[w] /\ gate[w] < epoch
    BY DEF vars
  <2> USE DEF IInv
  <2>1. PICK w \in Workers : Post(w)
    <3>1. posts' # posts
      BY DEF TypeOK
    <3> QED
      BY <3>1 DEF Next, Drain, Subscribe, Expire, AccessChanges, Unsubscribe, Enqueue,
         BackoffEnds, LeaseExpires, Cleanup, Claim, LoadSubscription, Authorize,
         EndSubscription, Skip, Record, AuthorizeFails, RowFails, Crash, history
  <2>2. d = Current(w)
    BY <2>1 DEF Post, TypeOK
  <2>3. d \in batch[w]
    BY <2>1, <2>2, CurrentInBatch DEF Post, At
  <2>4. gate[w] <= born[d] /\ gate[w] \in Nat /\ born[d] \in Nat /\ epoch \in Nat
    BY <2>1, <2>2 DEF Post, MayPost, TypeOK
  <2> QED
    BY <2>3, <2>4
<1> QED
  BY <1>1, Invariance, PTL DEF Spec, NoReplay

-----------------------------------------------------------------------------
(* The count of the posts, disturbed rows included. *)

\* The drains that hold a row and have not posted it: each has counted an
\* attempt that it may still use, once.
Owing(d) == {w \in Workers : d \in batch[w] /\ ~Sent(w, d)}

Accounted ==
  \A d \in Deliveries :
    IsFiniteSet(Owing(d)) /\ posts[d] + Cardinality(Owing(d)) <= attempts[d]

\* A step that posts nothing and adds no drain keeps the account.
LEMMA FewerOwing ==
  ASSUME IInv, Accounted, UNCHANGED <<posts, attempts>>,
         \A v \in Workers : \A d \in batch'[v] : d \in batch[v] /\ (Sent(v, d) => Sent(v, d)')
  PROVE  Accounted'
<1> SUFFICES ASSUME NEW d \in Deliveries
             PROVE  IsFiniteSet(Owing(d)') /\ posts[d] + Cardinality(Owing(d)') <= attempts[d]
  BY DEF Accounted
<1>1. Owing(d)' \subseteq Owing(d)
  BY DEF Owing
<1>2. /\ IsFiniteSet(Owing(d)')
      /\ Cardinality(Owing(d)') \in Nat /\ Cardinality(Owing(d)') <= Cardinality(Owing(d))
  BY <1>1, FS_Subset, FS_CardinalityType DEF Accounted
<1> QED
  BY <1>2, FS_CardinalityType DEF Accounted, IInv, TypeOK

\* A claim joins the drains of its rows, of none of which it had one, and
\* counts one attempt for each.
LEMMA ClaimCounts ==
  ASSUME IInv, Accounted, NEW w \in Workers, Claim(w)
  PROVE  Accounted'
<1> USE DEF IInv
<1>1. PICK claimed \in SUBSET Deliveries :
        /\ attempts' = [d \in Deliveries |-> IF d \in claimed THEN attempts[d] + 1 ELSE attempts[d]]
        /\ batch' = [batch EXCEPT ![w] = claimed]
  BY DEF Claim, Count, FirstOf, Claimable, TypeOK
<1>2. batch[w] = {} /\ step' = [step EXCEPT ![w] = "load"] /\ posts' = posts
  BY DEF Claim, history
<1>3. \A v \in Workers \ {w} : /\ batch'[v] = batch[v] /\ step'[v] = step[v]
                               /\ Current(v)' = Current(v)
  BY <1>1, <1>2, SameCurrent DEF TypeOK
<1> SUFFICES ASSUME NEW d \in Deliveries
             PROVE  IsFiniteSet(Owing(d)') /\ posts'[d] + Cardinality(Owing(d)') <= attempts'[d]
  BY DEF Accounted
<1>4. IsFiniteSet(Owing(d)) /\ posts[d] + Cardinality(Owing(d)) <= attempts[d]
  BY DEF Accounted
<1>5. posts[d] \in Nat /\ attempts[d] \in Nat /\ Cardinality(Owing(d)) \in Nat
  BY <1>4, FS_CardinalityType DEF TypeOK
<1>6. w \notin Owing(d)
  BY <1>2 DEF Owing
<1>7. CASE d \in claimed
  <2>1. Owing(d)' = Owing(d) \cup {w}
    BY <1>1, <1>2, <1>3, <1>7 DEF Owing, Sent, TypeOK
  <2>2. IsFiniteSet(Owing(d)') /\ Cardinality(Owing(d)') = Cardinality(Owing(d)) + 1
    BY <1>4, <1>6, <2>1, FS_AddElement
  <2> QED
    BY <1>1, <1>2, <1>4, <1>5, <1>7, <2>2
<1>8. CASE d \notin claimed
  <2>1. Owing(d)' = Owing(d)
    BY <1>1, <1>2, <1>3, <1>6, <1>8 DEF Owing, Sent, TypeOK
  <2> QED
    BY <1>1, <1>2, <1>4, <1>8, <2>1
<1> QED
  BY <1>7, <1>8

\* A post uses up the attempt that its drain owed.
LEMMA PostIsCounted ==
  ASSUME IInv, Accounted, NEW w \in Workers, Post(w)
  PROVE  Accounted'
<1> USE DEF IInv
<1> DEFINE c == Current(w)
<1>1. c \in batch[w] /\ c \in Deliveries
  BY CurrentInBatch DEF Post, At, TypeOK
<1>2. /\ posts' = [posts EXCEPT ![c] = @ + 1]
      /\ step[w] = "next" /\ batch' = batch /\ attempts' = attempts
  BY DEF Post, At, rowVars
<1>3. \E s \in {"delivered", "rejected", "retry"} : step' = [step EXCEPT ![w] = s]
  BY DEF Post, Goto
<1>4. \A v \in Workers : Current(v)' = Current(v)
  BY <1>2, SameCurrent
<1> SUFFICES ASSUME NEW d \in Deliveries
             PROVE  IsFiniteSet(Owing(d)') /\ posts'[d] + Cardinality(Owing(d)') <= attempts'[d]
  BY DEF Accounted
<1>5. IsFiniteSet(Owing(d)) /\ posts[d] + Cardinality(Owing(d)) <= attempts[d]
  BY DEF Accounted
<1>6. posts[d] \in Nat /\ attempts[d] \in Nat /\ Cardinality(Owing(d)) \in Nat
  BY <1>5, FS_CardinalityType DEF TypeOK
<1>7. CASE d = c
  <2>1. w \in Owing(d) /\ Owing(d)' = Owing(d) \ {w}
    BY <1>1, <1>2, <1>3, <1>4, <1>7 DEF Owing, Sent, TypeOK
  <2>2. IsFiniteSet(Owing(d)') /\ Cardinality(Owing(d)') = Cardinality(Owing(d)) - 1
    BY <1>5, <2>1, FS_RemoveElement
  <2> QED
    BY <1>1, <1>2, <1>5, <1>6, <1>7, <2>2 DEF TypeOK
<1>8. CASE d # c
  <2>1. Owing(d)' = Owing(d)
    BY <1>2, <1>3, <1>4, <1>8 DEF Owing, Sent, TypeOK
  <2> QED
    BY <1>2, <1>5, <1>8, <2>1 DEF TypeOK
<1> QED
  BY <1>7, <1>8

LEMMA AccountKept == IInv /\ Accounted /\ [Next]_vars => Accounted'
<1> SUFFICES ASSUME IInv, Accounted, [Next]_vars PROVE Accounted'
  OBVIOUS
<1>1. ASSUME NEW w \in Workers,
             LoadSubscription(w) \/ Authorize(w) \/ EndSubscription(w) \/ Skip(w)
      PROVE  Accounted'
  <2>1. /\ UNCHANGED <<posts, attempts>>
        /\ batch' \in {batch, [batch EXCEPT ![w] = {}]}
        /\ \E s \in Steps : step' = [step EXCEPT ![w] = s]
        /\ step[w] \in {"load", "authorize", "revoke", "next"}
    BY <1>1 DEF LoadSubscription, Authorize, EndSubscription, Skip, At, Goto, rowVars, history,
                Steps, Outcomes
  <2>2. \A v \in Workers : batch'[v] = batch[v] => Current(v)' = Current(v)
    BY SameCurrent
  <2> QED
    BY <2>1, <2>2, FewerOwing DEF Sent, IInv, TypeOK
<1>2. ASSUME NEW w \in Workers, AuthorizeFails(w) \/ Crash(w)
      PROVE  Accounted'
  <2>1. UNCHANGED <<posts, attempts, step>> /\ batch' = [batch EXCEPT ![w] = {}]
    BY <1>2 DEF AuthorizeFails, Crash, rowVars, history
  <2>2. \A v \in Workers : batch'[v] = batch[v] => Current(v)' = Current(v)
    BY SameCurrent
  <2> QED
    BY <2>1, <2>2, FewerOwing DEF Sent, IInv, TypeOK
<1>3. ASSUME NEW w \in Workers, Record(w) \/ RowFails(w)
      PROVE  Accounted'
  <2>1. batch[w] # {} /\ NextRow(w) /\ UNCHANGED <<posts, attempts>>
    BY <1>3 DEF Record, RowFails, rowVars, history
  <2>2. \A v \in Workers : \A d \in batch'[v] : d \in batch[v] /\ (Sent(v, d)' <=> Sent(v, d))
    BY <2>1, AfterNextRow
  <2> QED
    BY <2>1, <2>2, FewerOwing
<1>4. ASSUME UNCHANGED <<posts, attempts, batch, step>>
      PROVE  Accounted'
  <2>1. \A v \in Workers : Current(v)' = Current(v)
    BY <1>4, SameCurrent
  <2> QED
    BY <1>4, <2>1, FewerOwing DEF Sent
<1>5. CASE \/ Subscribe \/ Expire \/ Unsubscribe \/ AccessChanges \/ UNCHANGED vars
           \/ \E d \in Deliveries : Enqueue(d) \/ BackoffEnds(d) \/ LeaseExpires(d) \/ Cleanup(d)
  <2>1. UNCHANGED <<posts, attempts, batch, step>>
    BY <1>5 DEF Subscribe, Expire, Unsubscribe, AccessChanges, Enqueue, BackoffEnds,
                LeaseExpires, Cleanup, vars, rowVars, runVars, history
  <2> QED
    BY <1>4, <2>1
<1> QED
  BY <1>1, <1>2, <1>3, <1>5, ClaimCounts, PostIsCounted DEF Next, Drain

\* Worker deaths, expired leases and lost answers included, a receiver never
\* gets a POST that no claim had counted.
THEOREM PostsAreCounted == Spec => []EveryPostIsCounted
<1>1. Init => Accounted
  <2>1. Init => \A d \in Deliveries : Owing(d) = {}
    BY DEF Init, Owing
  <2> QED
    BY <2>1, FS_EmptySet DEF Init, Accounted
<1>2. IInv /\ Accounted => EveryPostIsCounted
  <2> SUFFICES ASSUME IInv, Accounted, NEW d \in Deliveries PROVE posts[d] <= attempts[d]
    BY DEF EveryPostIsCounted
  <2>1. Cardinality(Owing(d)) \in Nat /\ posts[d] + Cardinality(Owing(d)) <= attempts[d]
    BY FS_CardinalityType DEF Accounted
  <2> QED
    BY <2>1 DEF IInv, TypeOK
<1> QED
  BY <1>1, <1>2, AccountKept, Invariance, PTL DEF Spec

-----------------------------------------------------------------------------
(* What a failure buys: the claims beyond the budget. *)

\* The drains that may still queue the row again, because they read a count
\* below the budget.
Reopeners(d) == {w \in Workers : d \in batch[w] /\ snap[w][d] < MaxAttempts}

\* The row can be claimed, or its lease run out, at no further failure.
Reclaimable(d) ==
  \/ status[d] \in {"none", "queued"}
  \/ status[d] = "delivering" /\ (d \in due \/ \A w \in Workers : d \notin batch[w])

Reclaims(d) == IF Reclaimable(d) THEN 1 ELSE 0

\* Below the budget, a failure buys at most one drain beside the one at work.
\* From there on, each of these, and a row that waits, is good for one claim.
Metered(d) ==
  IF attempts[d] < MaxAttempts
  THEN Reclaims(d) + Cardinality(Reopeners(d)) <= 1 + faults
  ELSE attempts[d] + Reclaims(d) + Cardinality(Reopeners(d)) <= MaxAttempts + faults

\* Rows go along with their subscription.
RowsNeedSub == sub = "absent" => \A d \in Deliveries : ~Exists(d)

Measured ==
  RowsNeedSub /\ \A d \in Deliveries : IsFiniteSet(Reopeners(d)) /\ Metered(d)

\* A step that counts no attempt keeps the measure of a row, if no drain is
\* added, and the row becomes claimable only for a failure or for a drain less.
LEMMA MeasureKept ==
  ASSUME IInv, IInv', Measured, NEW d \in Deliveries,
         attempts'[d] = attempts[d], faults <= faults', Reopeners(d)' \subseteq Reopeners(d),
         \/ Reclaimable(d)' => Reclaimable(d)
         \/ faults' = faults + 1
         \/ \E w \in Reopeners(d) : w \notin Reopeners(d)'
  PROVE  IsFiniteSet(Reopeners(d)') /\ Metered(d)'
<1> DEFINE n == Cardinality(Reopeners(d))
           m == Cardinality(Reopeners(d)')
<1>1. IsFiniteSet(Reopeners(d)) /\ Metered(d)
  BY DEF Measured
<1>2. IsFiniteSet(Reopeners(d)') /\ n \in Nat /\ m \in Nat /\ m <= n
  BY <1>1, FS_Subset, FS_CardinalityType
<1>3. \A w \in Reopeners(d) : w \notin Reopeners(d)' => m < n
  <2> TAKE w \in Reopeners(d)
  <2> HAVE w \notin Reopeners(d)'
  <2>1. Reopeners(d)' \subseteq Reopeners(d) \ {w}
    OBVIOUS
  <2>2. IsFiniteSet(Reopeners(d) \ {w}) /\ Cardinality(Reopeners(d) \ {w}) = n - 1
    BY <1>1, FS_RemoveElement
  <2>3. m <= n - 1
    BY <2>1, <2>2, FS_Subset
  <2> QED
    BY <1>2, <2>3
<1>4. /\ attempts[d] \in Nat /\ attempts'[d] \in Nat /\ faults \in Nat /\ faults' \in Nat
      /\ MaxAttempts \in Nat
  BY LimitsAssumption DEF IInv, TypeOK
<1>5. /\ Reclaims(d) \in {0, 1} /\ Reclaims(d)' \in {0, 1}
      /\ (Reclaimable(d)' => Reclaimable(d)) => Reclaims(d)' <= Reclaims(d)
  BY DEF Reclaims
<1> HIDE DEF n, m
<1>6. Reclaims(d)' + m <= Reclaims(d) + n + (faults' - faults)
  BY <1>2, <1>3, <1>4, <1>5
<1>7. Metered(d) <=> IF attempts[d] < MaxAttempts THEN Reclaims(d) + n <= 1 + faults
                     ELSE attempts[d] + Reclaims(d) + n <= MaxAttempts + faults
  BY DEF Metered, n
<1>8. Metered(d)' <=> IF attempts'[d] < MaxAttempts THEN Reclaims(d)' + m <= 1 + faults'
                      ELSE attempts'[d] + Reclaims(d)' + m <= MaxAttempts + faults'
  BY DEF Metered, m
<1>9. Metered(d)'
  BY <1>1, <1>2, <1>4, <1>5, <1>6, <1>7, <1>8
<1> QED
  BY <1>2, <1>9

\* A claim turns a row that could be claimed into one at work.
LEMMA ClaimIsMeasured ==
  ASSUME IInv, IInv', Measured, NEW w \in Workers, Claim(w), NEW d \in Deliveries
  PROVE  IsFiniteSet(Reopeners(d)') /\ Metered(d)'
<1> USE DEF IInv
<1>1. PICK claimed \in SUBSET Claimable :
        /\ status' = [e \in Deliveries |-> IF e \in claimed THEN "delivering" ELSE status[e]]
        /\ attempts' = [e \in Deliveries |-> IF e \in claimed THEN attempts[e] + 1 ELSE attempts[e]]
        /\ snap' = [snap EXCEPT ![w] =
             [e \in Deliveries |-> IF e \in claimed THEN attempts[e] + 1 ELSE 0]]
        /\ due' = due \ claimed
        /\ batch' = [batch EXCEPT ![w] = claimed]
  BY DEF Claim, Count, FirstOf
<1>2. batch[w] = {} /\ faults' = faults
  BY DEF Claim
<1>3. \A v \in Workers \ {w} : batch'[v] = batch[v] /\ snap'[v] = snap[v]
  BY <1>1 DEF TypeOK
<1>4. batch'[w] = claimed /\ w \notin Reopeners(d)
  BY <1>1, <1>2 DEF TypeOK, Reopeners
<1>5. IsFiniteSet(Reopeners(d)) /\ Metered(d) /\ Cardinality(Reopeners(d)) \in Nat
  BY FS_CardinalityType DEF Measured
<1>6. attempts[d] \in Nat /\ faults \in Nat /\ MaxAttempts \in Nat
  BY LimitsAssumption DEF TypeOK
<1>7. CASE d \in claimed
  <2>1. Reclaims(d) = 1
    BY <1>1, <1>7 DEF Claimable, Pending, Reclaims, Reclaimable
  <2>2. Reclaims(d)' = 0 /\ attempts'[d] = attempts[d] + 1 /\ snap'[w][d] = attempts[d] + 1
    BY <1>1, <1>4, <1>7 DEF Reclaims, Reclaimable, TypeOK
  <2>3. CASE attempts[d] + 1 < MaxAttempts
    <3>1. Reopeners(d)' = Reopeners(d) \cup {w}
      BY <1>3, <1>4, <1>7, <2>2, <2>3 DEF Reopeners
    <3>2. IsFiniteSet(Reopeners(d)') /\ Cardinality(Reopeners(d)') = Cardinality(Reopeners(d)) + 1
      BY <1>4, <1>5, <3>1, FS_AddElement
    <3> QED
      BY <1>2, <1>5, <1>6, <2>1, <2>2, <2>3, <3>2 DEF Metered
  <2>4. CASE ~ (attempts[d] + 1 < MaxAttempts)
    <3>1. Reopeners(d)' = Reopeners(d)
      BY <1>3, <1>4, <1>7, <2>2, <2>4 DEF Reopeners
    <3> QED
      BY <1>2, <1>5, <1>6, <2>1, <2>2, <2>4, <3>1 DEF Metered
  <2> QED
    BY <2>3, <2>4
<1>8. CASE d \notin claimed
  <2>1. Reopeners(d)' = Reopeners(d)
    BY <1>2, <1>3, <1>4, <1>8 DEF Reopeners
  <2>2. Reclaimable(d)' => Reclaimable(d)
    BY <1>1, <1>2, <1>3, <1>4, <1>8 DEF Reclaimable
  <2> QED
    BY <1>1, <1>2, <1>6, <1>8, <2>1, <2>2, MeasureKept
<1> QED
  BY <1>7, <1>8

\* A stale drain that queues the row again is one drain less that may.
LEMMA RecordIsMeasured ==
  ASSUME IInv, IInv', Measured, NEW w \in Workers, Record(w), NEW d \in Deliveries
  PROVE  IsFiniteSet(Reopeners(d)') /\ Metered(d)'
<1> USE DEF IInv
<1> DEFINE c == Current(w)
<1>1. c \in batch[w] /\ c \in Deliveries
  BY CurrentInBatch DEF Record, TypeOK
<1>2. /\ status' = [status EXCEPT ![c] = IF Exists(c) THEN Recorded(w) ELSE @]
      /\ due' = due \ {c} /\ UNCHANGED <<attempts, faults, snap>>
      /\ batch' = [batch EXCEPT ![w] = @ \ {c}]
  BY DEF Record, NextRow
<1>3. Reopeners(d)' \subseteq Reopeners(d) /\ faults \in Nat
  BY <1>2 DEF Reopeners, TypeOK
<1>4. CASE d = c /\ snap[w][d] < MaxAttempts
  <2>1. w \in Reopeners(d) /\ w \notin Reopeners(d)'
    BY <1>1, <1>2, <1>4 DEF Reopeners, TypeOK
  <2> QED
    BY <1>2, <1>3, <2>1, MeasureKept
<1>5. CASE d = c /\ ~ (snap[w][d] < MaxAttempts)
  <2>1. Recorded(w) \in {"success", "failed"}
    BY <1>5 DEF Recorded
  <2>2. Reclaimable(d)' => Reclaimable(d)
    BY <1>1, <1>2, <1>5, <2>1 DEF Reclaimable, Exists, TypeOK
  <2> QED
    BY <1>2, <1>3, <2>2, MeasureKept
<1>6. CASE d # c
  <2>1. Reclaimable(d)' => Reclaimable(d)
    BY <1>2, <1>6 DEF Reclaimable, TypeOK
  <2> QED
    BY <1>2, <1>3, <2>1, MeasureKept
<1> QED
  BY <1>4, <1>5, <1>6

\* Every other step adds no drain and counts no attempt.
LEMMA OthersAreMeasured ==
  ASSUME IInv, IInv', Measured, Next, \A w \in Workers : ~Claim(w) /\ ~Record(w),
         NEW d \in Deliveries
  PROVE  IsFiniteSet(Reopeners(d)') /\ Metered(d)'
<1> USE DEF IInv
<1>1. faults \in Nat
  BY DEF TypeOK
<1>2. CASE Subscribe \/ Expire \/ Unsubscribe \/ AccessChanges
  <2>1. UNCHANGED <<attempts, due, batch, snap, faults>> /\ status'[d] \in {status[d], "gone"}
    BY <1>2 DEF Subscribe, Expire, Unsubscribe, AccessChanges, Cascade, rowVars, runVars
  <2>2. Reopeners(d)' = Reopeners(d) /\ (Reclaimable(d)' => Reclaimable(d))
    BY <2>1 DEF Reopeners, Reclaimable
  <2> QED
    BY <1>1, <2>1, <2>2, MeasureKept
<1>3. ASSUME NEW e \in Deliveries, Enqueue(e) \/ BackoffEnds(e) \/ Cleanup(e)
      PROVE  IsFiniteSet(Reopeners(d)') /\ Metered(d)'
  <2>1. UNCHANGED <<attempts, batch, snap, faults>>
    BY <1>3 DEF Enqueue, BackoffEnds, Cleanup, runVars
  <2>2. Reclaimable(d)' => Reclaimable(d)
    BY <1>3, <2>1 DEF Enqueue, BackoffEnds, Cleanup, Reclaimable, TypeOK, Terminal
  <2> QED
    BY <1>1, <2>1, <2>2, MeasureKept DEF Reopeners
<1>4. ASSUME NEW e \in Deliveries, LeaseExpires(e)
      PROVE  IsFiniteSet(Reopeners(d)') /\ Metered(d)'
  <2>1. UNCHANGED <<attempts, status, batch, snap>> /\ due' = due \cup {e}
    BY <1>4 DEF LeaseExpires, runVars
  <2>2. CASE \E w \in Workers : e \in batch[w]
    <3>1. faults' = faults + 1
      BY <1>4, <2>2 DEF LeaseExpires, Fault
    <3> QED
      BY <1>1, <2>1, <3>1, MeasureKept DEF Reopeners
  <2>3. CASE \A w \in Workers : e \notin batch[w]
    <3>1. faults' = faults
      BY <1>4, <2>3 DEF LeaseExpires
    <3>2. Reclaimable(d)' => Reclaimable(d)
      BY <2>1, <2>3 DEF Reclaimable
    <3> QED
      BY <1>1, <2>1, <3>1, <3>2, MeasureKept DEF Reopeners
  <2> QED
    BY <2>2, <2>3
<1>5. ASSUME NEW w \in Workers, LoadSubscription(w)
      PROVE  IsFiniteSet(Reopeners(d)') /\ Metered(d)'
  <2>1. UNCHANGED <<attempts, status, due, snap, faults>>
    BY <1>5 DEF LoadSubscription, rowVars
  <2>2. batch' = batch \/ (sub = "absent" /\ batch' = [batch EXCEPT ![w] = {}])
    BY <1>5 DEF LoadSubscription
  <2>3. Reopeners(d)' \subseteq Reopeners(d)
    BY <2>1, <2>2 DEF Reopeners, TypeOK
  <2>4. Reclaimable(d)' => Reclaimable(d)
    BY <2>1, <2>2 DEF Measured, RowsNeedSub, Exists, Reclaimable
  <2> QED
    BY <1>1, <2>1, <2>3, <2>4, MeasureKept
<1>6. ASSUME NEW w \in Workers, Authorize(w) \/ EndSubscription(w) \/ Skip(w) \/ Post(w)
      PROVE  IsFiniteSet(Reopeners(d)') /\ Metered(d)'
  <2>1. UNCHANGED <<attempts, status, due, batch, snap>>
    BY <1>6 DEF Authorize, EndSubscription, Skip, Post, rowVars
  <2>2. faults <= faults'
    BY <1>1, <1>6 DEF Authorize, EndSubscription, Skip, Post, Fault
  <2>3. Reopeners(d)' = Reopeners(d) /\ (Reclaimable(d)' => Reclaimable(d))
    BY <2>1 DEF Reopeners, Reclaimable
  <2> QED
    BY <2>1, <2>2, <2>3, MeasureKept
<1>7. ASSUME NEW w \in Workers, AuthorizeFails(w) \/ RowFails(w) \/ Crash(w)
      PROVE  IsFiniteSet(Reopeners(d)') /\ Metered(d)'
  <2>1. UNCHANGED <<attempts, snap>> /\ faults' = faults + 1
    BY <1>7 DEF AuthorizeFails, RowFails, NextRow, Crash, Fault, rowVars
  <2>2. \A v \in Workers : batch'[v] \subseteq batch[v]
    BY <1>7 DEF AuthorizeFails, RowFails, NextRow, Crash, TypeOK
  <2>3. Reopeners(d)' \subseteq Reopeners(d)
    BY <2>1, <2>2 DEF Reopeners
  <2> QED
    BY <1>1, <2>1, <2>3, MeasureKept
<1> QED
  BY <1>2, <1>3, <1>4, <1>5, <1>6, <1>7 DEF Next, Drain

LEMMA RowsNeedSubKept == IInv /\ RowsNeedSub /\ [Next]_vars => RowsNeedSub'
<1> SUFFICES ASSUME IInv, RowsNeedSub, [Next]_vars, sub' = "absent", NEW d \in Deliveries
             PROVE  ~Exists(d)'
  BY DEF RowsNeedSub
<1> USE DEF IInv, Exists
<1>1. CASE Unsubscribe
  BY <1>1 DEF Unsubscribe, Cascade
<1>2. CASE Subscribe \/ Expire
  BY <1>2 DEF Subscribe, Expire
<1>3. ASSUME sub = "absent", status'[d] \in {status[d], "gone"}
      PROVE  ~Exists(d)'
  BY <1>3 DEF RowsNeedSub
<1>4. CASE AccessChanges \/ UNCHANGED vars
  BY <1>3, <1>4 DEF AccessChanges, rowVars, subVars, vars
<1>5. ASSUME NEW e \in Deliveries, Enqueue(e) \/ BackoffEnds(e) \/ LeaseExpires(e) \/ Cleanup(e)
      PROVE  ~Exists(d)'
  BY <1>3, <1>5 DEF Enqueue, BackoffEnds, LeaseExpires, Cleanup, TypeOK, subVars
<1>6. ASSUME NEW w \in Workers, Claim(w)
      PROVE  ~Exists(d)'
  <2>1. sub = "absent"
    BY <1>6 DEF Claim, subVars
  <2>2. Claimable = {}
    BY <2>1 DEF RowsNeedSub, Claimable, Pending, TypeOK
  <2> QED
    BY <1>6, <2>2 DEF Claim, FirstOf
<1>7. ASSUME NEW w \in Workers, Record(w)
      PROVE  ~Exists(d)'
  <2>1. sub = "absent"
    BY <1>7 DEF Record, subVars
  <2>2. status'[d] = status[d]
    BY <1>7, <2>1 DEF Record, RowsNeedSub, TypeOK
  <2> QED
    BY <1>3, <2>1, <2>2
<1>8. ASSUME NEW w \in Workers,
             \/ LoadSubscription(w) \/ Authorize(w) \/ EndSubscription(w) \/ Skip(w)
             \/ Post(w) \/ AuthorizeFails(w) \/ RowFails(w) \/ Crash(w)
      PROVE  ~Exists(d)'
  <2>1. status' = status /\ sub = "absent"
    BY <1>8 DEF LoadSubscription, Authorize, EndSubscription, Skip, Post, AuthorizeFails,
                RowFails, Crash, rowVars, subVars
  <2> QED
    BY <1>3, <2>1
<1> QED
  BY <1>1, <1>2, <1>4, <1>5, <1>6, <1>7, <1>8 DEF Next, Drain

LEMMA MeasureInvariance == Spec => []Measured
<1>1. Init => Measured
  <2> SUFFICES ASSUME Init PROVE Measured
    OBVIOUS
  <2>1. \A d \in Deliveries : Reopeners(d) = {} /\ Reclaims(d) = 1 /\ attempts[d] = 0 /\ faults = 0
    BY DEF Init, Reopeners, Reclaims, Reclaimable
  <2>2. \A d \in Deliveries : IsFiniteSet(Reopeners(d)) /\ Metered(d)
    BY <2>1, FS_EmptySet, LimitsAssumption DEF Metered
  <2> QED
    BY <2>2 DEF Measured, RowsNeedSub, Init, Exists
<1>2. IInv /\ IInv' /\ Measured /\ [Next]_vars => Measured'
  <2> SUFFICES ASSUME IInv, IInv', Measured, [Next]_vars PROVE Measured'
    OBVIOUS
  <2>1. RowsNeedSub'
    BY RowsNeedSubKept DEF Measured
  <2>2. ASSUME NEW d \in Deliveries
        PROVE  IsFiniteSet(Reopeners(d)') /\ Metered(d)'
    <3>1. CASE UNCHANGED vars
      <4>1. UNCHANGED <<attempts, faults, status, due, batch, snap>> /\ faults \in Nat
        BY <3>1 DEF vars, rowVars, runVars, IInv, TypeOK
      <4>2. Reopeners(d)' = Reopeners(d) /\ (Reclaimable(d)' => Reclaimable(d))
        BY <4>1 DEF Reopeners, Reclaimable
      <4> QED
        BY <4>1, <4>2, MeasureKept
    <3> QED
      BY <3>1, ClaimIsMeasured, RecordIsMeasured, OthersAreMeasured
  <2> QED
    BY <2>1, <2>2 DEF Measured
<1> QED
  BY <1>1, <1>2, Invariance, PTL DEF Spec

\* Each claim of a row beyond MaxAttempts has cost a failure: a crash, an error,
\* a lost answer or a lease that ran out over a drain at work.
THEOREM OverrunsAreFaults == Spec => []OverrunsNeedFaults
<1>1. IInv /\ Measured => OverrunsNeedFaults
  <2> SUFFICES ASSUME IInv, Measured, NEW d \in Deliveries
               PROVE  attempts[d] <= MaxAttempts + faults
    BY DEF OverrunsNeedFaults
  <2>1. Cardinality(Reopeners(d)) \in Nat /\ Reclaims(d) \in Nat /\ Metered(d)
    BY FS_CardinalityType DEF Measured, Reclaims
  <2> QED
    BY <2>1, LimitsAssumption DEF Metered, IInv, TypeOK
<1> QED
  BY <1>1, MeasureInvariance, Invariance, PTL

-----------------------------------------------------------------------------
(* The order of deliveries, with one worker. *)

\* No other worker drains.
Alone(w) == \A v \in Workers : v # w => batch[v] = {}

Untried(d) == d \notin tried /\ d \notin disturbed

\* Rows are inserted in order; an untried row that is queued may be claimed, so
\* a younger row is not claimed before it; one that is not in the drain waits
\* for its lease.
InTurn(w) ==
  /\ \A d, e \in Deliveries : d < e /\ status[e] # "none" => status[d] # "none"
  /\ \A e \in Deliveries : accepted[e] > 0 \/ e \in batch[w] => status[e] # "none"
  /\ \A d \in Deliveries :
       Untried(d) => (status[d] = "queued" => d \in due) /\ (status[d] = "delivering" => d \notin due)
  /\ \A d, e \in Deliveries :
       d < e /\ e \in batch[w] /\ Untried(d) => status[d] # "queued"
  /\ \A d, e \in Deliveries :
       d < e /\ accepted[e] > 0 /\ Untried(d) /\ status[d] \in Pending
         => status[d] = "delivering" /\ d \notin batch[w]

\* The rows before a claimed one are claimed with it.
LEMMA OlderFirst ==
  ASSUME NEW S \in SUBSET Deliveries, NEW e \in FirstOf(S), NEW d \in S, d < e
  PROVE  d \in FirstOf(S)
<1> DEFINE Before(x) == {y \in S : y < x}
<1>1. S \subseteq Nat /\ IsFiniteSet(S) /\ d \in Nat /\ e \in Nat
  BY DeliveriesAssumption, FS_Subset DEF FirstOf
<1>2. Before(d) \subseteq Before(e)
  <2>1. \A y \in S : y < d => y < e
    BY <1>1
  <2> QED
    BY <2>1
<1>3. IsFiniteSet(Before(e))
  BY <1>1, FS_Subset
<1>4. IsFiniteSet(Before(d)) /\ Cardinality(Before(d)) <= Cardinality(Before(e))
  <2> HIDE DEF Before
  <2> QED
    BY <1>2, <1>3, FS_Subset
<1>5. Cardinality(Before(d)) \in Nat /\ Cardinality(Before(e)) \in Nat
  <2> HIDE DEF Before
  <2> QED
    BY <1>3, <1>4, FS_CardinalityType
<1>6. Cardinality(Before(e)) < BatchLimit
  BY DEF FirstOf
<1>7. Cardinality(Before(d)) < BatchLimit
  <2> HIDE DEF Before
  <2> QED
    BY <1>4, <1>5, <1>6, LimitsAssumption
<1> QED
  BY <1>7 DEF FirstOf

\* The drain drops rows, nothing is queued anew, more is tried or disturbed.
LEMMA DropsKeepTurns ==
  ASSUME NEW w \in Workers, InTurn(w), UNCHANGED <<status, due, accepted>>,
         batch'[w] \subseteq batch[w], tried \subseteq tried', disturbed \subseteq disturbed'
  PROVE  InTurn(w)'
BY DEF InTurn, Untried

LEMMA ClaimKeepsTurns ==
  ASSUME TypeOK, NEW w \in Workers, InTurn(w), Alone(w), Claim(w)
  PROVE  InTurn(w)'
<1>1. InHandsOfOthers(w) = {}
  BY DEF InHandsOfOthers, Alone
<1>2. PICK claimed : claimed = FirstOf(Claimable)
  OBVIOUS
<1>3. /\ status' = [d \in Deliveries |-> IF d \in claimed THEN "delivering" ELSE status[d]]
      /\ due' = due \ claimed
      /\ batch' = [batch EXCEPT ![w] = claimed]
      /\ UNCHANGED <<accepted, tried, disturbed>>
  <2>1. \A locked \in SUBSET (Claimable \cap InHandsOfOthers(w)) : FirstOf(Claimable \ locked) = claimed
    BY <1>1, <1>2
  <2> QED
    BY <2>1 DEF Claim, history
<1>4. /\ claimed \subseteq Claimable /\ Claimable \subseteq Deliveries
      /\ \A d \in Claimable : d \in due /\ status[d] \in Pending
      /\ \A d \in Deliveries : d \in due /\ status[d] \in Pending => d \in Claimable
  BY <1>2 DEF FirstOf, Claimable, TypeOK
<1>5. batch'[w] = claimed
  BY <1>3 DEF TypeOK
<1>6. \A d, e \in Deliveries : d < e /\ e \in claimed /\ d \in Claimable => d \in claimed
  BY <1>2, <1>4, OlderFirst
<1>7. \A d \in Deliveries : /\ status'[d] = IF d \in claimed THEN "delivering" ELSE status[d]
                            /\ Untried(d)' <=> Untried(d)
  BY <1>3 DEF Untried
<1>8. \A d \in claimed : status[d] # "none" /\ (Untried(d) => status[d] = "queued")
  BY <1>4 DEF InTurn, Pending
<1>9. \A d, e \in Deliveries : d < e /\ status'[e] # "none" => status'[d] # "none"
  BY <1>4, <1>7, <1>8 DEF InTurn
<1>10. \A e \in Deliveries : accepted'[e] > 0 \/ e \in batch'[w] => status'[e] # "none"
  BY <1>3, <1>5, <1>7 DEF InTurn
<1>11. \A d \in Deliveries :
         Untried(d)' => (status'[d] = "queued" => d \in due') /\ (status'[d] = "delivering" => d \notin due')
  BY <1>3, <1>7 DEF InTurn
<1>12. ASSUME NEW d \in Deliveries, NEW e \in Deliveries, d < e, e \in batch'[w], Untried(d)
       PROVE  status'[d] # "queued"
  BY <1>4, <1>5, <1>6, <1>7, <1>12 DEF InTurn, Pending
<1>13. ASSUME NEW d \in Deliveries, NEW e \in Deliveries, d < e, accepted[e] > 0, Untried(d),
              status'[d] \in Pending
       PROVE  status'[d] = "delivering" /\ d \notin batch'[w]
  <2>1. d \notin claimed
    BY <1>8, <1>13 DEF InTurn, Pending
  <2> QED
    BY <1>5, <1>7, <1>13, <2>1 DEF InTurn
<1> QED
  BY <1>3, <1>7, <1>9, <1>10, <1>11, <1>12, <1>13 DEF InTurn

LEMMA PostKeepsTurns ==
  ASSUME TypeOK, NEW w \in Workers, InTurn(w), Post(w)
  PROVE  InTurn(w)'
<1> DEFINE c == Current(w)
<1>1. batch[w] # {} /\ c \in batch[w] /\ c \in Deliveries /\ \A x \in batch[w] : c <= x
  <2>1. batch[w] # {} /\ batch[w] \subseteq Deliveries
    BY DEF Post, At, TypeOK
  <2>2. c \in batch[w]
    BY <2>1, CurrentInBatch
  <2>3. \E x \in batch[w] : \A y \in batch[w] : x <= y
    BY <2>1, OldestExists, DeliveriesAssumption
  <2>4. \A x \in batch[w] : c <= x
    BY <2>3 DEF Current, Oldest
  <2> QED
    BY <2>1, <2>2, <2>4
<1>2. /\ UNCHANGED <<status, due, batch, tried>> /\ disturbed \subseteq disturbed'
      /\ \A e \in Deliveries : accepted'[e] > 0 => accepted[e] > 0 \/ e = c
  BY DEF Post, rowVars, TypeOK
<1> HIDE DEF c
<1>3. \A d \in Deliveries : Untried(d)' => Untried(d)
  BY <1>2 DEF Untried
<1>4. ASSUME NEW d \in Deliveries, NEW e \in Deliveries, d < e, accepted'[e] > 0, Untried(d),
             status[d] \in Pending
      PROVE  status[d] = "delivering" /\ d \notin batch[w]
  <2>1. CASE accepted[e] > 0
    BY <1>4, <2>1 DEF InTurn
  <2>2. CASE e = c
    <3>1. d \notin batch[w]
      BY <1>1, <1>4, <2>2, DeliveriesAssumption
    <3>2. status[d] # "queued"
      BY <1>1, <1>4, <2>2 DEF InTurn
    <3> QED
      BY <1>4, <3>1, <3>2 DEF Pending
  <2> QED
    BY <1>2, <1>4, <2>1, <2>2
<1> QED
  BY <1>1, <1>2, <1>3, <1>4 DEF InTurn

LEMMA RecordKeepsTurns ==
  ASSUME TypeOK, NEW w \in Workers, InTurn(w), Record(w)
  PROVE  InTurn(w)'
<1> DEFINE c == Current(w)
<1>1. c \in batch[w] /\ c \in Deliveries
  BY CurrentInBatch DEF Record, TypeOK
<1>2. /\ \A d \in Deliveries : d # c => status'[d] = status[d] /\ (d \in due' <=> d \in due)
      /\ status'[c] = "none" <=> status[c] = "none"
      /\ tried' = tried \cup {c} /\ UNCHANGED <<accepted, disturbed>>
      /\ batch'[w] \subseteq batch[w]
  <2>1. Recorded(w) # "none"
    BY DEF Recorded
  <2> QED
    BY <2>1, <1>1 DEF Record, NextRow, TypeOK, Exists
<1> HIDE DEF c
<1>3. \A d \in Deliveries : Untried(d)' <=> Untried(d) /\ d # c
  BY <1>2 DEF Untried
<1> QED
  BY <1>1, <1>2, <1>3 DEF InTurn

LEMMA RowsKeepTurns ==
  ASSUME TypeOK, NEW w \in Workers, InTurn(w), NEW d \in Deliveries,
         Enqueue(d) \/ BackoffEnds(d) \/ LeaseExpires(d) \/ Cleanup(d)
  PROVE  InTurn(w)'
<1>1. CASE Enqueue(d)
  <2>1. /\ status[d] = "none" /\ \A e \in Deliveries : e < d => status[e] # "none"
        /\ status' = [status EXCEPT ![d] = "queued"] /\ due' = due \cup {d}
        /\ UNCHANGED <<batch, accepted, tried, disturbed>>
    BY <1>1 DEF Enqueue, runVars, history
  <2>2. /\ \A e \in Deliveries : status'[e] = IF e = d THEN "queued" ELSE status[e]
        /\ \A e \in Deliveries : e \in due' <=> e \in due \/ e = d
        /\ \A e \in Deliveries : Untried(e)' <=> Untried(e)
    BY <2>1 DEF TypeOK, Untried
  <2>3. \A e, f \in Deliveries : d < e /\ e < f => status[f] = "none"
    BY <2>1, DeliveriesAssumption DEF InTurn
  <2>4. \A e \in Deliveries : d < e => accepted[e] = 0 /\ e \notin batch[w]
    <3>1. \A e \in Deliveries : d < e => status[e] = "none"
      BY <2>1 DEF InTurn
    <3> QED
      BY <3>1 DEF InTurn, TypeOK
  <2> QED
    BY <2>1, <2>2, <2>4 DEF InTurn, Pending
<1>2. CASE BackoffEnds(d)
  <2>1. status[d] = "queued" /\ d \notin due /\ UNCHANGED <<status, batch, accepted, tried, disturbed>>
        /\ due' = due \cup {d}
    BY <1>2 DEF BackoffEnds, runVars, history
  <2> QED
    BY <2>1 DEF InTurn, Untried
<1>3. CASE LeaseExpires(d)
  <2>1. /\ UNCHANGED <<status, batch, accepted, tried>>
        /\ due' = due \cup {d} /\ disturbed' = disturbed \cup {d}
    BY <1>3 DEF LeaseExpires, runVars
  <2> QED
    BY <2>1 DEF InTurn, Untried
<1>4. CASE Cleanup(d)
  <2>1. /\ status[d] \in Terminal /\ status' = [status EXCEPT ![d] = "gone"]
        /\ UNCHANGED <<due, batch, accepted, tried, disturbed>>
    BY <1>4 DEF Cleanup, runVars, history
  <2>2. \A e \in Deliveries : /\ status'[e] = IF e = d THEN "gone" ELSE status[e]
                              /\ Untried(e)' <=> Untried(e)
    BY <2>1 DEF TypeOK, Untried
  <2> QED
    BY <2>1, <2>2 DEF InTurn, Pending, Terminal
<1> QED
  BY <1>1, <1>2, <1>3, <1>4

LEMMA TurnsKept ==
  ASSUME TypeOK, NEW w \in Workers, InTurn(w), Alone(w), Alone(w)', [Next]_vars
  PROVE  InTurn(w)'
<1>1. CASE UNCHANGED vars \/ Subscribe \/ Expire \/ AccessChanges
  BY <1>1, DropsKeepTurns DEF vars, Subscribe, Expire, AccessChanges, rowVars, runVars, history
<1>2. CASE Unsubscribe
  <2>1. /\ \A d \in Deliveries : status'[d] = IF Exists(d) THEN "gone" ELSE status[d]
        /\ UNCHANGED <<due, batch, accepted, tried, disturbed>>
    BY <1>2 DEF Unsubscribe, Cascade, runVars, history
  <2> QED
    BY <2>1 DEF InTurn, Untried, Exists, Pending
<1>3. ASSUME NEW d \in Deliveries,
             Enqueue(d) \/ BackoffEnds(d) \/ LeaseExpires(d) \/ Cleanup(d)
      PROVE  InTurn(w)'
  BY <1>3, RowsKeepTurns
<1>4. ASSUME NEW v \in Workers,
             Claim(v) \/ Drain(v) \/ AuthorizeFails(v) \/ RowFails(v) \/ Crash(v)
      PROVE  InTurn(w)'
  <2>1. v = w
    <3>1. batch[v] # {} \/ batch'[v] # {}
      BY <1>4 DEF Claim, Drain, LoadSubscription, Authorize, EndSubscription, Skip, Post, Record,
                  AuthorizeFails, RowFails, Crash, At, TypeOK
    <3> QED
      BY <3>1 DEF Alone
  <2>2. CASE Claim(w)
    BY <2>2, ClaimKeepsTurns
  <2>3. CASE Post(w)
    BY <2>3, PostKeepsTurns
  <2>4. CASE Record(w)
    BY <2>4, RecordKeepsTurns
  <2>5. CASE \/ LoadSubscription(w) \/ Authorize(w) \/ EndSubscription(w) \/ Skip(w)
             \/ AuthorizeFails(w) \/ RowFails(w) \/ Crash(w)
    <3>1. UNCHANGED <<status, due, accepted, tried, disturbed>>
      BY <2>5 DEF LoadSubscription, Authorize, EndSubscription, Skip, AuthorizeFails, RowFails,
                  Crash, rowVars, history
    <3>2. batch'[w] \subseteq batch[w]
      BY <2>5 DEF LoadSubscription, Authorize, EndSubscription, Skip, AuthorizeFails, RowFails,
                  Crash, NextRow, TypeOK
    <3> QED
      BY <3>1, <3>2, DropsKeepTurns
  <2> QED
    BY <1>4, <2>1, <2>2, <2>3, <2>4, <2>5 DEF Drain
<1> QED
  BY <1>1, <1>2, <1>3, <1>4 DEF Next

\* While one worker drains, a receiver gets an occurrence before an older one
\* that is still to come only if that one was tried already, or waits for the
\* lease of a drain that failed (mcp-events.ts).
THEOREM OrderIsByAge ==
  ASSUME NEW w \in Workers
  PROVE  Spec /\ []Alone(w) => []OldestFirst
<1>1. Init => InTurn(w)
  BY DEF Init, InTurn, Pending
<1>2. TypeOK /\ InTurn(w) /\ Alone(w) /\ Alone(w)' /\ [Next]_vars => InTurn(w)'
  BY TurnsKept
<1>3. InTurn(w) /\ Alone(w) => OldestFirst
  BY DEF InTurn, Alone, OldestFirst, Untried
<1> QED
  BY <1>1, <1>2, <1>3, TypeCorrect, PTL DEF Spec
=============================================================================
