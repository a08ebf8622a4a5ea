----------------------------- MODULE PushQueue -----------------------------
(***************************************************************************)
(* The push queue: apps/api/src/lib/push-queue.ts, with the subscription   *)
(* bookkeeping of lib/web-push.ts, the test routes of                      *)
(* modules/notifications and the operator's retry and cancel.              *)
(*                                                                         *)
(* A browser push goes to every enabled device of a user, side by side,    *)
(* and its row is queued again for the devices that failed.  A personal    *)
(* notification (ntfy, Gotify, webhook) has one destination, Own, and is   *)
(* cancelled when the plan or the settings do not allow it.  Rows are      *)
(* claimed under a lease, their outcome is written by id and without a     *)
(* condition from the row as it was claimed.                               *)
(***************************************************************************)
EXTENDS Naturals, FiniteSets

CONSTANTS
  Pushes,
  Personal,   \* those of a personal channel; the others are browser pushes
  Devices,    \* push subscriptions of the user
  Own,        \* the destination of the personal channel
  PushSweeps, \* processes that run the sweep
  PushTries,  \* MAX_RETRIES
  PushLimit,  \* SWEEP_BATCH_SIZE
  MaxPushFaults, MaxPushActs \* bounds on failures, on the user's and the operator's acts

ASSUME PushesAssumption == Personal \subseteq Pushes /\ Own \notin Devices
ASSUME PushLimitsAssumption == {PushTries, PushLimit} \subseteq Nat \ {0}
ASSUME PushBoundsAssumption == {MaxPushFaults, MaxPushActs} \subseteq Nat
ASSUME PushSweepsAssumption == "request" \notin PushSweeps

VARIABLES
  pushStatus, \* "none" before the insert, "gone" once purged
  pushRetries,
  pushTargets, \* targetSubscriptionIds; empty means every device
  pushLeased, \* rows under a lease that has not run out
  device,     \* per destination: "enabled", "disabled" or "deleted"
  troubled,   \* devices with a recorded error
  pushStage,  \* per agent and push: "idle", "load", "send" or "caught"
  pushRetriesCopy, pushTargetsCopy, \* the agent's copy of the row
  job,        \* per agent, push and destination, the next await of its send
  delivered,  \* per agent and push, the devices counted in result.delivered
  pushGot,    \* history: how often the destination got the push
  pushOdd,    \* history: pairs of push and destination with an excuse
  owed,       \* history: destinations an attempt at all of them selected
  withdrawn,  \* history: destinations that were disabled or deleted
  pushAct,    \* per push, the operator's act that is past its status check
  pushFaults, pushActs

pushRow == <<pushStatus, pushRetries, pushTargets, pushLeased>>
pushWorld == <<device, troubled, withdrawn>>
pushCopy == <<pushRetriesCopy, pushTargetsCopy>>
pushJob == <<pushStage, pushCopy, job, delivered>>
pushHistory == <<pushGot, pushOdd, owed>>
operator == <<pushAct, pushActs>>
pushVars == <<pushRow, pushWorld, pushJob, pushHistory, pushFaults, operator>>

PushAgents == PushSweeps \cup {"request"}
Destinations == Devices \cup {Own}
PushPending == {"queued", "immediate"}
PushTerminal == {"success", "error", "cancelled"}

\* A send is not selected, under way to a device without or with a recorded
\* error, about to write what became of it, or over.
Settled == {"none", "ok", "failed", "disabled", "threw"}
InFlight == {"send", "resend", "clear", "bad", "rejected"}

PushTypeOK ==
  /\ pushStatus \in [Pushes -> PushPending \cup PushTerminal \cup {"none", "gone"}]
  /\ pushRetries \in [Pushes -> 0..PushTries]
  /\ pushTargets \in [Pushes -> SUBSET Devices]
  /\ pushLeased \subseteq Pushes
  /\ device \in [Destinations -> {"enabled", "disabled", "deleted"}]
  /\ troubled \subseteq Devices
  /\ pushStage \in [PushAgents -> [Pushes -> {"idle", "load", "send", "caught"}]]
  /\ pushRetriesCopy \in [PushAgents -> [Pushes -> 0..(PushTries - 1)]]
  /\ pushTargetsCopy \in [PushAgents -> [Pushes -> SUBSET Devices]]
  /\ job \in [PushAgents -> [Pushes -> [Destinations -> Settled \cup InFlight]]]
  /\ delivered \in [PushAgents -> [Pushes -> SUBSET Destinations]]
  /\ pushGot \in [Pushes -> [Destinations -> Nat]]
  /\ pushOdd \subseteq Pushes \X Destinations
  /\ owed \in [Pushes -> SUBSET Destinations]
  /\ withdrawn \subseteq Destinations
  /\ pushAct \in [Pushes -> {"none", "retry", "cancel"}]
  /\ pushFaults \in 0..MaxPushFaults /\ pushActs \in 0..MaxPushActs

NoJobs == [d \in Destinations |-> "none"]

PushInit ==
  /\ pushStatus = [p \in Pushes |-> "none"]
  /\ pushRetries = [p \in Pushes |-> 0]
  /\ pushTargets = [p \in Pushes |-> {}]
  /\ pushLeased = {} /\ troubled = {} /\ pushOdd = {} /\ withdrawn = {}
  /\ device = [d \in Destinations |-> "enabled"]
  /\ pushStage = [a \in PushAgents |-> [p \in Pushes |-> "idle"]]
  /\ pushRetriesCopy = [a \in PushAgents |-> [p \in Pushes |-> 0]]
  /\ pushTargetsCopy = [a \in PushAgents |-> [p \in Pushes |-> {}]]
  /\ job = [a \in PushAgents |-> [p \in Pushes |-> NoJobs]]
  /\ delivered = [a \in PushAgents |-> [p \in Pushes |-> {}]]
  /\ pushGot = [p \in Pushes |-> [d \in Destinations |-> 0]]
  /\ owed = [p \in Pushes |-> {}]
  /\ pushAct = [p \in Pushes |-> "none"]
  /\ pushFaults = 0 /\ pushActs = 0

PushStored(p) == pushStatus[p] \notin {"none", "gone"}
PushIdle(a) == \A p \in Pushes : pushStage[a][p] = "idle"
PushFault == pushFaults < MaxPushFaults /\ pushFaults' = pushFaults + 1
Reaches(p) == IF p \in Personal THEN {Own} ELSE Devices

-----------------------------------------------------------------------------
\* enqueuePush, enqueuePersonalNotification.
QueuePush(p) ==
  /\ pushStatus[p] = "none"
  /\ pushStatus' = [pushStatus EXCEPT ![p] = "queued"]
  /\ UNCHANGED <<pushRetries, pushTargets, pushLeased, pushWorld, pushJob, pushHistory,
                 pushFaults, operator>>

\* A test is stored under a lease and sent by its request.
SendPushTest(p) ==
  /\ pushStatus[p] = "none"
  /\ pushStatus' = [pushStatus EXCEPT ![p] = "immediate"]
  /\ pushLeased' = pushLeased \cup {p}
  /\ pushStage' = [pushStage EXCEPT !["request"][p] = "load"]
  /\ UNCHANGED <<pushRetries, pushTargets, pushWorld, pushCopy, job, delivered, pushHistory,
                 pushFaults, operator>>

PushClaimable ==
  {p \in Pushes : /\ pushRetries[p] < PushTries
                  /\ \/ pushStatus[p] = "queued"
                     \/ pushStatus[p] = "immediate" /\ p \notin pushLeased}

\* claimQueuedPushes, once the last batch of the sweep is through.
PushClaim(s, batch) ==
  /\ PushIdle(s)
  /\ batch # {} /\ batch \subseteq PushClaimable /\ Cardinality(batch) <= PushLimit
  /\ pushStatus' = [p \in Pushes |-> IF p \in batch THEN "immediate" ELSE pushStatus[p]]
  /\ pushLeased' = pushLeased \cup batch
  /\ pushStage' = [pushStage EXCEPT ![s] = [p \in Pushes |-> IF p \in batch THEN "load" ELSE "idle"]]
  /\ pushRetriesCopy' = [pushRetriesCopy EXCEPT ![s] =
                           [p \in Pushes |-> IF p \in batch THEN pushRetries[p] ELSE 0]]
  /\ pushTargetsCopy' = [pushTargetsCopy EXCEPT ![s] =
                           [p \in Pushes |-> IF p \in batch THEN pushTargets[p] ELSE {}]]
  /\ UNCHANGED <<pushRetries, pushTargets, pushWorld, job, delivered, pushHistory,
                 pushFaults, operator>>

Aims(a, p) ==
  IF p \in Personal \/ pushTargetsCopy[a][p] = {} THEN Reaches(p) ELSE pushTargetsCopy[a][p]

\* The enabled destinations among the targets are read; a test of a personal
\* channel ignores that the user has switched it off.  Reading may throw, for
\* lack of VAPID keys for one.
PushLoad(a, p) ==
  /\ pushStage[a][p] = "load"
  /\ \/ /\ \E ignored \in (IF a = "request" THEN SUBSET ({Own} \cap Reaches(p)) ELSE {{}}) :
             LET chosen == {d \in Aims(a, p) : device[d] = "enabled" \/ d \in ignored}
             IN /\ job' = [job EXCEPT ![a][p] = [d \in Destinations |->
                             IF d \notin chosen THEN "none"
                             ELSE IF d \in troubled THEN "resend" ELSE "send"]]
                /\ owed' = IF pushTargetsCopy[a][p] = {}
                           THEN [owed EXCEPT ![p] = @ \cup chosen] ELSE owed
        /\ pushStage' = [pushStage EXCEPT ![a][p] = "send"]
     \/ /\ pushStage' = [pushStage EXCEPT ![a][p] = "caught"]
        /\ UNCHANGED <<job, owed>>
  /\ UNCHANGED <<pushRow, pushWorld, pushCopy, delivered, pushGot, pushOdd, pushFaults, operator>>

JobIs(a, p, d, j) == pushStage[a][p] = "send" /\ job[a][p][d] = j
JobGoto(a, p, d, j) ==
  /\ job' = [job EXCEPT ![a][p][d] = j]
  /\ UNCHANGED <<pushStage, pushCopy>>

\* The provider accepts, refuses for now, no longer knows the device (404 or
\* 410), or accepts with the answer lost.
PushSend(a, p, d) ==
  /\ \E j \in {"send", "resend"} :
       /\ JobIs(a, p, d, j)
       /\ \/ /\ pushGot' = [pushGot EXCEPT ![p][d] = @ + 1]
             /\ \/ /\ JobGoto(a, p, d, IF j = "resend" THEN "clear" ELSE "ok")
                   /\ delivered' = [delivered EXCEPT ![a][p] = @ \cup {d}]
                   /\ UNCHANGED <<pushOdd, pushFaults>>
                \/ /\ JobGoto(a, p, d, IF d = Own THEN "threw" ELSE "bad") /\ PushFault
                   /\ pushOdd' = pushOdd \cup {<<p, d>>}
                   /\ UNCHANGED delivered
          \/ /\ IF d = Own THEN JobGoto(a, p, d, "threw")
                ELSE \E k \in {"bad", "rejected"} : JobGoto(a, p, d, k)
             /\ UNCHANGED <<delivered, pushGot, pushOdd, pushFaults>>
  /\ UNCHANGED <<pushRow, pushWorld, owed, operator>>

\* clearSubscriptionErrors enables the device, handleSubscriptionError disables
\* it for good or, from a stale copy too, enables it again.
Mark(d, state) ==
  /\ device' = IF device[d] = "deleted" THEN device ELSE [device EXCEPT ![d] = state]
  /\ withdrawn' = IF state = "disabled" THEN withdrawn \cup {d} ELSE withdrawn

PushClear(a, p, d) ==
  /\ JobIs(a, p, d, "clear") /\ JobGoto(a, p, d, "ok")
  /\ Mark(d, "enabled") /\ troubled' = troubled \ {d}
  /\ UNCHANGED <<pushRow, delivered, pushHistory, pushFaults, operator>>

PushBlame(a, p, d) ==
  /\ \/ JobIs(a, p, d, "bad") /\ JobGoto(a, p, d, "failed") /\ Mark(d, "enabled")
     \/ JobIs(a, p, d, "rejected") /\ JobGoto(a, p, d, "disabled") /\ Mark(d, "disabled")
  /\ troubled' = troubled \cup {d}
  /\ UNCHANGED <<pushRow, delivered, pushHistory, pushFaults, operator>>

\* One of these writes rejects.  After an accepted send the catch block counts
\* the device as failed; from the catch block the whole row fails, once the
\* other devices are through.
PushMarkFails(a, p, d) ==
  /\ \/ /\ JobIs(a, p, d, "clear") /\ JobGoto(a, p, d, "bad")
        /\ pushOdd' = pushOdd \cup {<<p, d>>}
     \/ /\ \E j \in {"bad", "rejected"} : JobIs(a, p, d, j) /\ JobGoto(a, p, d, "threw")
        /\ pushOdd' = pushOdd \cup ({p} \X Destinations)
  /\ PushFault
  /\ UNCHANGED <<pushRow, pushWorld, delivered, pushGot, owed, operator>>

\* All devices of the push are through.
Outcome(a, p, j) == {d \in Destinations : job[a][p][d] = j}
Through(a, p) ==
  pushStage[a][p] = "send" /\ \A d \in Destinations : job[a][p][d] \notin InFlight
Threw(a, p) == pushStage[a][p] = "caught" \/ (Through(a, p) /\ Outcome(a, p, "threw") # {})

PushEnd(a, p) ==
  /\ pushStage' = [pushStage EXCEPT ![a][p] = "idle"]
  /\ pushRetriesCopy' = [pushRetriesCopy EXCEPT ![a][p] = 0]
  /\ pushTargetsCopy' = [pushTargetsCopy EXCEPT ![a][p] = {}]
  /\ job' = [job EXCEPT ![a][p] = NoJobs]
  /\ delivered' = [delivered EXCEPT ![a][p] = {}]

PushWrite(a, p, outcome, retries, targets) ==
  /\ PushEnd(a, p)
  /\ pushLeased' = pushLeased \ {p}
  /\ IF PushStored(p)
     THEN /\ pushStatus' = [pushStatus EXCEPT ![p] = outcome]
          /\ pushRetries' = [pushRetries EXCEPT ![p] = retries]
          /\ pushTargets' = [pushTargets EXCEPT ![p] = targets]
     ELSE UNCHANGED <<pushStatus, pushRetries, pushTargets>>
  /\ UNCHANGED <<pushWorld, pushHistory, pushFaults, operator>>

\* Slip: the result of the delivery is stored in place of a status of the queue.
VerdictAsDelivered(a, p) == IF Outcome(a, p, "failed") = {} THEN "delivered" ELSE "error"

Verdict(a, p) ==
  IF p \in Personal /\ Outcome(a, p, "ok") = {} THEN "cancelled"
  ELSE IF Outcome(a, p, "ok") # {} /\ Outcome(a, p, "failed") = {} THEN "success"
  ELSE "error"

\* Slip: the retry goes to every device again.
RetryTargetsAll(a, p) == {}

RetryTargets(a, p) == Outcome(a, p, "failed")

\* A personal row, or one without a device to send to, keeps its retries.
RetriesAfter(a, p) ==
  IF p \in Personal \/ \A d \in Devices : job[a][p][d] = "none" THEN pushRetries[p]
  ELSE pushRetriesCopy[a][p] + (IF Outcome(a, p, "failed") # {} THEN 1 ELSE 0)

\* A browser push that failed at some devices is queued for these, within its
\* budget; a test is not.
PushRecord(a, p) ==
  /\ Through(a, p) /\ ~Threw(a, p)
  /\ LET tries == pushRetriesCopy[a][p] + 1
         failed == Outcome(a, p, "failed") # {}
     IN IF a = "request"
        THEN PushWrite(a, p, Verdict(a, p), pushRetries[p], pushTargets[p])
        ELSE IF failed /\ tries < PushTries
        THEN PushWrite(a, p, "queued", tries, RetryTargets(a, p))
        ELSE PushWrite(a, p, Verdict(a, p), RetriesAfter(a, p), pushTargets[p])

\* The catch block.  The test of a browser push has none: its row stays in
\* flight until the lease runs out; that of a personal channel does not retry.
PushCaught(a, p) ==
  /\ Threw(a, p)
  /\ IF a = "request" /\ p \notin Personal
     THEN PushEnd(a, p) /\ UNCHANGED <<pushRow, pushWorld, pushHistory, pushFaults, operator>>
     ELSE LET tries == pushRetriesCopy[a][p] + 1
          IN PushWrite(a, p, IF tries >= PushTries \/ a = "request" THEN "error" ELSE "queued",
                       tries, pushTargets[p])

\* The write of an outcome rejects: that of PushRecord leads to the catch block.
PushWriteFails(a, p) ==
  /\ PushFault
  /\ pushOdd' = pushOdd \cup ({p} \X Destinations)
  /\ \/ /\ Through(a, p) /\ ~Threw(a, p)
        /\ pushStage' = [pushStage EXCEPT ![a][p] = "caught"]
        /\ UNCHANGED <<pushCopy, job, delivered>>
     \/ Threw(a, p) /\ PushEnd(a, p)
  /\ UNCHANGED <<pushRow, pushWorld, pushGot, owed, operator>>

PushCrash(a) ==
  /\ ~PushIdle(a) /\ PushFault
  /\ pushStage' = [pushStage EXCEPT ![a] = [p \in Pushes |-> "idle"]]
  /\ job' = [job EXCEPT ![a] = [p \in Pushes |-> NoJobs]]
  /\ delivered' = [delivered EXCEPT ![a] = [p \in Pushes |-> {}]]
  /\ pushRetriesCopy' = [pushRetriesCopy EXCEPT ![a] = [p \in Pushes |-> 0]]
  /\ pushTargetsCopy' = [pushTargetsCopy EXCEPT ![a] = [p \in Pushes |-> {}]]
  /\ UNCHANGED <<pushRow, pushWorld, pushHistory, operator>>

\* PROCESSING_LEASE_MS pass; under an agent that still works it is a stall.
PushLeaseExpires(p) ==
  /\ p \in pushLeased /\ pushLeased' = pushLeased \ {p}
  /\ IF \E a \in PushAgents : pushStage[a][p] # "idle" THEN PushFault ELSE UNCHANGED pushFaults
  /\ pushOdd' = pushOdd \cup ({p} \X Destinations)
  /\ UNCHANGED <<pushStatus, pushRetries, pushTargets, pushWorld, pushJob, pushGot, owed,
                 operator>>

\* runPushQueueCleanup: terminal rows past their retention.
PushCleanup(p) ==
  /\ pushStatus[p] \in PushTerminal
  /\ pushStatus' = [pushStatus EXCEPT ![p] = "gone"]
  /\ pushLeased' = pushLeased \ {p}
  /\ UNCHANGED <<pushRetries, pushTargets, pushWorld, pushJob, pushHistory, pushFaults, operator>>

\* The user removes a device, subscribes it again, or switches the personal
\* channel (its plan may do that too).
UserActs(d) ==
  /\ pushActs < MaxPushActs /\ pushActs' = pushActs + 1
  /\ \/ d \in Devices /\ device[d] # "deleted" /\ device' = [device EXCEPT ![d] = "deleted"]
     \/ d = Own /\ device[d] = "enabled" /\ device' = [device EXCEPT ![d] = "disabled"]
     \/ device[d] = "disabled" /\ device' = [device EXCEPT ![d] = "enabled"]
  /\ troubled' = troubled \ {d}
  /\ withdrawn' = withdrawn \cup {d}
  /\ UNCHANGED <<pushRow, pushJob, pushHistory, pushFaults, pushAct>>

\* The operator's retry of a failed push, or cancel of a pending one: a status
\* check, then an UPDATE without a condition.
PushOperatorChecks(p, act) ==
  /\ pushAct[p] = "none" /\ pushActs < MaxPushActs
  /\ pushStatus[p] \in (IF act = "retry" THEN {"error"} ELSE PushPending)
  /\ pushAct' = [pushAct EXCEPT ![p] = act]
  /\ pushActs' = pushActs + 1
  /\ pushOdd' = pushOdd \cup ({p} \X Destinations)
  /\ UNCHANGED <<pushRow, pushWorld, pushJob, pushGot, owed, pushFaults>>

PushOperatorActs(p) ==
  /\ pushAct[p] # "none" /\ pushAct' = [pushAct EXCEPT ![p] = "none"]
  /\ pushLeased' = pushLeased \ {p}
  /\ IF ~PushStored(p) THEN UNCHANGED <<pushStatus, pushRetries>>
     ELSE IF pushAct[p] = "cancel"
     THEN pushStatus' = [pushStatus EXCEPT ![p] = "cancelled"] /\ UNCHANGED pushRetries
     ELSE /\ pushStatus' = [pushStatus EXCEPT ![p] = "queued"]
          /\ pushRetries' = [pushRetries EXCEPT ![p] = 0]
  /\ UNCHANGED <<pushTargets, pushWorld, pushJob, pushHistory, pushFaults, pushActs>>

-----------------------------------------------------------------------------
PushStep(a, p) ==
  \/ PushLoad(a, p) \/ PushRecord(a, p) \/ PushCaught(a, p)
  \/ \E d \in Destinations : PushSend(a, p, d) \/ PushClear(a, p, d) \/ PushBlame(a, p, d)

PushNext ==
  \/ \E p \in Pushes :
       \/ QueuePush(p) \/ SendPushTest(p) \/ PushLeaseExpires(p) \/ PushCleanup(p)
       \/ PushOperatorActs(p)
       \/ \E act \in {"retry", "cancel"} : PushOperatorChecks(p, act)
       \/ \E a \in PushAgents :
            \/ PushStep(a, p) \/ PushWriteFails(a, p)
            \/ \E d \in Destinations : PushMarkFails(a, p, d)
  \/ \E s \in PushSweeps, batch \in SUBSET Pushes : PushClaim(s, batch)
  \/ \E a \in PushAgents : PushCrash(a)
  \/ \E d \in Destinations : UserActs(d)

PushSpec == PushInit /\ [][PushNext]_pushVars

\* The sweep polls and claims until nothing is due, deliveries end, time passes.
PushFairness ==
  \A p \in Pushes :
    /\ WF_pushVars(PushLeaseExpires(p))
    /\ \A a \in PushAgents : WF_pushVars(PushStep(a, p))
    /\ \A s \in PushSweeps : WF_pushVars(\E batch \in SUBSET Pushes : p \in batch /\ PushClaim(s, batch))

-----------------------------------------------------------------------------
(* Properties. *)

\* One item per push and destination: it is open while the row is pending and
\* aims at the destination.
PushItems == {i \in Pushes \X Destinations : i[2] \in Reaches(i[1])}
PushOpen == {i \in PushItems : /\ pushStatus[i[1]] \in PushPending
                               /\ pushTargets[i[1]] # {} => i[2] \in pushTargets[i[1]]}

PushPromise == INSTANCE LeaseQueue WITH
  Items   <- PushItems,
  known   <- {i \in PushItems : pushStatus[i[1]] # "none"},
  open    <- PushOpen,
  done    <- {i \in PushItems : pushStatus[i[1]] = "success" /\ i[2] \in owed[i[1]] \ withdrawn},
  sends   <- [i \in PushItems |-> pushGot[i[1]][i[2]]],
  excused <- pushOdd \cap PushItems

\* A push reaches a device once unless an answer, a write or a lease is lost:
\* when one device fails, the retry does not go to those that got it; "success"
\* is only written if every device an attempt selected got the push or was
\* withdrawn, so that no desktop hides a phone; and every row ends.
ImplementsPushQueue == PushPromise!Spec

ImplementsPushQueueSafely == PushPromise!SafeSpec

\* "Persist only transiently failed devices.  Successful devices must not
\* receive duplicates", says processPushQueueRow of the retry it writes: none of
\* its targets is a device the same delivery has counted as delivered.
SuccessfulAreNotRetried ==
  \A a \in PushSweeps, p \in Pushes :
    Through(a, p) => RetryTargets(a, p) \cap delivered[a][p] = {}
=============================================================================
