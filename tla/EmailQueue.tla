----------------------------- MODULE EmailQueue -----------------------------
(***************************************************************************)
(* The email queue: apps/api/src/lib/email-queue.ts, the immediate mail of *)
(* lib/mailer.ts and the operator's retry and cancel (admin/ops.routes.ts).*)
(*                                                                         *)
(* A mail is queued for the sweep, or stored under a lease and sent by the *)
(* request itself.  Sweeps claim due rows, send them side by side, and     *)
(* write each outcome by id and without a condition, from the row as it    *)
(* was claimed.  The catch block of a send also covers the write of its    *)
(* success.  A sweep that finds no SMTP configuration claims nothing.      *)
(***************************************************************************)
EXTENDS Naturals, FiniteSets

CONSTANTS
  Mails,
  MailSweeps, \* processes that run the sweep
  MailTries,  \* MAX_RETRIES
  MailLimit,  \* SWEEP_BATCH_SIZE
  MaxMailFaults, MaxMailActs \* bounds on failures and on the operator's acts

ASSUME MailLimitsAssumption == {MailTries, MailLimit} \subseteq Nat \ {0}
ASSUME MailBoundsAssumption == {MaxMailFaults, MaxMailActs} \subseteq Nat
ASSUME MailSweepsAssumption == "request" \notin MailSweeps

VARIABLES
  mailStatus, \* "none" before the insert, "gone" once purged
  mailRetries,
  mailDue,    \* mails whose nextAttemptAt is past
  mailLeased, \* mails under a lease that has not run out
  mailStage,  \* per sender and mail, the next await of the delivery
  mailCopy,   \* retries in the sender's copy of the row
  mailAct,    \* per mail, the operator's act that is past its status check
  mailGot,    \* history: how often the recipient got it
  mailOdd,    \* history: mails with an excuse
  mailFaults, mailActs

mailRow == <<mailStatus, mailRetries, mailDue, mailLeased>>
mailJob == <<mailStage, mailCopy>>
mailVars == <<mailRow, mailJob, mailAct, mailGot, mailOdd, mailFaults, mailActs>>

Senders == MailSweeps \cup {"request"}
MailPending == {"queued", "immediate"}
MailTerminal == {"success", "error"}

MailTypeOK ==
  /\ mailStatus \in [Mails -> MailPending \cup MailTerminal \cup {"none", "gone"}]
  /\ mailRetries \in [Mails -> 0..MailTries]
  /\ mailDue \subseteq Mails
  /\ mailLeased \subseteq Mails
  /\ mailStage \in [Senders -> [Mails -> {"idle", "send", "sent", "failed", "rejected"}]]
  /\ mailCopy \in [Senders -> [Mails -> 0..(MailTries - 1)]]
  /\ mailAct \in [Mails -> {"none", "retry", "cancel"}]
  /\ mailGot \in [Mails -> Nat]
  /\ mailOdd \subseteq Mails
  /\ mailFaults \in 0..MaxMailFaults /\ mailActs \in 0..MaxMailActs

MailInit ==
  /\ mailStatus = [m \in Mails |-> "none"]
  /\ mailRetries = [m \in Mails |-> 0]
  /\ mailDue = Mails /\ mailLeased = {} /\ mailOdd = {}
  /\ mailStage = [a \in Senders |-> [m \in Mails |-> "idle"]]
  /\ mailCopy = [a \in Senders |-> [m \in Mails |-> 0]]
  /\ mailAct = [m \in Mails |-> "none"]
  /\ mailGot = [m \in Mails |-> 0]
  /\ mailFaults = 0 /\ mailActs = 0

Stored(m) == mailStatus[m] \notin {"none", "gone"}
MailIdle(a) == \A m \in Mails : mailStage[a][m] = "idle"
MailGoto(a, m, s) == mailStage' = [mailStage EXCEPT ![a][m] = s]
MailFault == mailFaults < MaxMailFaults /\ mailFaults' = mailFaults + 1

-----------------------------------------------------------------------------
\* queueEmail.
QueueMail(m) ==
  /\ mailStatus[m] = "none"
  /\ mailStatus' = [mailStatus EXCEPT ![m] = "queued"]
  /\ UNCHANGED <<mailRetries, mailDue, mailLeased, mailJob, mailAct, mailGot, mailOdd,
                 mailFaults, mailActs>>

\* queueImmediateEmail: the row is stored under a lease and sent at once.
SendAtOnce(m) ==
  /\ mailStatus[m] = "none"
  /\ mailStatus' = [mailStatus EXCEPT ![m] = "immediate"]
  /\ mailLeased' = mailLeased \cup {m}
  /\ MailGoto("request", m, "send")
  /\ UNCHANGED <<mailRetries, mailDue, mailCopy, mailAct, mailGot, mailOdd, mailFaults, mailActs>>

MailClaimable ==
  {m \in Mails : /\ mailRetries[m] < MailTries
                 /\ \/ mailStatus[m] = "queued" /\ m \in mailDue
                    \/ mailStatus[m] = "immediate" /\ m \notin mailLeased}

\* claimQueuedEmails, once the last batch of the sweep is through: due rows that
\* no other statement has locked.
MailClaim(s, batch) ==
  /\ MailIdle(s)
  /\ batch # {} /\ batch \subseteq MailClaimable /\ Cardinality(batch) <= MailLimit
  /\ mailStatus' = [m \in Mails |-> IF m \in batch THEN "immediate" ELSE mailStatus[m]]
  /\ mailLeased' = mailLeased \cup batch
  /\ mailStage' = [mailStage EXCEPT ![s] = [m \in Mails |-> IF m \in batch THEN "send" ELSE "idle"]]
  /\ mailCopy' = [mailCopy EXCEPT ![s] = [m \in Mails |-> IF m \in batch THEN mailRetries[m] ELSE 0]]
  /\ UNCHANGED <<mailRetries, mailDue, mailAct, mailGot, mailOdd, mailFaults, mailActs>>

\* sendEmail: accepted, refused for now (or no SMTP configuration), rejected for
\* good, or accepted with the answer lost.
SendMail(a, m) ==
  /\ mailStage[a][m] = "send"
  /\ \/ /\ mailGot' = [mailGot EXCEPT ![m] = @ + 1]
        /\ \/ MailGoto(a, m, "sent") /\ UNCHANGED <<mailOdd, mailFaults>>
           \/ MailGoto(a, m, "failed") /\ MailFault /\ mailOdd' = mailOdd \cup {m}
     \/ /\ \E s \in {"failed", "rejected"} : MailGoto(a, m, s)
        /\ UNCHANGED <<mailGot, mailOdd, mailFaults>>
  /\ UNCHANGED <<mailRow, mailCopy, mailAct, mailActs>>

\* An outcome is written by id, whatever the row says by now.
MailWrite(a, m, outcome, retries) ==
  /\ MailGoto(a, m, "idle")
  /\ mailCopy' = [mailCopy EXCEPT ![a][m] = 0]
  /\ mailLeased' = mailLeased \ {m}
  /\ mailStatus' = IF Stored(m) THEN [mailStatus EXCEPT ![m] = outcome] ELSE mailStatus
  /\ mailRetries' = IF Stored(m) THEN [mailRetries EXCEPT ![m] = retries] ELSE mailRetries
  /\ UNCHANGED <<mailAct, mailGot, mailOdd, mailFaults, mailActs>>

RecordSent(a, m) ==
  /\ mailStage[a][m] = "sent"
  /\ MailWrite(a, m, "success", mailRetries[m])
  /\ UNCHANGED mailDue

\* Slip: the budget is compared one attempt too late, so that a row is queued
\* which no claim selects.
RecordUnsentLate(a, m) ==
  /\ mailStage[a][m] \in {"failed", "rejected"}
  /\ LET retries == mailCopy[a][m] + 1
         ends == mailStage[a][m] = "rejected" \/ a = "request" \/ retries > MailTries
     IN MailWrite(a, m, IF ends THEN "error" ELSE "queued", retries)
  /\ mailDue' = IF a = "request" THEN mailDue ELSE mailDue \ {m}

\* The catch block: requeue with a backoff, unless the recipient is rejected or
\* the budget is spent.  A request does not retry (markFailed).
RecordUnsent(a, m) ==
  /\ mailStage[a][m] \in {"failed", "rejected"}
  /\ LET retries == mailCopy[a][m] + 1
         ends == mailStage[a][m] = "rejected" \/ a = "request" \/ retries >= MailTries
     IN MailWrite(a, m, IF ends THEN "error" ELSE "queued", retries)
  /\ mailDue' = IF a = "request" THEN mailDue ELSE mailDue \ {m}

\* The write rejects: that of a success leads to the catch block, that of a
\* failure ends the delivery and leaves the row in flight.
MailWriteFails(a, m) ==
  /\ mailStage[a][m] \in {"sent", "failed", "rejected"}
  /\ MailFault
  /\ MailGoto(a, m, IF mailStage[a][m] = "sent" THEN "failed" ELSE "idle")
  /\ mailCopy' = IF mailStage[a][m] = "sent" THEN mailCopy ELSE [mailCopy EXCEPT ![a][m] = 0]
  /\ mailOdd' = mailOdd \cup {m}
  /\ UNCHANGED <<mailRow, mailAct, mailGot, mailActs>>

MailCrash(a) ==
  /\ ~MailIdle(a) /\ MailFault
  /\ mailStage' = [mailStage EXCEPT ![a] = [m \in Mails |-> "idle"]]
  /\ mailCopy' = [mailCopy EXCEPT ![a] = [m \in Mails |-> 0]]
  /\ UNCHANGED <<mailRow, mailAct, mailGot, mailOdd, mailActs>>

\* PROCESSING_LEASE_MS pass; under a sender that still works it is a stall.
MailLeaseExpires(m) ==
  /\ m \in mailLeased /\ mailLeased' = mailLeased \ {m}
  /\ IF \E a \in Senders : mailStage[a][m] # "idle" THEN MailFault ELSE UNCHANGED mailFaults
  /\ mailOdd' = mailOdd \cup {m}
  /\ UNCHANGED <<mailStatus, mailRetries, mailDue, mailJob, mailAct, mailGot, mailActs>>

MailBackoffEnds(m) ==
  /\ m \notin mailDue /\ mailDue' = mailDue \cup {m}
  /\ UNCHANGED <<mailStatus, mailRetries, mailLeased, mailJob, mailAct, mailGot, mailOdd,
                 mailFaults, mailActs>>

\* runEmailQueueCleanup: terminal rows past their retention.
MailCleanup(m) ==
  /\ mailStatus[m] \in MailTerminal
  /\ mailStatus' = [mailStatus EXCEPT ![m] = "gone"]
  /\ mailLeased' = mailLeased \ {m}
  /\ UNCHANGED <<mailRetries, mailDue, mailJob, mailAct, mailGot, mailOdd, mailFaults, mailActs>>

\* The operator's retry of a failed mail, or cancel of a pending one: a status
\* check, then an UPDATE without a condition.
MailOperatorChecks(m, act) ==
  /\ mailAct[m] = "none" /\ mailActs < MaxMailActs
  /\ mailStatus[m] \in (IF act = "retry" THEN {"error"} ELSE MailPending)
  /\ mailAct' = [mailAct EXCEPT ![m] = act]
  /\ mailActs' = mailActs + 1
  /\ mailOdd' = mailOdd \cup {m}
  /\ UNCHANGED <<mailRow, mailJob, mailGot, mailFaults>>

MailOperatorActs(m) ==
  /\ mailAct[m] # "none" /\ mailAct' = [mailAct EXCEPT ![m] = "none"]
  /\ mailLeased' = mailLeased \ {m}
  /\ IF Stored(m)
     THEN IF mailAct[m] = "retry"
          THEN /\ mailStatus' = [mailStatus EXCEPT ![m] = "queued"]
               /\ mailRetries' = [mailRetries EXCEPT ![m] = 0]
               /\ mailDue' = mailDue \cup {m}
          ELSE /\ mailStatus' = [mailStatus EXCEPT ![m] = "error"]
               /\ UNCHANGED <<mailRetries, mailDue>>
     ELSE UNCHANGED <<mailStatus, mailRetries, mailDue>>
  /\ UNCHANGED <<mailJob, mailGot, mailOdd, mailFaults, mailActs>>

-----------------------------------------------------------------------------
MailStep(a, m) == SendMail(a, m) \/ RecordSent(a, m) \/ RecordUnsent(a, m)

MailNext ==
  \/ \E m \in Mails :
       \/ QueueMail(m) \/ SendAtOnce(m) \/ MailLeaseExpires(m) \/ MailBackoffEnds(m)
       \/ MailCleanup(m) \/ MailOperatorActs(m)
       \/ \E act \in {"retry", "cancel"} : MailOperatorChecks(m, act)
       \/ \E a \in Senders : MailStep(a, m) \/ MailWriteFails(a, m)
  \/ \E s \in MailSweeps, batch \in SUBSET Mails : MailClaim(s, batch)
  \/ \E a \in Senders : MailCrash(a)

MailSpec == MailInit /\ [][MailNext]_mailVars

\* The sweep polls and claims until nothing is due, deliveries end (SMTP and
\* queries have time-outs), time passes.
MailFairness ==
  \A m \in Mails :
    /\ WF_mailVars(MailLeaseExpires(m)) /\ WF_mailVars(MailBackoffEnds(m))
    /\ \A a \in Senders : WF_mailVars(MailStep(a, m))
    /\ \A s \in MailSweeps : WF_mailVars(\E batch \in SUBSET Mails : m \in batch /\ MailClaim(s, batch))

-----------------------------------------------------------------------------
MailPromise == INSTANCE LeaseQueue WITH
  Items   <- Mails,
  known   <- {m \in Mails : mailStatus[m] # "none"},
  open    <- {m \in Mails : mailStatus[m] \in MailPending},
  done    <- {m \in Mails : mailStatus[m] = "success"},
  sends   <- mailGot,
  excused <- mailOdd

\* A mail is sent, once unless its answer or a write of its outcome is lost, its
\* lease runs out or an operator acts; "success" is never written for a mail
\* that was not sent, whichever stale copy writes last; and every mail ends in
\* success or error, within its budget of attempts.
ImplementsMailQueue == MailPromise!Spec

ImplementsMailQueueSafely == MailPromise!SafeSpec
=============================================================================
