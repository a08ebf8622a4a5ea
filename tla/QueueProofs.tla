---------------------------- MODULE QueueProofs ----------------------------
(***************************************************************************)
(* Theorems about DirectOutbox, EmailQueue and PushQueue for any rows,     *)
(* processes, limits and bounds: each keeps the safety part of the promise *)
(* of LeaseQueue.                                                          *)
(***************************************************************************)
EXTENDS MCQueues, TLAPS

\* An event that is not late is in the hands of one dispatcher at most, which
\* holds its lease, and nobody has broadcast it who has not completed it.
DirectSteady ==
  \A e \in DirectEvents \ directLate :
    /\ \A w \in Dispatchers : e \in left[w] \cup heard[w] =>
         /\ e \in directRows \ directSent /\ directLease[e] = "held"
         /\ \A v \in Dispatchers \ {w} : e \notin left[v] \cup heard[v]
    /\ \A w \in Dispatchers : e \in left[w] => directCasts[e] = 0
    /\ e \in directRows \ directSent /\ (\A w \in Dispatchers : e \notin heard[w])
         => directCasts[e] = 0

\* Rows are those of stored events, and what is completed or marked was broadcast.
DirectEarned ==
  /\ directRows \cup directSent \subseteq {e \in DirectEvents : directPub[e] = "stored"}
  /\ \A e \in directSent : directCasts[e] > 0
  /\ \A w \in Dispatchers : \A e \in heard[w] : directCasts[e] > 0

\* What was never stored has left no trace.
DirectFresh ==
  \A e \in DirectEvents : directPub[e] # "stored" =>
    /\ directCasts[e] = 0
    /\ \A w \in Dispatchers : e \notin left[w] \cup heard[w]

DirectInv == DirectTypeOK /\ DirectSteady /\ DirectEarned /\ DirectFresh

-----------------------------------------------------------------------------
(* The direct outbox. *)

LEMMA DirectInitHolds ==
  ASSUME DirectInit
  PROVE  DirectInv
BY DirectFaultsAssumption DEF DirectInit, DirectInv, DirectTypeOK, DirectSteady, DirectEarned, DirectFresh

LEMMA AddressKeeps ==
  ASSUME DirectInv, NEW S \in SUBSET DirectEvents, NEW as \in {"handed", "stored", "lost"},
         Address(S, as)
  PROVE  DirectInv'
<1> USE DEF Address
<1>1. DirectTypeOK'
  BY DEF DirectInv, DirectTypeOK
<1>2. DirectSteady'
  BY DEF DirectInv, DirectTypeOK, DirectSteady, DirectFresh
<1>3. DirectEarned'
  BY DEF DirectInv, DirectTypeOK, DirectEarned
<1>4. DirectFresh'
  BY DEF DirectInv, DirectTypeOK, DirectFresh
<1> QED
  BY <1>1, <1>2, <1>3, <1>4 DEF DirectInv

LEMMA DirectClaimKeeps ==
  ASSUME DirectInv, NEW w \in Dispatchers, DirectClaim(w)
  PROVE  DirectInv'
<1>1. PICK batch \in SUBSET DirectEvents :
        /\ batch \subseteq DirectDue
        /\ left' = [left EXCEPT ![w] = batch]
        /\ directLease' = [e \in DirectEvents |-> IF e \in batch THEN "held" ELSE directLease[e]]
  BY DEF DirectClaim, DirectDue, DirectInv, DirectTypeOK
<1>2. /\ Idle(w)
      /\ UNCHANGED <<directPub, directRows, directSent, heard, directCasts, directLate, directFaults>>
  BY DEF DirectClaim
<1> USE DEF Idle, DirectDue
<1>3. DirectTypeOK'
  BY <1>1, <1>2 DEF DirectInv, DirectTypeOK
<1>4. DirectSteady'
  BY <1>1, <1>2 DEF DirectInv, DirectTypeOK, DirectSteady
<1>5. DirectEarned'
  BY <1>1, <1>2 DEF DirectInv, DirectTypeOK, DirectEarned
<1>6. DirectFresh'
  BY <1>1, <1>2 DEF DirectInv, DirectTypeOK, DirectFresh, DirectEarned
<1> QED
  BY <1>3, <1>4, <1>5, <1>6 DEF DirectInv

LEMMA DirectCastKeeps ==
  ASSUME DirectInv, NEW w \in Dispatchers, NEW e \in DirectEvents, DirectCast(w, e)
  PROVE  DirectInv'
<1> USE DEF DirectCast, IsFirst, directTable
<1>1. DirectTypeOK'
  BY DEF DirectInv, DirectTypeOK
<1>2. DirectSteady'
  BY DEF DirectInv, DirectTypeOK, DirectSteady
<1>3. DirectEarned'
  BY DEF DirectInv, DirectTypeOK, DirectEarned
<1>4. DirectFresh'
  BY DEF DirectInv, DirectTypeOK, DirectFresh
<1> QED
  BY <1>1, <1>2, <1>3, <1>4 DEF DirectInv

LEMMA DirectFailKeeps ==
  ASSUME DirectInv, NEW w \in Dispatchers, NEW e \in DirectEvents, DirectFail(w, e)
  PROVE  DirectInv'
<1> USE DEF DirectFail, IsFirst, DirectFault
<1>1. DirectTypeOK'
  BY DirectFaultsAssumption DEF DirectInv, DirectTypeOK
<1>2. DirectSteady'
  BY DEF DirectInv, DirectTypeOK, DirectSteady, DirectEarned
<1>3. DirectEarned'
  BY DEF DirectInv, DirectTypeOK, DirectEarned
<1>4. DirectFresh'
  BY DEF DirectInv, DirectTypeOK, DirectFresh
<1> QED
  BY <1>1, <1>2, <1>3, <1>4 DEF DirectInv

LEMMA DirectMarkKeeps ==
  ASSUME DirectInv, NEW w \in Dispatchers, DirectMark(w)
  PROVE  DirectInv'
<1> USE DEF DirectMark
<1>1. DirectTypeOK'
  BY DEF DirectInv, DirectTypeOK
<1>2. DirectSteady'
  BY DEF DirectInv, DirectTypeOK, DirectSteady
<1>3. DirectEarned'
  BY DEF DirectInv, DirectTypeOK, DirectEarned
<1>4. DirectFresh'
  BY DEF DirectInv, DirectTypeOK, DirectFresh
<1> QED
  BY <1>1, <1>2, <1>3, <1>4 DEF DirectInv

LEMMA DirectAbandonKeeps ==
  ASSUME DirectInv, NEW w \in Dispatchers, DirectAbandon(w)
  PROVE  DirectInv'
<1> USE DEF DirectAbandon, DirectFault, directTable
<1>1. DirectTypeOK'
  BY DirectFaultsAssumption DEF DirectInv, DirectTypeOK
<1>2. DirectSteady'
  BY DEF DirectInv, DirectTypeOK, DirectSteady
<1>3. DirectEarned'
  BY DEF DirectInv, DirectTypeOK, DirectEarned
<1>4. DirectFresh'
  BY DEF DirectInv, DirectTypeOK, DirectFresh
<1> QED
  BY <1>1, <1>2, <1>3, <1>4 DEF DirectInv

LEMMA DirectTimeKeeps ==
  ASSUME DirectInv, NEW e \in DirectEvents, DirectLeaseExpires(e) \/ DirectCleanup(e)
  PROVE  DirectInv'
<1> USE DEF DirectLeaseExpires, DirectCleanup, DirectFault
<1>1. DirectTypeOK'
  BY DirectFaultsAssumption DEF DirectInv, DirectTypeOK
<1>2. DirectSteady'
  BY DEF DirectInv, DirectTypeOK, DirectSteady
<1>3. DirectEarned'
  BY DEF DirectInv, DirectTypeOK, DirectEarned
<1>4. DirectFresh'
  BY DEF DirectInv, DirectTypeOK, DirectFresh
<1> QED
  BY <1>1, <1>2, <1>3, <1>4 DEF DirectInv

LEMMA DirectStepKeeps ==
  ASSUME DirectInv, [DirectNext]_directVars
  PROVE  DirectInv'
<1>1. CASE UNCHANGED directVars
  BY <1>1 DEF directVars, directTable, DirectInv, DirectTypeOK, DirectSteady, DirectEarned, DirectFresh
<1> QED
  BY <1>1, AddressKeeps, DirectClaimKeeps, DirectCastKeeps, DirectFailKeeps, DirectMarkKeeps,
     DirectAbandonKeeps, DirectTimeKeeps DEF DirectNext, DirectRun

THEOREM DirectInvariance == DirectSpec => []DirectInv
<1>1. DirectInit => DirectInv
  BY DirectInitHolds
<1>2. DirectInv /\ [DirectNext]_directVars => DirectInv'
  BY DirectStepKeeps
<1> QED
  BY <1>1, <1>2, PTL DEF DirectSpec

-----------------------------------------------------------------------------
\* Publication accepts what is stored; the rest the queue never knows.
LEMMA AddressRefines ==
  ASSUME DirectInv, NEW S \in SUBSET DirectEvents, NEW as \in {"handed", "stored", "lost"},
         Address(S, as)
  PROVE  [DirectPromise!Next]_(DirectPromise!vars)
<1>1. CASE as = "stored"
  <2>1. DirectPromise!Accept(S)
    BY <1>1 DEF Address, DirectPromise!Accept, DirectInv, DirectTypeOK, DirectEarned
  <2> QED
    BY <2>1 DEF DirectPromise!Next
<1>2. CASE as # "stored"
  <2>1. {e \in DirectEvents : directPub'[e] = "stored"} = {e \in DirectEvents : directPub[e] = "stored"}
    BY <1>2 DEF Address
  <2>2. UNCHANGED DirectPromise!vars
    BY <1>2, <2>1 DEF Address, DirectPromise!vars
  <2> QED
    BY <2>2
<1> QED
  BY <1>1, <1>2

\* A claim and a broadcast that throws are nobody's business.
LEMMA DirectInternal ==
  ASSUME UNCHANGED <<directPub, directRows, directSent, directCasts, directLate>>
  PROVE  UNCHANGED DirectPromise!vars
BY DEF DirectPromise!vars

LEMMA DirectRunRefines ==
  ASSUME DirectInv, NEW w \in Dispatchers, DirectRun(w) \/ DirectAbandon(w)
  PROVE  [DirectPromise!Next]_(DirectPromise!vars)
<1>1. CASE DirectClaim(w)
  BY <1>1, DirectInternal DEF DirectClaim
<1>2. CASE DirectMark(w)
  <2>1. DirectPromise!Record
    <3> DEFINE closed == heard[w] \cap (directRows \ directSent)
    <3>1. directRows' \ directSent' = ((directRows \ directSent) \ closed) \cup {}
      BY <1>2 DEF DirectMark
    <3>2. closed \in SUBSET (directRows \ directSent) /\ {} \in SUBSET (directLate \cap {e \in DirectEvents : directPub[e] = "stored"})
      OBVIOUS
    <3>3. \A i \in directSent' \ directSent : directCasts[i] > 0
      BY <1>2 DEF DirectMark, DirectInv, DirectEarned
    <3>4. directSent' \in SUBSET {e \in DirectEvents : directPub[e] = "stored"}
      BY <1>2 DEF DirectMark, DirectInv, DirectEarned
    <3> HIDE DEF closed
    <3> QED
      BY <1>2, <3>1, <3>2, <3>3, <3>4 DEF DirectMark, DirectPromise!Record
  <2> QED
    BY <2>1 DEF DirectPromise!Next
<1>3. ASSUME NEW e \in DirectEvents, DirectCast(w, e)
      PROVE  [DirectPromise!Next]_(DirectPromise!vars)
  <2>1. DirectPromise!Send(e)
    BY <1>3 DEF DirectCast, IsFirst, directTable, DirectInv, DirectSteady, DirectPromise!Send
  <2> QED
    BY <2>1 DEF DirectPromise!Next
<1>4. ASSUME NEW e \in DirectEvents, DirectFail(w, e)
      PROVE  UNCHANGED DirectPromise!vars
  BY <1>4, DirectInternal DEF DirectFail
<1>5. CASE DirectAbandon(w)
  <2>1. heard[w] \in SUBSET DirectEvents
    BY DEF DirectInv, DirectTypeOK
  <2>2. DirectPromise!Excuse(heard[w])
    BY <1>5 DEF DirectAbandon, directTable, DirectPromise!Excuse
  <2> QED
    BY <2>1, <2>2 DEF DirectPromise!Next
<1> QED
  BY <1>1, <1>2, <1>3, <1>4, <1>5 DEF DirectRun

LEMMA DirectTimeRefines ==
  ASSUME DirectInv, NEW e \in DirectEvents, DirectLeaseExpires(e) \/ DirectCleanup(e)
  PROVE  [DirectPromise!Next]_(DirectPromise!vars)
<1>1. CASE DirectLeaseExpires(e)
  <2>1. DirectPromise!Excuse({e})
    BY <1>1 DEF DirectLeaseExpires, DirectPromise!Excuse
  <2> QED
    BY <2>1 DEF DirectPromise!Next
<1>2. CASE DirectCleanup(e) /\ e \in directSent
  <2>1. directRows' \ directSent' = directRows \ directSent
    BY <1>2 DEF DirectCleanup
  <2> QED
    BY <1>2, <2>1 DEF DirectCleanup, DirectPromise!vars
<1>3. CASE DirectCleanup(e) /\ e \notin directSent
  <2>1. DirectPromise!Record
    <3>1. directRows' \ directSent' = ((directRows \ directSent) \ {e}) \cup {}
      BY <1>3 DEF DirectCleanup
    <3>2. {e} \in SUBSET (directRows \ directSent) /\ {} \in SUBSET (directLate \cap {d \in DirectEvents : directPub[d] = "stored"})
      BY <1>3 DEF DirectCleanup
    <3>3. directSent' \in SUBSET {d \in DirectEvents : directPub[d] = "stored"}
      BY <1>3 DEF DirectCleanup, DirectInv, DirectEarned
    <3> QED
      BY <1>3, <3>1, <3>2, <3>3 DEF DirectCleanup, DirectPromise!Record
  <2> QED
    BY <2>1 DEF DirectPromise!Next
<1> QED
  BY <1>1, <1>2, <1>3

\* The direct outbox, its stalled runs, failed writes and retention included,
\* does nothing the promise forbids: an event is not broadcast again without an
\* excuse, nor marked without a broadcast (outbox.ts:328-358).
THEOREM DirectRefinement == DirectSpec => ImplementsDirectQueueSafely
<1>1. DirectInit => DirectPromise!Init
  BY DEF DirectInit, DirectPromise!Init
<1>2. DirectInv /\ [DirectNext]_directVars => [DirectPromise!Next]_(DirectPromise!vars)
  <2> SUFFICES ASSUME DirectInv, [DirectNext]_directVars
               PROVE  [DirectPromise!Next]_(DirectPromise!vars)
    OBVIOUS
  <2>1. CASE UNCHANGED directVars
    BY <2>1, DirectInternal DEF directVars, directTable
  <2> QED
    BY <2>1, AddressRefines, DirectRunRefines, DirectTimeRefines DEF DirectNext
<1> QED
  BY <1>1, <1>2, DirectInvariance, PTL DEF DirectSpec, ImplementsDirectQueueSafely, DirectPromise!SafeSpec

-----------------------------------------------------------------------------
(* The email queue. *)

\* Before its insert a mail is nowhere.
MailFresh ==
  \A m \in Mails : mailStatus[m] = "none" =>
    mailGot[m] = 0 /\ mailAct[m] = "none" /\ \A a \in Senders : mailStage[a][m] = "idle"

\* A mail without an excuse is in the hands of one sender at most, which holds
\* its lease and has not sent it before it says so; a queued one was never sent.
MailSteady ==
  \A m \in Mails \ mailOdd :
    /\ mailAct[m] = "none"
    /\ mailStatus[m] = "immediate" => m \in mailLeased
    /\ mailStatus[m] = "queued" => mailGot[m] = 0
    /\ \A a \in Senders : mailStage[a][m] # "idle" =>
         /\ mailStatus[m] = "immediate"
         /\ \A b \in Senders \ {a} : mailStage[b][m] = "idle"
         /\ mailStage[a][m] \in {"send", "failed", "rejected"} => mailGot[m] = 0

\* What is about to be reported as sent, or is, was sent.
MailEarned ==
  \A m \in Mails :
    /\ mailStatus[m] = "success" => mailGot[m] > 0
    /\ \A a \in Senders : mailStage[a][m] = "sent" => mailGot[m] > 0

MailInv == MailTypeOK /\ MailFresh /\ MailSteady /\ MailEarned

LEMMA MailInitHolds ==
  ASSUME MailInit
  PROVE  MailInv
<1>1. MailTypeOK
  BY MailLimitsAssumption, MailBoundsAssumption DEF MailInit, MailTypeOK
<1> QED
  BY <1>1 DEF MailInit, MailInv, MailFresh, MailSteady, MailEarned, MailPending, MailTerminal

LEMMA QueueMailKeeps ==
  ASSUME MailInv, NEW m \in Mails, QueueMail(m) \/ SendAtOnce(m)
  PROVE  MailInv'
<1>1. PICK status \in MailPending, reached \in {"idle", "send"}, a \in Senders :
        /\ mailStatus[m] = "none" /\ mailStatus' = [mailStatus EXCEPT ![m] = status]
        /\ mailStage' = [mailStage EXCEPT ![a][m] = reached]
        /\ mailLeased' = IF status = "queued" THEN mailLeased ELSE mailLeased \cup {m}
        /\ status = "queued" => reached = "idle"
        /\ UNCHANGED <<mailRetries, mailDue, mailCopy, mailAct, mailGot, mailOdd, mailFaults, mailActs>>
  <2>1. CASE QueueMail(m)
    <3>1. "request" \in Senders
      BY DEF Senders
    <3>2. mailStage["request"][m] = "idle" /\ mailStatus[m] = "none"
      BY <2>1, <3>1 DEF QueueMail, MailInv, MailFresh
    <3>3. mailStage' = [mailStage EXCEPT !["request"][m] = "idle"]
      BY <2>1, <3>1, <3>2 DEF QueueMail, mailJob, MailInv, MailTypeOK
    <3>4. "queued" \in MailPending /\ "idle" \in {"idle", "send"}
      BY DEF MailPending
    <3> QED
      BY <2>1, <3>1, <3>3, <3>4 DEF QueueMail, mailJob
  <2>2. CASE SendAtOnce(m)
    BY <2>2 DEF SendAtOnce, MailGoto, Senders, MailPending
  <2> QED
    BY <2>1, <2>2
<1> USE DEF MailPending
<1>2. MailTypeOK'
  <2>1. mailStatus' \in [Mails -> MailPending \cup MailTerminal \cup {"none", "gone"}]
    BY <1>1 DEF MailInv, MailTypeOK
  <2>2. mailStage' \in [Senders -> [Mails -> {"idle", "send", "sent", "failed", "rejected"}]]
    BY <1>1 DEF MailInv, MailTypeOK
  <2> QED
    BY <1>1, <2>1, <2>2 DEF MailInv, MailTypeOK
<1>3. MailFresh'
  BY <1>1 DEF MailInv, MailTypeOK, MailFresh
<1>4. MailSteady'
  BY <1>1 DEF MailInv, MailTypeOK, MailFresh, MailSteady
<1>5. MailEarned'
  BY <1>1 DEF MailInv, MailTypeOK, MailEarned
<1> QED
  BY <1>2, <1>3, <1>4, <1>5 DEF MailInv

LEMMA MailClaimKeeps ==
  ASSUME MailInv, NEW s \in MailSweeps, NEW batch \in SUBSET Mails, MailClaim(s, batch)
  PROVE  MailInv'
<1> USE DEF MailClaim, MailClaimable, MailIdle
<1>0. s \in Senders /\ \A m \in batch : mailRetries[m] \in 0..(MailTries - 1)
  BY MailLimitsAssumption DEF Senders, MailInv, MailTypeOK
<1>1. MailTypeOK'
  <2>1. mailStatus' \in [Mails -> MailPending \cup MailTerminal \cup {"none", "gone"}]
    BY DEF MailInv, MailTypeOK, MailPending
  <2>2. mailStage' \in [Senders -> [Mails -> {"idle", "send", "sent", "failed", "rejected"}]]
    BY <1>0 DEF MailInv, MailTypeOK
  <2>3. [m \in Mails |-> IF m \in batch THEN mailRetries[m] ELSE 0] \in [Mails -> 0..(MailTries - 1)]
    BY <1>0, MailLimitsAssumption
  <2>4. mailCopy' \in [Senders -> [Mails -> 0..(MailTries - 1)]]
    BY <1>0, <2>3 DEF MailInv, MailTypeOK
  <2> QED
    BY <2>1, <2>2, <2>4 DEF MailInv, MailTypeOK
<1>2. MailFresh'
  BY <1>0 DEF MailInv, MailTypeOK, MailFresh
<1>3. MailSteady'
  BY <1>0 DEF MailInv, MailTypeOK, MailSteady
<1>4. MailEarned'
  BY <1>0 DEF MailInv, MailTypeOK, MailEarned
<1> QED
  BY <1>1, <1>2, <1>3, <1>4 DEF MailInv

LEMMA SendMailKeeps ==
  ASSUME MailInv, NEW a \in Senders, NEW m \in Mails, SendMail(a, m)
  PROVE  MailInv'
<1>1. PICK s \in {"sent", "failed", "rejected"} :
        /\ mailStage[a][m] = "send" /\ mailStage' = [mailStage EXCEPT ![a][m] = s]
        /\ \/ /\ mailGot' = [mailGot EXCEPT ![m] = @ + 1]
              /\ \/ s = "sent" /\ UNCHANGED <<mailOdd, mailFaults>>
                 \/ MailFault /\ mailOdd' = mailOdd \cup {m}
           \/ s # "sent" /\ UNCHANGED <<mailGot, mailOdd, mailFaults>>
        /\ UNCHANGED <<mailStatus, mailRetries, mailDue, mailLeased, mailCopy, mailAct, mailActs>>
  BY DEF SendMail, MailGoto, mailRow
<1>2. MailTypeOK'
  <2>1. mailStage' \in [Senders -> [Mails -> {"idle", "send", "sent", "failed", "rejected"}]]
    BY <1>1 DEF MailInv, MailTypeOK
  <2>2. mailGot' \in [Mails -> Nat]
    BY <1>1 DEF MailInv, MailTypeOK
  <2>3. mailFaults' \in 0..MaxMailFaults /\ mailOdd' \subseteq Mails
    BY <1>1, MailBoundsAssumption DEF MailFault, MailInv, MailTypeOK
  <2> QED
    BY <1>1, <2>1, <2>2, <2>3 DEF MailInv, MailTypeOK
<1>3. mailGot[m] \in Nat /\ mailGot' \in [Mails -> Nat]
  BY <1>2 DEF MailTypeOK, MailInv
<1>4. MailFresh'
  BY <1>1 DEF MailInv, MailTypeOK, MailFresh
<1>5. MailSteady'
  BY <1>1 DEF MailInv, MailTypeOK, MailSteady
<1>6. MailEarned'
  BY <1>1, <1>3 DEF MailInv, MailTypeOK, MailEarned
<1> QED
  BY <1>2, <1>4, <1>5, <1>6 DEF MailInv

\* Any write of an outcome the sender has earned: a queued mail was not sent by
\* the one that holds it.
LEMMA MailWriteKeeps ==
  ASSUME MailInv, NEW a \in Senders, NEW m \in Mails,
         NEW outcome \in {"success", "error", "queued"}, NEW retries \in 0..MailTries,
         mailStage[a][m] # "idle",
         outcome = "success" => mailStage[a][m] = "sent",
         outcome = "queued" => mailStage[a][m] \in {"failed", "rejected"},
         MailWrite(a, m, outcome, retries), mailDue' \subseteq Mails
  PROVE  MailInv'
<1> USE DEF MailWrite, MailGoto, Stored
<1>1. MailTypeOK'
  <2>1. mailStatus' \in [Mails -> MailPending \cup MailTerminal \cup {"none", "gone"}]
    BY DEF MailInv, MailTypeOK, MailPending, MailTerminal
  <2>2. mailRetries' \in [Mails -> 0..MailTries]
    BY DEF MailInv, MailTypeOK
  <2>3. mailStage' \in [Senders -> [Mails -> {"idle", "send", "sent", "failed", "rejected"}]]
    BY DEF MailInv, MailTypeOK
  <2>4. mailCopy' \in [Senders -> [Mails -> 0..(MailTries - 1)]]
    BY MailLimitsAssumption DEF MailInv, MailTypeOK
  <2> QED
    BY <2>1, <2>2, <2>3, <2>4 DEF MailInv, MailTypeOK
<1>2. MailFresh'
  BY DEF MailInv, MailTypeOK, MailFresh
<1>3. MailSteady'
  BY DEF MailInv, MailTypeOK, MailSteady
<1>4. MailEarned'
  BY DEF MailInv, MailTypeOK, MailEarned
<1> QED
  BY <1>1, <1>2, <1>3, <1>4 DEF MailInv

LEMMA RecordKeeps ==
  ASSUME MailInv, NEW a \in Senders, NEW m \in Mails, RecordSent(a, m) \/ RecordUnsent(a, m)
  PROVE  MailInv'
<1>1. CASE RecordSent(a, m)
  <2>1. mailRetries[m] \in 0..MailTries /\ mailDue' \subseteq Mails
    BY <1>1 DEF RecordSent, MailInv, MailTypeOK
  <2>2. mailStage[a][m] = "sent" /\ MailWrite(a, m, "success", mailRetries[m])
    BY <1>1 DEF RecordSent
  <2> QED
    BY <2>1, <2>2, MailWriteKeeps
<1>2. CASE RecordUnsent(a, m)
  <2>1. mailCopy[a][m] + 1 \in 0..MailTries /\ mailDue' \subseteq Mails
    BY <1>2, MailLimitsAssumption DEF RecordUnsent, MailInv, MailTypeOK
  <2>2. /\ mailStage[a][m] \in {"failed", "rejected"}
        /\ \E o \in {"error", "queued"} : MailWrite(a, m, o, mailCopy[a][m] + 1)
    BY <1>2 DEF RecordUnsent
  <2> QED
    BY <2>1, <2>2, MailWriteKeeps
<1> QED
  BY <1>1, <1>2

LEMMA MailFaultKeeps ==
  ASSUME MailInv, NEW a \in Senders,
         MailCrash(a) \/ \E m \in Mails : MailWriteFails(a, m)
  PROVE  MailInv'
<1>1. ASSUME NEW m \in Mails, MailWriteFails(a, m)
      PROVE  MailInv'
  <2> USE <1>1 DEF MailWriteFails, MailGoto, MailFault, mailRow
  <2>1. MailTypeOK'
    <3>1. mailStage' \in [Senders -> [Mails -> {"idle", "send", "sent", "failed", "rejected"}]]
      BY DEF MailInv, MailTypeOK
    <3>2. mailCopy' \in [Senders -> [Mails -> 0..(MailTries - 1)]]
      BY MailLimitsAssumption DEF MailInv, MailTypeOK
    <3>3. mailFaults' \in 0..MaxMailFaults
      BY MailBoundsAssumption DEF MailInv, MailTypeOK
    <3> QED
      BY <3>1, <3>2, <3>3 DEF MailInv, MailTypeOK
  <2>2. MailFresh'
    BY DEF MailInv, MailTypeOK, MailFresh
  <2>3. MailSteady'
    BY DEF MailInv, MailTypeOK, MailSteady
  <2>4. MailEarned'
    BY DEF MailInv, MailTypeOK, MailEarned
  <2> QED
    BY <2>1, <2>2, <2>3, <2>4 DEF MailInv
<1>2. CASE MailCrash(a)
  <2> USE <1>2 DEF MailCrash, MailFault, mailRow
  <2>1. MailTypeOK'
    <3>1. [m \in Mails |-> 0] \in [Mails -> 0..(MailTries - 1)]
      BY MailLimitsAssumption
    <3>2. mailFaults' \in 0..MaxMailFaults
      BY MailBoundsAssumption DEF MailInv, MailTypeOK
    <3> QED
      BY <3>1, <3>2 DEF MailInv, MailTypeOK
  <2>2. MailFresh'
    BY DEF MailInv, MailTypeOK, MailFresh
  <2>3. MailSteady'
    BY DEF MailInv, MailTypeOK, MailSteady
  <2>4. MailEarned'
    BY DEF MailInv, MailTypeOK, MailEarned
  <2> QED
    BY <2>1, <2>2, <2>3, <2>4 DEF MailInv
<1> QED
  BY <1>1, <1>2

LEMMA MailTimeKeeps ==
  ASSUME MailInv, NEW m \in Mails, MailLeaseExpires(m) \/ MailBackoffEnds(m) \/ MailCleanup(m)
  PROVE  MailInv'
<1> USE DEF MailLeaseExpires, MailBackoffEnds, MailCleanup, MailFault, mailJob
<1>1. MailTypeOK'
  BY MailBoundsAssumption DEF MailInv, MailTypeOK
<1>2. MailFresh'
  BY DEF MailInv, MailTypeOK, MailFresh
<1>3. MailSteady'
  BY DEF MailInv, MailTypeOK, MailSteady, MailTerminal
<1>4. MailEarned'
  BY DEF MailInv, MailTypeOK, MailEarned
<1> QED
  BY <1>1, <1>2, <1>3, <1>4 DEF MailInv

LEMMA MailOperatorKeeps ==
  ASSUME MailInv, NEW m \in Mails,
         MailOperatorActs(m) \/ \E act \in {"retry", "cancel"} : MailOperatorChecks(m, act)
  PROVE  MailInv'
<1>1. ASSUME NEW act \in {"retry", "cancel"}, MailOperatorChecks(m, act)
      PROVE  MailInv'
  <2> USE <1>1 DEF MailOperatorChecks, mailRow, mailJob
  <2>1. MailTypeOK'
    BY MailBoundsAssumption DEF MailInv, MailTypeOK
  <2>2. MailFresh'
    BY DEF MailInv, MailTypeOK, MailFresh, MailPending
  <2>3. MailSteady'
    BY DEF MailInv, MailTypeOK, MailSteady
  <2>4. MailEarned'
    BY DEF MailInv, MailTypeOK, MailEarned
  <2> QED
    BY <2>1, <2>2, <2>3, <2>4 DEF MailInv
<1>2. CASE MailOperatorActs(m)
  <2> USE <1>2 DEF MailOperatorActs, mailJob, Stored
  <2>1. MailTypeOK'
    <3>1. mailStatus' \in [Mails -> MailPending \cup MailTerminal \cup {"none", "gone"}]
      BY DEF MailInv, MailTypeOK, MailPending, MailTerminal
    <3>2. mailRetries' \in [Mails -> 0..MailTries]
      BY MailLimitsAssumption DEF MailInv, MailTypeOK
    <3>3. mailDue' \subseteq Mails /\ mailAct' \in [Mails -> {"none", "retry", "cancel"}]
      BY DEF MailInv, MailTypeOK
    <3> QED
      BY <3>1, <3>2, <3>3 DEF MailInv, MailTypeOK
  <2>2. MailFresh'
    BY DEF MailInv, MailTypeOK, MailFresh
  <2>3. MailSteady'
    BY DEF MailInv, MailTypeOK, MailSteady
  <2>4. MailEarned'
    BY DEF MailInv, MailTypeOK, MailEarned
  <2> QED
    BY <2>1, <2>2, <2>3, <2>4 DEF MailInv
<1> QED
  BY <1>1, <1>2

LEMMA MailStepKeeps ==
  ASSUME MailInv, [MailNext]_mailVars
  PROVE  MailInv'
<1>1. CASE UNCHANGED mailVars
  BY <1>1 DEF mailVars, mailRow, mailJob, MailInv, MailTypeOK, MailFresh, MailSteady, MailEarned
<1> QED
  BY <1>1, QueueMailKeeps, MailClaimKeeps, SendMailKeeps, RecordKeeps, MailFaultKeeps,
     MailTimeKeeps, MailOperatorKeeps DEF MailNext, MailStep

THEOREM MailInvariance == MailSpec => []MailInv
<1>1. MailInit => MailInv
  BY MailInitHolds
<1>2. MailInv /\ [MailNext]_mailVars => MailInv'
  BY MailStepKeeps
<1> QED
  BY <1>1, <1>2, PTL DEF MailSpec

-----------------------------------------------------------------------------
MailKnown == {m \in Mails : mailStatus[m] # "none"}
MailOpen == {m \in Mails : mailStatus[m] \in MailPending}
MailDone == {m \in Mails : mailStatus[m] = "success"}

\* What the promise sees of a row is its status.
LEMMA MailInternal ==
  ASSUME UNCHANGED <<mailStatus, mailGot, mailOdd>>
  PROVE  UNCHANGED MailPromise!vars
BY DEF MailPromise!vars

\* A row whose status is overwritten: closed, opened with an excuse, or the same
\* as before; and "success" only for what was sent.
LEMMA MailOutcome ==
  ASSUME MailInv, NEW m \in Mails, NEW status \in MailTerminal \cup {"queued", "gone"},
         mailStatus[m] # "none", mailStatus' = [mailStatus EXCEPT ![m] = status],
         status = "queued" => m \in mailOdd \/ mailStatus[m] \in MailPending,
         status = "success" => mailGot[m] > 0,
         UNCHANGED <<mailGot, mailOdd>>
  PROVE  MailPromise!Record
<1> USE DEF MailPending, MailTerminal
<1>1. \A n \in Mails : mailStatus'[n] = IF n = m THEN status ELSE mailStatus[n]
  BY DEF MailInv, MailTypeOK
<1>2. MailKnown' = MailKnown
  BY <1>1 DEF MailKnown
<1>3. MailDone' \in SUBSET MailKnown' /\ MailDone' \cap MailOpen' = {}
  BY DEF MailDone, MailKnown, MailOpen
<1>4. \A n \in MailDone' \ MailDone : mailGot[n] > 0
  BY <1>1 DEF MailDone
<1>5. CASE status = "queued" /\ mailStatus[m] \notin MailPending
  <2>1. /\ MailOpen' = (MailOpen \ {}) \cup {m}
        /\ {m} \in SUBSET (mailOdd \cap MailKnown) /\ {} \in SUBSET MailOpen
    BY <1>1, <1>5 DEF MailOpen, MailKnown
  <2> QED
    BY <1>2, <1>3, <1>4, <2>1 DEF MailPromise!Record, MailOpen, MailKnown, MailDone
<1>6. CASE status = "queued" /\ mailStatus[m] \in MailPending
  <2>1. MailOpen' = (MailOpen \ {}) \cup {} /\ {} \in SUBSET (mailOdd \cap MailKnown)
    BY <1>1, <1>6 DEF MailOpen
  <2> QED
    BY <1>2, <1>3, <1>4, <2>1 DEF MailPromise!Record, MailOpen, MailKnown, MailDone
<1>7. CASE status # "queued"
  <2> DEFINE closed == MailOpen \cap {m}
  <2>1. /\ MailOpen' = (MailOpen \ closed) \cup {}
        /\ {} \in SUBSET (mailOdd \cap MailKnown) /\ closed \in SUBSET MailOpen
    BY <1>1, <1>7 DEF MailOpen
  <2> HIDE DEF closed
  <2> QED
    BY <1>2, <1>3, <1>4, <2>1 DEF MailPromise!Record, MailOpen, MailKnown, MailDone
<1> QED
  BY <1>5, <1>6, <1>7

LEMMA QueueMailRefines ==
  ASSUME MailInv, NEW m \in Mails, QueueMail(m) \/ SendAtOnce(m)
  PROVE  MailPromise!Accept({m})
<1>1. PICK status \in MailPending :
        /\ mailStatus[m] = "none" /\ mailStatus' = [mailStatus EXCEPT ![m] = status]
        /\ UNCHANGED <<mailGot, mailOdd>>
  BY DEF QueueMail, SendAtOnce, MailPending
<1>2. \A n \in Mails : mailStatus'[n] = IF n = m THEN status ELSE mailStatus[n]
  BY <1>1 DEF MailInv, MailTypeOK
<1>3. /\ {m} \cap MailKnown = {} /\ MailKnown' = MailKnown \cup {m}
      /\ MailOpen' = MailOpen \cup {m} /\ MailDone' = MailDone
  BY <1>1, <1>2 DEF MailKnown, MailOpen, MailDone, MailPending
<1> QED
  BY <1>1, <1>3 DEF MailPromise!Accept, MailKnown, MailOpen, MailDone

LEMMA SendMailRefines ==
  ASSUME MailInv, NEW a \in Senders, NEW m \in Mails, SendMail(a, m)
  PROVE  [MailPromise!Next]_(MailPromise!vars)
<1>1. mailStage[a][m] = "send" /\ UNCHANGED mailStatus
  BY DEF SendMail, mailRow
<1>2. m \in mailOdd \/ (mailStatus[m] \in MailPending /\ mailGot[m] = 0)
  BY <1>1 DEF MailInv, MailSteady, MailPending
<1>3. CASE mailGot' = [mailGot EXCEPT ![m] = @ + 1]
  <2>1. mailOdd' \in {mailOdd, mailOdd \cup {m}}
    BY <1>3, <1>1 DEF SendMail, MailInv, MailTypeOK
  <2>2. MailPromise!Send(m)
    BY <1>1, <1>2, <1>3, <2>1 DEF MailPromise!Send
  <2> QED
    BY <2>2 DEF MailPromise!Next
<1>4. CASE UNCHANGED <<mailGot, mailOdd>>
  BY <1>1, <1>4, MailInternal
<1> QED
  BY <1>3, <1>4 DEF SendMail

\* The unconditional writes of stale senders, also to a row that is gone.
LEMMA RecordRefines ==
  ASSUME MailInv, NEW a \in Senders, NEW m \in Mails, RecordSent(a, m) \/ RecordUnsent(a, m)
  PROVE  [MailPromise!Next]_(MailPromise!vars)
<1>1. PICK outcome, retries :
        /\ outcome \in {"success", "error", "queued"}
        /\ MailWrite(a, m, outcome, retries)
        /\ mailStage[a][m] # "idle"
        /\ outcome = "success" => mailStage[a][m] = "sent"
  <2>1. CASE RecordSent(a, m)
    BY <2>1 DEF RecordSent
  <2>2. CASE RecordUnsent(a, m)
    BY <2>2 DEF RecordUnsent
  <2> QED
    BY <2>1, <2>2
<1>2. UNCHANGED <<mailGot, mailOdd>>
  BY <1>1 DEF MailWrite
<1>3. CASE Stored(m)
  <2>1. mailStatus[m] # "none" /\ mailStatus' = [mailStatus EXCEPT ![m] = outcome]
    BY <1>1, <1>3 DEF MailWrite, Stored
  <2>2. outcome = "success" => mailGot[m] > 0
    BY <1>1 DEF MailInv, MailEarned
  <2>3. m \in mailOdd \/ mailStatus[m] \in MailPending
    BY <1>1 DEF MailInv, MailSteady, MailPending
  <2>4. outcome \in MailTerminal \cup {"queued", "gone"}
    BY <1>1 DEF MailTerminal
  <2>5. MailPromise!Record
    BY <1>2, <2>1, <2>2, <2>3, <2>4, MailOutcome
  <2> QED
    BY <2>5 DEF MailPromise!Next
<1>4. CASE ~Stored(m)
  BY <1>1, <1>2, <1>4, MailInternal DEF MailWrite
<1> QED
  BY <1>3, <1>4

LEMMA MailClaimRefines ==
  ASSUME MailInv, NEW s \in MailSweeps, NEW batch \in SUBSET Mails, MailClaim(s, batch)
  PROVE  UNCHANGED MailPromise!vars
<1>1. \A m \in Mails :
        /\ m \in batch => mailStatus'[m] = "immediate" /\ mailStatus[m] \in {"queued", "immediate"}
        /\ m \notin batch => mailStatus'[m] = mailStatus[m]
  BY DEF MailClaim, MailClaimable
<1>2. MailKnown' = MailKnown /\ MailOpen' = MailOpen /\ MailDone' = MailDone
  BY <1>1 DEF MailKnown, MailOpen, MailDone, MailPending
<1> QED
  BY <1>2 DEF MailClaim, MailPromise!vars, MailKnown, MailOpen, MailDone

\* Failures, time and retention.
LEMMA MailWorldRefines ==
  ASSUME MailInv, NEW m \in Mails,
         \/ MailLeaseExpires(m) \/ MailBackoffEnds(m) \/ MailCleanup(m)
         \/ \E a \in Senders : MailWriteFails(a, m)
  PROVE  [MailPromise!Next]_(MailPromise!vars)
<1>1. CASE MailLeaseExpires(m) \/ \E a \in Senders : MailWriteFails(a, m)
  <2>1. UNCHANGED <<mailStatus, mailGot>> /\ mailOdd' = mailOdd \cup {m}
    BY <1>1 DEF MailLeaseExpires, MailWriteFails, mailRow
  <2>2. MailPromise!Excuse({m})
    BY <2>1 DEF MailPromise!Excuse
  <2> QED
    BY <2>2 DEF MailPromise!Next
<1>2. CASE MailBackoffEnds(m)
  BY <1>2, MailInternal DEF MailBackoffEnds
<1>3. CASE MailCleanup(m)
  <2>1. /\ mailStatus[m] # "none" /\ mailStatus' = [mailStatus EXCEPT ![m] = "gone"]
        /\ UNCHANGED <<mailGot, mailOdd>>
    BY <1>3 DEF MailCleanup, MailTerminal
  <2>2. MailPromise!Record
    BY <2>1, MailOutcome
  <2> QED
    BY <2>2 DEF MailPromise!Next
<1> QED
  BY <1>1, <1>2, <1>3

\* The check of an operator is the excuse for the act, however late it comes.
LEMMA MailOperatorRefines ==
  ASSUME MailInv, NEW m \in Mails,
         MailOperatorActs(m) \/ \E act \in {"retry", "cancel"} : MailOperatorChecks(m, act)
  PROVE  [MailPromise!Next]_(MailPromise!vars)
<1>1. ASSUME NEW act \in {"retry", "cancel"}, MailOperatorChecks(m, act)
      PROVE  MailPromise!Next
  <2>1. MailPromise!Excuse({m})
    BY <1>1 DEF MailOperatorChecks, mailRow, MailPromise!Excuse
  <2> QED
    BY <2>1 DEF MailPromise!Next
<1>2. CASE MailOperatorActs(m)
  <2>1. mailAct[m] # "none" /\ UNCHANGED <<mailGot, mailOdd>>
    BY <1>2 DEF MailOperatorActs
  <2>2. CASE Stored(m)
    <3>1. PICK status \in {"queued", "error"} :
            mailStatus[m] # "none" /\ mailStatus' = [mailStatus EXCEPT ![m] = status]
      BY <1>2, <2>2 DEF MailOperatorActs, Stored
    <3>2. m \in mailOdd
      BY <2>1 DEF MailInv, MailSteady
    <3>3. MailPromise!Record
      BY <2>1, <3>1, <3>2, MailOutcome DEF MailTerminal
    <3> QED
      BY <3>3 DEF MailPromise!Next
  <2>3. CASE ~Stored(m)
    BY <1>2, <2>1, <2>3, MailInternal DEF MailOperatorActs
  <2> QED
    BY <2>2, <2>3
<1> QED
  BY <1>1, <1>2

\* The email queue, whichever stale copy writes last, does nothing the promise
\* forbids: no mail goes out twice without an excuse, and none says "success"
\* that was not sent (email-queue.ts:60-88).
THEOREM MailRefinement == MailSpec => ImplementsMailQueueSafely
<1>1. MailInit => MailPromise!Init
  BY DEF MailInit, MailPromise!Init, MailPending
<1>2. MailInv /\ [MailNext]_mailVars => [MailPromise!Next]_(MailPromise!vars)
  <2> SUFFICES ASSUME MailInv, [MailNext]_mailVars
               PROVE  [MailPromise!Next]_(MailPromise!vars)
    OBVIOUS
  <2>1. CASE UNCHANGED mailVars
    BY <2>1, MailInternal DEF mailVars, mailRow
  <2>2. ASSUME NEW m \in Mails, QueueMail(m) \/ SendAtOnce(m)
        PROVE  MailPromise!Next
    BY <2>2, QueueMailRefines DEF MailPromise!Next
  <2>3. ASSUME NEW a \in Senders, MailCrash(a)
        PROVE  UNCHANGED MailPromise!vars
    BY <2>3, MailInternal DEF MailCrash, mailRow
  <2>4. ASSUME NEW m \in Mails, NEW a \in Senders, MailStep(a, m)
        PROVE  [MailPromise!Next]_(MailPromise!vars)
    BY <2>4, SendMailRefines, RecordRefines DEF MailStep
  <2> QED
    BY <2>1, <2>2, <2>3, <2>4, MailClaimRefines, MailWorldRefines, MailOperatorRefines DEF MailNext
<1> QED
  BY <1>1, <1>2, MailInvariance, PTL DEF MailSpec, ImplementsMailQueueSafely, MailPromise!SafeSpec

-----------------------------------------------------------------------------
(* The push queue. *)

\* A row keeps to its channel, an agent to the targets of its copy.
PushChannels ==
  /\ \A p \in Personal : pushTargets[p] = {} /\ \A a \in PushAgents : pushTargetsCopy[a][p] = {}
  /\ \A p \in Pushes : pushTargetsCopy["request"][p] = {}
  /\ \A a \in PushAgents, p \in Pushes :
       /\ job[a][p][Own] \in {"none", "send", "ok", "threw"}
       /\ \A d \in Destinations :
            /\ pushStage[a][p] \in {"idle", "load"} => job[a][p][d] = "none"
            /\ job[a][p][d] # "none" => d \in Aims(a, p)

\* Of the devices that were never withdrawn, those a row does not aim at any
\* more got the push, and so did all of them once it says "success".
PushCovered ==
  /\ \A d \in Destinations \ withdrawn : device[d] = "enabled"
  /\ \A p \in Pushes : pushStatus[p] = "success" =>
       \A d \in Reaches(p) \ withdrawn : pushGot[p][d] > 0
  /\ \A p \in Pushes : pushTargets[p] # {} =>
       \A d \in Devices \ withdrawn : d \in pushTargets[p] \/ pushGot[p][d] > 0
  /\ \A a \in PushAgents, p \in Pushes : pushTargetsCopy[a][p] # {} =>
       \A d \in Devices \ withdrawn : d \in pushTargetsCopy[a][p] \/ pushGot[p][d] > 0
  /\ \A a \in PushAgents, p \in Pushes : pushStage[a][p] = "send" =>
       \A d \in Destinations :
         /\ job[a][p][d] \in {"ok", "clear"} => pushGot[p][d] > 0
         /\ job[a][p][d] = "disabled" => d \in withdrawn
         /\ d \in Aims(a, p) \ withdrawn => job[a][p][d] # "none"

\* Before its insert a push is nowhere.
PushFresh ==
  \A p \in Pushes : pushStatus[p] = "none" =>
    /\ pushTargets[p] = {} /\ pushAct[p] = "none"
    /\ \A a \in PushAgents : pushStage[a][p] = "idle"
    /\ \A d \in Destinations : pushGot[p][d] = 0

\* A row that has not been disturbed as a whole is in the hands of one agent at
\* most, which holds its lease and has a true copy of its targets.
PushSteady ==
  \A p \in Pushes : (\E d \in Destinations : <<p, d>> \notin pushOdd) =>
    /\ pushAct[p] = "none"
    /\ pushStatus[p] = "immediate" => p \in pushLeased
    /\ \A a \in PushAgents : pushStage[a][p] # "idle" =>
         /\ pushStatus[p] = "immediate" /\ pushTargetsCopy[a][p] = pushTargets[p]
         /\ \A b \in PushAgents \ {a} : pushStage[b][p] = "idle"
         /\ \A d \in Devices : pushStage[a][p] = "send" => job[a][p][d] # "threw"

\* What a queued row or an agent still aims at, without an excuse, was not sent.
PushUnsent ==
  \A p \in Pushes, d \in Destinations : <<p, d>> \notin pushOdd =>
    /\ /\ pushStatus[p] = "queued" /\ d \in Reaches(p)
       /\ pushTargets[p] = {} \/ d \in pushTargets[p]
       => pushGot[p][d] = 0
    /\ \A a \in PushAgents :
         /\ pushStage[a][p] \in {"load", "caught"} /\ d \in Aims(a, p) => pushGot[p][d] = 0
         /\ pushStage[a][p] = "send" /\ job[a][p][d] \notin {"none", "ok", "clear"}
            => pushGot[p][d] = 0

PushInv ==
  PushTypeOK /\ PushChannels /\ PushCovered /\ PushFresh /\ PushSteady /\ PushUnsent

-----------------------------------------------------------------------------
LEMMA PushInitHolds ==
  ASSUME PushInit
  PROVE  PushInv
<1>1. PushTypeOK
  BY PushLimitsAssumption, PushBoundsAssumption
  DEF PushInit, PushTypeOK, NoJobs, Settled
<1>2. PushChannels
  BY PushesAssumption DEF PushInit, PushChannels, NoJobs, PushAgents, Destinations
<1>3. PushCovered
  BY DEF PushInit, PushCovered
<1>4. PushFresh /\ PushSteady /\ PushUnsent
  BY DEF PushInit, PushFresh, PushSteady, PushUnsent
<1> QED
  BY <1>1, <1>2, <1>3, <1>4 DEF PushInv

LEMMA QueuePushKeeps ==
  ASSUME PushInv, NEW p \in Pushes, QueuePush(p)
  PROVE  PushInv'
<1> USE DEF QueuePush, pushWorld, pushJob, pushCopy, pushHistory, operator
<1>1. PushTypeOK'
  BY DEF PushInv, PushTypeOK, PushPending
<1>2. PushChannels'
  BY DEF PushInv, PushChannels, Aims
<1>3. PushCovered'
  BY DEF PushInv, PushTypeOK, PushCovered, Aims
<1>4. PushFresh'
  BY DEF PushInv, PushTypeOK, PushFresh
<1>5. PushSteady'
  <2>1. \A q \in Pushes : pushStatus'[q] = IF q = p THEN "queued" ELSE pushStatus[q]
    BY DEF PushInv, PushTypeOK
  <2>2. \A a \in PushAgents : pushStage[a][p] = "idle"
    BY DEF PushInv, PushFresh
  <2>3. pushAct[p] = "none"
    BY DEF PushInv, PushFresh
  <2> QED
    BY <2>1, <2>2, <2>3 DEF PushInv, PushSteady
<1>6. PushUnsent'
  BY DEF PushInv, PushTypeOK, PushFresh, PushUnsent, Aims
<1> QED
  BY <1>1, <1>2, <1>3, <1>4, <1>5, <1>6 DEF PushInv

LEMMA SendPushTestKeeps ==
  ASSUME PushInv, NEW p \in Pushes, SendPushTest(p)
  PROVE  PushInv'
<1> USE DEF SendPushTest, pushWorld, pushCopy, pushHistory, operator
<1>0. "request" \in PushAgents
  BY DEF PushAgents
<1>a. pushStage' \in [PushAgents -> [Pushes -> {"idle", "load", "send", "caught"}]]
  BY <1>0 DEF PushInv, PushTypeOK
<1>b. \A a \in PushAgents, q \in Pushes :
        pushStage'[a][q] = IF a = "request" /\ q = p THEN "load" ELSE pushStage[a][q]
  BY <1>0 DEF PushInv, PushTypeOK
<1>c. \A q \in Pushes : pushStatus'[q] = IF q = p THEN "immediate" ELSE pushStatus[q]
  BY DEF PushInv, PushTypeOK
<1>1. PushTypeOK'
  BY <1>a DEF PushInv, PushTypeOK, PushPending
<1>2. PushChannels'
  BY <1>0, <1>b DEF PushInv, PushChannels, PushFresh, Aims
<1>3. PushCovered'
  BY <1>0, <1>b, <1>c DEF PushInv, PushCovered, Aims
<1>4. PushFresh'
  BY <1>0, <1>b, <1>c DEF PushInv, PushFresh
<1>5. PushSteady'
  <2>1. \A a \in PushAgents : pushStage[a][p] = "idle"
    BY DEF PushInv, PushFresh
  <2>2. pushAct[p] = "none" /\ pushTargetsCopy["request"][p] = pushTargets[p]
    BY DEF PushInv, PushFresh, PushChannels
  <2> QED
    BY <1>0, <1>b, <1>c, <2>1, <2>2 DEF PushInv, PushSteady
<1>6. PushUnsent'
  BY <1>0, <1>b, <1>c DEF PushInv, PushFresh, PushUnsent, Aims
<1> QED
  BY <1>1, <1>2, <1>3, <1>4, <1>5, <1>6 DEF PushInv

LEMMA PushClaimKeeps ==
  ASSUME PushInv, NEW s \in PushSweeps, NEW batch \in SUBSET Pushes, PushClaim(s, batch)
  PROVE  PushInv'
<1> USE DEF PushClaim, pushWorld, pushHistory, operator
<1>0. s \in PushAgents /\ s # "request"
  BY PushSweepsAssumption DEF PushAgents
<1>a. \A p \in batch : /\ pushRetries[p] < PushTries
                       /\ \/ pushStatus[p] = "queued"
                          \/ pushStatus[p] = "immediate" /\ p \notin pushLeased
  BY DEF PushClaimable
<1>b. \A p \in Pushes : pushStage[s][p] = "idle"
  BY DEF PushIdle
<1>c. \A a \in PushAgents, p \in Pushes :
        /\ pushStage'[a][p] = IF a = s THEN IF p \in batch THEN "load" ELSE "idle" ELSE pushStage[a][p]
        /\ pushTargetsCopy'[a][p] = IF a = s THEN IF p \in batch THEN pushTargets[p] ELSE {}
                                    ELSE pushTargetsCopy[a][p]
  BY <1>0 DEF PushInv, PushTypeOK
<1>d. \A p \in Pushes : pushStatus'[p] = IF p \in batch THEN "immediate" ELSE pushStatus[p]
  OBVIOUS
<1>1. PushTypeOK'
  <2>1. pushStatus' \in [Pushes -> PushPending \cup PushTerminal \cup {"none", "gone"}]
    BY DEF PushInv, PushTypeOK, PushPending
  <2>2. pushStage' \in [PushAgents -> [Pushes -> {"idle", "load", "send", "caught"}]]
    BY <1>0 DEF PushInv, PushTypeOK
  <2>3. [p \in Pushes |-> IF p \in batch THEN pushRetries[p] ELSE 0] \in [Pushes -> 0..(PushTries - 1)]
    BY <1>a, PushLimitsAssumption DEF PushInv, PushTypeOK
  <2>4. pushRetriesCopy' \in [PushAgents -> [Pushes -> 0..(PushTries - 1)]]
    BY <1>0, <2>3 DEF PushInv, PushTypeOK
  <2>5. pushTargetsCopy' \in [PushAgents -> [Pushes -> SUBSET Devices]]
    BY <1>0 DEF PushInv, PushTypeOK
  <2> QED
    BY <2>1, <2>2, <2>4, <2>5 DEF PushInv, PushTypeOK
<1>2. PushChannels'
  BY <1>0, <1>b, <1>c, PushesAssumption DEF PushInv, PushChannels, Aims
<1>3. PushCovered'
  BY <1>0, <1>b, <1>c, <1>d DEF PushInv, PushCovered, Aims
<1>4. PushFresh'
  BY <1>0, <1>a, <1>c, <1>d DEF PushInv, PushFresh
<1>5. PushSteady'
  BY <1>0, <1>a, <1>b, <1>c, <1>d DEF PushInv, PushSteady
<1>6. PushUnsent'
  <2> SUFFICES ASSUME NEW p \in Pushes, NEW d \in Destinations, <<p, d>> \notin pushOdd
               PROVE  /\ /\ pushStatus'[p] = "queued" /\ d \in Reaches(p)
                         /\ pushTargets[p] = {} \/ d \in pushTargets[p]
                         => pushGot[p][d] = 0
                      /\ \A a \in PushAgents :
                           /\ pushStage'[a][p] \in {"load", "caught"} /\ d \in Aims(a, p)'
                              => pushGot[p][d] = 0
                           /\ pushStage'[a][p] = "send" /\ job[a][p][d] \notin {"none", "ok", "clear"}
                              => pushGot[p][d] = 0
    BY DEF PushUnsent
  <2>1. CASE p \in batch
    <3>1. pushStatus[p] = "queued"
      BY <1>a, <2>1 DEF PushInv, PushSteady
    <3>2. \A a \in PushAgents : pushStage[a][p] = "idle"
      BY <3>1 DEF PushInv, PushSteady
    <3>3. d \in Aims(s, p)' => d \in Reaches(p) /\ (pushTargets[p] = {} \/ d \in pushTargets[p])
      BY <1>0, <1>c, <2>1 DEF PushInv, PushTypeOK, PushChannels, Aims, Reaches
    <3> QED
      BY <1>0, <1>c, <1>d, <2>1, <3>1, <3>2, <3>3 DEF PushInv, PushUnsent
  <2>2. CASE p \notin batch
    <3>1. \A a \in PushAgents \ {s} : Aims(a, p)' = Aims(a, p) /\ pushStage'[a][p] = pushStage[a][p]
      BY <1>c DEF Aims
    <3>2. pushStage'[s][p] = "idle"
      BY <1>0, <1>c, <2>2
    <3> QED
      BY <1>d, <2>2, <3>1, <3>2 DEF PushInv, PushUnsent
  <2> QED
    BY <2>1, <2>2
<1> QED
  BY <1>1, <1>2, <1>3, <1>4, <1>5, <1>6 DEF PushInv

LEMMA PushLoadKeeps ==
  ASSUME PushInv, NEW a \in PushAgents, NEW p \in Pushes, PushLoad(a, p)
  PROVE  PushInv'
<1>1. /\ pushStage[a][p] = "load"
      /\ UNCHANGED <<pushStatus, pushRetries, pushTargets, pushLeased, device, troubled, withdrawn,
                     pushRetriesCopy, pushTargetsCopy, delivered, pushGot, pushOdd, pushFaults,
                     pushAct, pushActs>>
  BY DEF PushLoad, pushRow, pushWorld, pushCopy, operator
<1>2. PICK reached \in {"send", "caught"}, ignored \in SUBSET Destinations :
        LET chosen == {d \in Aims(a, p) : device[d] = "enabled" \/ d \in ignored} IN
        /\ pushStage' = [pushStage EXCEPT ![a][p] = reached]
        /\ reached = "caught" => UNCHANGED <<job, owed>>
        /\ reached = "send" =>
             /\ job' = [job EXCEPT ![a][p] = [d \in Destinations |->
                          IF d \notin chosen THEN "none" ELSE IF d \in troubled THEN "resend" ELSE "send"]]
             /\ owed' = IF pushTargetsCopy[a][p] = {} THEN [owed EXCEPT ![p] = @ \cup chosen] ELSE owed
  <2>1. \A I \in (IF a = "request" THEN SUBSET ({Own} \cap Reaches(p)) ELSE {{}}) :
          I \in SUBSET Destinations
    BY DEF Destinations
  <2>2. {} \in SUBSET Destinations
    OBVIOUS
  <2>3. CASE pushStage' = [pushStage EXCEPT ![a][p] = "caught"] /\ UNCHANGED <<job, owed>>
    BY <2>2, <2>3
  <2>4. CASE pushStage' = [pushStage EXCEPT ![a][p] = "send"]
    BY <2>1, <2>4 DEF PushLoad
  <2> QED
    BY <2>3, <2>4 DEF PushLoad
<1> DEFINE chosen == {d \in Aims(a, p) : device[d] = "enabled" \/ d \in ignored}
<1>3. Aims(a, p) \subseteq Destinations
  BY DEF PushInv, PushTypeOK, Aims, Reaches, Destinations
<1>4. /\ chosen \subseteq Aims(a, p) /\ Aims(a, p) \ withdrawn \subseteq chosen
      /\ reached = "send" =>
           /\ job' = [job EXCEPT ![a][p] = [d \in Destinations |->
                        IF d \notin chosen THEN "none" ELSE IF d \in troubled THEN "resend" ELSE "send"]]
           /\ owed' = IF pushTargetsCopy[a][p] = {} THEN [owed EXCEPT ![p] = @ \cup chosen] ELSE owed
  BY <1>2, <1>3 DEF PushInv, PushCovered
<1> HIDE DEF chosen
<1>5. \A b \in PushAgents, q \in Pushes :
        /\ pushStage'[b][q] = IF b = a /\ q = p THEN reached ELSE pushStage[b][q]
        /\ \A d \in Destinations : job'[b][q][d] =
             IF b = a /\ q = p /\ reached = "send"
             THEN IF d \notin chosen THEN "none" ELSE IF d \in troubled THEN "resend" ELSE "send"
             ELSE job[b][q][d]
  BY <1>2, <1>4 DEF PushInv, PushTypeOK
<1>6. \A b \in PushAgents, q \in Pushes : Aims(b, q)' = Aims(b, q)
  BY <1>1 DEF Aims
<1>7. PushTypeOK'
  <2>1. pushStage' \in [PushAgents -> [Pushes -> {"idle", "load", "send", "caught"}]]
    BY <1>2 DEF PushInv, PushTypeOK
  <2>2. job' \in [PushAgents -> [Pushes -> [Destinations -> Settled \cup InFlight]]]
    <3> DEFINE jobs == [d \in Destinations |-> IF d \notin chosen THEN "none"
                                               ELSE IF d \in troubled THEN "resend" ELSE "send"]
    <3>1. jobs \in [Destinations -> Settled \cup InFlight]
      BY DEF Settled, InFlight
    <3>2. CASE reached = "send"
      <4>1. job' = [job EXCEPT ![a][p] = jobs]
        BY <1>4, <3>2
      <4> HIDE DEF jobs
      <4> QED
        BY <3>1, <4>1 DEF PushInv, PushTypeOK
    <3>3. CASE reached = "caught"
      BY <1>2, <3>3 DEF PushInv, PushTypeOK
    <3> QED
      BY <3>2, <3>3
  <2>3. owed' \in [Pushes -> SUBSET Destinations]
    <3>1. chosen \subseteq Destinations /\ owed \in [Pushes -> SUBSET Destinations]
      BY <1>3, <1>4 DEF PushInv, PushTypeOK
    <3>2. CASE owed' = owed
      BY <3>1, <3>2
    <3>3. CASE owed' = [owed EXCEPT ![p] = @ \cup chosen]
      BY <3>1, <3>3
    <3> QED
      BY <1>2, <1>4, <3>2, <3>3
  <2> QED
    BY <1>1, <2>1, <2>2, <2>3 DEF PushInv, PushTypeOK
<1>8. PushChannels'
  <2>1. Own \in Destinations /\ Own \notin troubled
    BY PushesAssumption DEF PushInv, PushTypeOK, Destinations
  <2>2. job'[a][p][Own] \in {"none", "send"} \/ job'[a][p][Own] = job[a][p][Own]
    BY <1>5, <2>1
  <2>3. \A d \in Destinations :
          /\ pushStage'[a][p] \notin {"idle", "load"}
          /\ job'[a][p][d] # "none" => d \in Aims(a, p)
    BY <1>1, <1>4, <1>5 DEF PushInv, PushChannels
  <2> QED
    BY <1>1, <1>5, <1>6, <2>1, <2>2, <2>3 DEF PushInv, PushChannels
<1>9. PushCovered'
  BY <1>1, <1>2, <1>4, <1>5, <1>6 DEF PushInv, PushCovered
<1>10. PushFresh'
  BY <1>1, <1>5 DEF PushInv, PushFresh
<1>11. PushSteady'
  BY <1>1, <1>2, <1>5, PushesAssumption DEF PushInv, PushSteady, Destinations
<1>12. PushUnsent'
  <2>1. \A d \in Destinations : <<p, d>> \notin pushOdd /\ d \in Aims(a, p) => pushGot[p][d] = 0
    BY <1>1 DEF PushInv, PushUnsent
  <2>2. \A d \in Destinations : reached = "send" /\ job'[a][p][d] # "none" => d \in Aims(a, p)
    BY <1>4, <1>5
  <2> QED
    BY <1>1, <1>5, <1>6, <2>1, <2>2 DEF PushInv, PushUnsent
<1> QED
  BY <1>7, <1>8, <1>9, <1>10, <1>11, <1>12 DEF PushInv

\* One send moves on: whatever it counts as delivered was sent, whatever it may
\* retry was not, unless there is an excuse.
LEMMA JobStepKeeps ==
  ASSUME PushInv, NEW a \in PushAgents, NEW p \in Pushes, NEW d \in Destinations,
         NEW k \in (Settled \cup InFlight) \ {"none"},
         pushStage[a][p] = "send", job[a][p][d] # "none",
         job' = [job EXCEPT ![a][p][d] = k],
         pushGot' = pushGot \/ pushGot' = [pushGot EXCEPT ![p][d] = @ + 1],
         pushOdd \subseteq pushOdd', pushOdd' \subseteq Pushes \X Destinations,
         withdrawn \subseteq withdrawn', withdrawn' \subseteq Destinations,
         device' \in [Destinations -> {"enabled", "disabled", "deleted"}],
         \A e \in Destinations \ withdrawn' : device'[e] = "enabled",
         troubled' \subseteq Devices, pushFaults' \in 0..MaxPushFaults,
         delivered' \in [PushAgents -> [Pushes -> SUBSET Destinations]],
         k \in {"ok", "clear"} => pushGot'[p][d] > 0,
         k = "disabled" => d \in withdrawn',
         d = Own => k \in {"ok", "threw"},
         k = "threw" /\ d \in Devices => \A e \in Destinations : <<p, e>> \in pushOdd',
         k \notin {"ok", "clear"} /\ <<p, d>> \notin pushOdd' => pushGot'[p][d] = 0,
         UNCHANGED <<pushRow, pushStage, pushCopy, owed, operator>>
  PROVE  PushInv'
<1> USE DEF pushRow, pushCopy, operator
<1>1. \A b \in PushAgents, q \in Pushes : Aims(b, q)' = Aims(b, q)
  BY DEF Aims
<1>2. \A b \in PushAgents, q \in Pushes, e \in Destinations :
        job'[b][q][e] = IF b = a /\ q = p /\ e = d THEN k ELSE job[b][q][e]
  BY DEF PushInv, PushTypeOK
<1>3. /\ pushGot \in [Pushes -> [Destinations -> Nat]]
      /\ pushGot' \in [Pushes -> [Destinations -> Nat]]
  <2>1. pushGot \in [Pushes -> [Destinations -> Nat]]
    BY DEF PushInv, PushTypeOK
  <2>2. CASE pushGot' = pushGot
    BY <2>1, <2>2
  <2>3. CASE pushGot' = [pushGot EXCEPT ![p][d] = @ + 1]
    <3>1. [pushGot[p] EXCEPT ![d] = @ + 1] \in [Destinations -> Nat]
      BY <2>1
    <3>2. pushGot' = [pushGot EXCEPT ![p] = [pushGot[p] EXCEPT ![d] = @ + 1]]
      BY <2>1, <2>3
    <3> QED
      BY <2>1, <3>1, <3>2
  <2> QED
    BY <2>2, <2>3
<1>4. \A q \in Pushes, e \in Destinations :
        /\ pushGot'[q][e] >= pushGot[q][e]
        /\ q # p \/ e # d => pushGot'[q][e] = pushGot[q][e]
  BY <1>3
<1>5. PushTypeOK'
  <2>1. job' \in [PushAgents -> [Pushes -> [Destinations -> Settled \cup InFlight]]]
    BY DEF PushInv, PushTypeOK
  <2> QED
    BY <1>3, <2>1 DEF PushInv, PushTypeOK
<1>6. PushChannels'
  <2>1. Own \in Destinations
    BY DEF Destinations
  <2> QED
    BY <1>1, <1>2, <2>1 DEF PushInv, PushChannels
<1>7. PushCovered'
  <2>1. \A q \in Pushes, e \in Destinations : pushGot[q][e] > 0 => pushGot'[q][e] > 0
    BY <1>3, <1>4
  <2>2. \A q \in Pushes : Reaches(q) \subseteq Destinations /\ Devices \subseteq Destinations
    BY DEF Reaches, Destinations
  <2>3. \A q \in Pushes : pushStatus[q] = "success" =>
          \A e \in Reaches(q) \ withdrawn' : pushGot'[q][e] > 0
    BY <2>1, <2>2 DEF PushInv, PushCovered
  <2>4. \A q \in Pushes : pushTargets[q] # {} =>
          \A e \in Devices \ withdrawn' : e \in pushTargets[q] \/ pushGot'[q][e] > 0
    BY <2>1, <2>2 DEF PushInv, PushCovered
  <2>5. \A b \in PushAgents, q \in Pushes : pushTargetsCopy[b][q] # {} =>
          \A e \in Devices \ withdrawn' : e \in pushTargetsCopy[b][q] \/ pushGot'[q][e] > 0
    BY <2>1, <2>2 DEF PushInv, PushCovered
  <2>6. ASSUME NEW b \in PushAgents, NEW q \in Pushes, pushStage[b][q] = "send", NEW e \in Destinations
        PROVE  /\ job'[b][q][e] \in {"ok", "clear"} => pushGot'[q][e] > 0
               /\ job'[b][q][e] = "disabled" => e \in withdrawn'
               /\ e \in Aims(b, q)' \ withdrawn' => job'[b][q][e] # "none"
    BY <1>1, <1>2, <2>1, <2>6 DEF PushInv, PushCovered
  <2> QED
    BY <2>3, <2>4, <2>5, <2>6 DEF PushCovered, Reaches
<1>8. PushFresh'
  BY <1>4 DEF PushInv, PushFresh
<1>9. PushSteady'
  <2>1. UNCHANGED <<pushStatus, pushTargets, pushLeased, pushStage, pushTargetsCopy, pushAct>>
    OBVIOUS
  <2> SUFFICES ASSUME NEW q \in Pushes, NEW x \in Destinations, <<q, x>> \notin pushOdd'
               PROVE  /\ pushAct[q] = "none"
                      /\ pushStatus[q] = "immediate" => q \in pushLeased
                      /\ \A b \in PushAgents : pushStage[b][q] # "idle" =>
                           /\ pushStatus[q] = "immediate" /\ pushTargetsCopy[b][q] = pushTargets[q]
                           /\ \A c \in PushAgents \ {b} : pushStage[c][q] = "idle"
                           /\ \A e \in Devices : pushStage[b][q] = "send" => job'[b][q][e] # "threw"
    BY <2>1 DEF PushSteady
  <2>2. /\ pushAct[q] = "none"
        /\ pushStatus[q] = "immediate" => q \in pushLeased
        /\ \A b \in PushAgents : pushStage[b][q] # "idle" =>
             /\ pushStatus[q] = "immediate" /\ pushTargetsCopy[b][q] = pushTargets[q]
             /\ \A c \in PushAgents \ {b} : pushStage[c][q] = "idle"
             /\ \A e \in Devices : pushStage[b][q] = "send" => job[b][q][e] # "threw"
    BY DEF PushInv, PushSteady
  <2>3. ASSUME NEW b \in PushAgents, NEW e \in Devices, job'[b][q][e] = "threw"
        PROVE  job[b][q][e] = "threw"
    <3>1. e \in Destinations
      BY DEF Destinations
    <3> QED
      BY <1>2, <2>3, <3>1
  <2> QED
    BY <2>2, <2>3
<1>10. PushUnsent'
  <2> SUFFICES ASSUME NEW q \in Pushes, NEW e \in Destinations, <<q, e>> \notin pushOdd'
               PROVE  /\ /\ pushStatus[q] = "queued" /\ e \in Reaches(q)
                         /\ pushTargets[q] = {} \/ e \in pushTargets[q]
                         => pushGot'[q][e] = 0
                      /\ \A b \in PushAgents :
                           /\ pushStage[b][q] \in {"load", "caught"} /\ e \in Aims(b, q)
                              => pushGot'[q][e] = 0
                           /\ pushStage[b][q] = "send" /\ job'[b][q][e] \notin {"none", "ok", "clear"}
                              => pushGot'[q][e] = 0
    BY <1>1 DEF PushUnsent, Reaches
  <2>1. CASE q = p /\ e = d
    <3>1. <<p, d>> \notin pushOdd
      BY <2>1
    <3>2. pushStatus[p] = "immediate" /\ \A b \in PushAgents \ {a} : pushStage[b][p] = "idle"
      BY <3>1 DEF PushInv, PushSteady
    <3> QED
      BY <1>2, <2>1, <3>2
  <2>2. CASE ~(q = p /\ e = d)
    <3>1. pushGot'[q][e] = pushGot[q][e] /\ \A b \in PushAgents : job'[b][q][e] = job[b][q][e]
      BY <1>2, <1>4, <2>2
    <3> QED
      BY <3>1 DEF PushInv, PushUnsent
  <2> QED
    BY <2>1, <2>2
<1> QED
  BY <1>5, <1>6, <1>7, <1>8, <1>9, <1>10 DEF PushInv

LEMMA PushSendKeeps ==
  ASSUME PushInv, NEW a \in PushAgents, NEW p \in Pushes, NEW d \in Destinations, PushSend(a, p, d)
  PROVE  PushInv'
<1>1. PICK j \in {"send", "resend"} :
        /\ pushStage[a][p] = "send" /\ job[a][p][d] = j
        /\ \/ /\ pushGot' = [pushGot EXCEPT ![p][d] = @ + 1]
              /\ \/ /\ job' = [job EXCEPT ![a][p][d] = IF j = "resend" THEN "clear" ELSE "ok"]
                    /\ delivered' = [delivered EXCEPT ![a][p] = @ \cup {d}]
                    /\ UNCHANGED <<pushOdd, pushFaults>>
                 \/ /\ job' = [job EXCEPT ![a][p][d] = IF d = Own THEN "threw" ELSE "bad"] /\ PushFault
                    /\ pushOdd' = pushOdd \cup {<<p, d>>}
                    /\ UNCHANGED delivered
           \/ /\ IF d = Own THEN job' = [job EXCEPT ![a][p][d] = "threw"]
                 ELSE \E k \in {"bad", "rejected"} : job' = [job EXCEPT ![a][p][d] = k]
              /\ UNCHANGED <<delivered, pushGot, pushOdd, pushFaults>>
  BY DEF PushSend, JobIs, JobGoto
<1>2. UNCHANGED <<pushRow, pushStage, pushCopy, owed, operator, device, troubled, withdrawn>>
  BY DEF PushSend, JobGoto, pushWorld
<1>3. /\ device \in [Destinations -> {"enabled", "disabled", "deleted"}]
      /\ \A e \in Destinations \ withdrawn : device[e] = "enabled"
      /\ withdrawn \subseteq Destinations /\ troubled \subseteq Devices
      /\ pushOdd \subseteq Pushes \X Destinations /\ pushFaults \in 0..MaxPushFaults
      /\ delivered \in [PushAgents -> [Pushes -> SUBSET Destinations]]
      /\ pushGot \in [Pushes -> [Destinations -> Nat]]
  BY DEF PushInv, PushTypeOK, PushCovered
<1>4. d = Own => j = "send"
  BY <1>1 DEF PushInv, PushChannels
<1>5. d \in Devices => d # Own
  BY PushesAssumption
<1>6. <<p, d>> \notin pushOdd => pushGot[p][d] = 0
  BY <1>1 DEF PushInv, PushUnsent
<1>7. CASE pushGot' = [pushGot EXCEPT ![p][d] = @ + 1] /\ UNCHANGED pushOdd
           /\ job' = [job EXCEPT ![a][p][d] = IF j = "resend" THEN "clear" ELSE "ok"]
           /\ delivered' = [delivered EXCEPT ![a][p] = @ \cup {d}] /\ UNCHANGED pushFaults
  <2>1. pushGot'[p][d] > 0 /\ delivered' \in [PushAgents -> [Pushes -> SUBSET Destinations]]
    BY <1>3, <1>7
  <2>2. PICK k \in {"ok", "clear"} : job' = [job EXCEPT ![a][p][d] = k] /\ (d = Own => k = "ok")
    BY <1>4, <1>7
  <2>3. k \in (Settled \cup InFlight) \ {"none"}
    BY DEF Settled, InFlight
  <2>4. pushStage[a][p] = "send" /\ job[a][p][d] # "none"
    BY <1>1
  <2>5. /\ k \in {"ok", "clear"} => pushGot'[p][d] > 0
        /\ k = "disabled" => d \in withdrawn'
        /\ d = Own => k \in {"ok", "threw"}
        /\ k = "threw" /\ d \in Devices => \A e \in Destinations : <<p, e>> \in pushOdd'
        /\ k \notin {"ok", "clear"} /\ <<p, d>> \notin pushOdd' => pushGot'[p][d] = 0
    BY <2>1, <2>2
  <2>6. /\ device' \in [Destinations -> {"enabled", "disabled", "deleted"}]
        /\ withdrawn \subseteq withdrawn' /\ withdrawn' \subseteq Destinations
        /\ \A e \in Destinations \ withdrawn' : device'[e] = "enabled"
        /\ troubled' \subseteq Devices /\ pushFaults' \in 0..MaxPushFaults
        /\ pushOdd \subseteq pushOdd' /\ pushOdd' \subseteq Pushes \X Destinations
    BY <1>2, <1>3, <1>7
  <2>7. UNCHANGED <<pushRow, pushStage, pushCopy, owed, operator>>
    BY <1>2
  <2>8. pushGot' = pushGot \/ pushGot' = [pushGot EXCEPT ![p][d] = @ + 1]
    BY <1>7
  <2> QED
    BY <2>1, <2>2, <2>3, <2>4, <2>5, <2>6, <2>7, <2>8, JobStepKeeps
<1>8. CASE pushGot' = [pushGot EXCEPT ![p][d] = @ + 1] /\ PushFault
           /\ job' = [job EXCEPT ![a][p][d] = IF d = Own THEN "threw" ELSE "bad"]
           /\ pushOdd' = pushOdd \cup {<<p, d>>} /\ UNCHANGED delivered
  <2>1. pushFaults' \in 0..MaxPushFaults
    BY <1>3, <1>8, PushBoundsAssumption DEF PushFault
  <2>2. PICK k \in {"threw", "bad"} : job' = [job EXCEPT ![a][p][d] = k] /\ (k = "threw" <=> d = Own)
    BY <1>8
  <2>3. k \in (Settled \cup InFlight) \ {"none"}
    BY DEF Settled, InFlight
  <2>4. pushStage[a][p] = "send" /\ job[a][p][d] # "none"
    BY <1>1
  <2>5. pushOdd \subseteq pushOdd' /\ pushOdd' \subseteq Pushes \X Destinations /\ <<p, d>> \in pushOdd'
    BY <1>3, <1>8
  <2>6. /\ k \in {"ok", "clear"} => pushGot'[p][d] > 0
        /\ k = "disabled" => d \in withdrawn'
        /\ d = Own => k \in {"ok", "threw"}
        /\ k = "threw" /\ d \in Devices => \A e \in Destinations : <<p, e>> \in pushOdd'
        /\ k \notin {"ok", "clear"} /\ <<p, d>> \notin pushOdd' => pushGot'[p][d] = 0
    BY <1>5, <2>2, <2>5
  <2>7. /\ device' \in [Destinations -> {"enabled", "disabled", "deleted"}]
        /\ withdrawn \subseteq withdrawn' /\ withdrawn' \subseteq Destinations
        /\ \A e \in Destinations \ withdrawn' : device'[e] = "enabled"
        /\ troubled' \subseteq Devices
        /\ delivered' \in [PushAgents -> [Pushes -> SUBSET Destinations]]
    BY <1>2, <1>3, <1>8
  <2>8. UNCHANGED <<pushRow, pushStage, pushCopy, owed, operator>>
    BY <1>2
  <2>9. pushGot' = pushGot \/ pushGot' = [pushGot EXCEPT ![p][d] = @ + 1]
    BY <1>8
  <2> QED
    BY <2>1, <2>2, <2>3, <2>4, <2>5, <2>6, <2>7, <2>8, <2>9, JobStepKeeps
<1>9. CASE UNCHANGED <<delivered, pushGot, pushOdd, pushFaults>>
           /\ \E k \in {"bad", "rejected", "threw"} :
                job' = [job EXCEPT ![a][p][d] = k] /\ (k = "threw" <=> d = Own)
  <2>1. PICK k \in {"bad", "rejected", "threw"} :
          job' = [job EXCEPT ![a][p][d] = k] /\ (k = "threw" <=> d = Own)
    BY <1>9
  <2>2. k \in (Settled \cup InFlight) \ {"none"}
    BY DEF Settled, InFlight
  <2>3. pushStage[a][p] = "send" /\ job[a][p][d] # "none"
    BY <1>1
  <2>4. /\ k \in {"ok", "clear"} => pushGot'[p][d] > 0
        /\ k = "disabled" => d \in withdrawn'
        /\ d = Own => k \in {"ok", "threw"}
        /\ k = "threw" /\ d \in Devices => \A e \in Destinations : <<p, e>> \in pushOdd'
        /\ k \notin {"ok", "clear"} /\ <<p, d>> \notin pushOdd' => pushGot'[p][d] = 0
    BY <1>5, <1>6, <1>9, <2>1
  <2>5. /\ device' \in [Destinations -> {"enabled", "disabled", "deleted"}]
        /\ withdrawn \subseteq withdrawn' /\ withdrawn' \subseteq Destinations
        /\ \A e \in Destinations \ withdrawn' : device'[e] = "enabled"
        /\ troubled' \subseteq Devices /\ pushFaults' \in 0..MaxPushFaults
        /\ delivered' \in [PushAgents -> [Pushes -> SUBSET Destinations]]
        /\ pushOdd \subseteq pushOdd' /\ pushOdd' \subseteq Pushes \X Destinations
    BY <1>2, <1>3, <1>9
  <2>6. UNCHANGED <<pushRow, pushStage, pushCopy, owed, operator, pushGot>>
    BY <1>2, <1>9
  <2> QED
    BY <2>1, <2>2, <2>3, <2>4, <2>5, <2>6, JobStepKeeps
<1> QED
  BY <1>1, <1>7, <1>8, <1>9

\* What the three steps that write what became of a send have in common.
LEMMA MarkKeeps ==
  ASSUME PushInv, NEW d \in Destinations, NEW state \in {"enabled", "disabled"}, Mark(d, state)
  PROVE  /\ withdrawn \subseteq withdrawn' /\ withdrawn' \subseteq Destinations
         /\ device' \in [Destinations -> {"enabled", "disabled", "deleted"}]
         /\ \A e \in Destinations \ withdrawn' : device'[e] = "enabled"
         /\ state = "disabled" => d \in withdrawn'
BY DEF Mark, PushInv, PushTypeOK, PushCovered

LEMMA PushClearKeeps ==
  ASSUME PushInv, NEW a \in PushAgents, NEW p \in Pushes, NEW d \in Destinations, PushClear(a, p, d)
  PROVE  PushInv'
<1>0. PICK k \in {"ok"} : TRUE
  OBVIOUS
<1>1. /\ pushStage[a][p] = "send" /\ job[a][p][d] = "clear"
      /\ job' = [job EXCEPT ![a][p][d] = k] /\ Mark(d, "enabled") /\ troubled' \subseteq troubled
      /\ UNCHANGED <<pushRow, pushStage, pushCopy, delivered, pushGot, pushOdd, owed, pushFaults, operator>>
  BY <1>0 DEF PushClear, JobIs, JobGoto, pushHistory
<1>2. k \in (Settled \cup InFlight) \ {"none"} /\ job[a][p][d] # "none"
  BY <1>0, <1>1 DEF Settled
<1>3. pushGot[p][d] > 0
  BY <1>1 DEF PushInv, PushCovered
<1>4. /\ pushOdd \subseteq Pushes \X Destinations /\ troubled \subseteq Devices
      /\ pushFaults \in 0..MaxPushFaults
      /\ delivered \in [PushAgents -> [Pushes -> SUBSET Destinations]]
  BY DEF PushInv, PushTypeOK
<1>5. /\ withdrawn \subseteq withdrawn' /\ withdrawn' \subseteq Destinations
      /\ device' \in [Destinations -> {"enabled", "disabled", "deleted"}]
      /\ \A e \in Destinations \ withdrawn' : device'[e] = "enabled"
  BY <1>1, MarkKeeps
<1>6. /\ k \in {"ok", "clear"} => pushGot'[p][d] > 0
      /\ k = "disabled" => d \in withdrawn'
      /\ d = Own => k \in {"ok", "threw"}
      /\ k = "threw" /\ d \in Devices => \A e \in Destinations : <<p, e>> \in pushOdd'
      /\ k \notin {"ok", "clear"} /\ <<p, d>> \notin pushOdd' => pushGot'[p][d] = 0
  BY <1>0, <1>1, <1>3
<1>7. pushOdd \subseteq pushOdd' /\ pushOdd' \subseteq Pushes \X Destinations
      /\ troubled' \subseteq Devices /\ pushFaults' \in 0..MaxPushFaults
      /\ delivered' \in [PushAgents -> [Pushes -> SUBSET Destinations]]
  BY <1>1, <1>4
<1>8. UNCHANGED <<pushRow, pushStage, pushCopy, owed, operator, pushGot>>
  BY <1>1
<1> QED
  BY <1>1, <1>2, <1>5, <1>6, <1>7, <1>8, JobStepKeeps

LEMMA PushBlameKeeps ==
  ASSUME PushInv, NEW a \in PushAgents, NEW p \in Pushes, NEW d \in Destinations, PushBlame(a, p, d)
  PROVE  PushInv'
<1>1. PICK k \in {"failed", "disabled"}, state \in {"enabled", "disabled"} :
        /\ pushStage[a][p] = "send" /\ job[a][p][d] \in {"bad", "rejected"}
        /\ job' = [job EXCEPT ![a][p][d] = k] /\ Mark(d, state)
        /\ k = "disabled" => state = "disabled"
  BY DEF PushBlame, JobIs, JobGoto
<1>2. /\ troubled' = troubled \cup {d}
      /\ UNCHANGED <<pushRow, pushStage, pushCopy, delivered, pushGot, pushOdd, owed, pushFaults, operator>>
  BY DEF PushBlame, JobGoto, pushHistory
<1>3. k \in (Settled \cup InFlight) \ {"none"} /\ job[a][p][d] # "none"
  BY <1>1 DEF Settled
<1>4. d # Own /\ d \in Devices
  BY <1>1 DEF PushInv, PushChannels, Destinations
<1>5. <<p, d>> \notin pushOdd => pushGot[p][d] = 0
  BY <1>1 DEF PushInv, PushUnsent
<1>6. /\ pushOdd \subseteq Pushes \X Destinations /\ troubled' \subseteq Devices
      /\ pushFaults \in 0..MaxPushFaults
      /\ delivered \in [PushAgents -> [Pushes -> SUBSET Destinations]]
  BY <1>2, <1>4 DEF PushInv, PushTypeOK
<1>7. /\ withdrawn \subseteq withdrawn' /\ withdrawn' \subseteq Destinations
      /\ device' \in [Destinations -> {"enabled", "disabled", "deleted"}]
      /\ \A e \in Destinations \ withdrawn' : device'[e] = "enabled"
      /\ k = "disabled" => d \in withdrawn'
  BY <1>1, MarkKeeps
<1>8. k \notin {"ok", "clear", "threw"}
  OBVIOUS
<1>9. /\ k \in {"ok", "clear"} => pushGot'[p][d] > 0
      /\ k = "disabled" => d \in withdrawn'
      /\ d = Own => k \in {"ok", "threw"}
      /\ k = "threw" /\ d \in Devices => \A e \in Destinations : <<p, e>> \in pushOdd'
      /\ k \notin {"ok", "clear"} /\ <<p, d>> \notin pushOdd' => pushGot'[p][d] = 0
  BY <1>2, <1>4, <1>5, <1>7, <1>8
<1>10. pushOdd \subseteq pushOdd' /\ pushOdd' \subseteq Pushes \X Destinations
       /\ pushFaults' \in 0..MaxPushFaults
       /\ delivered' \in [PushAgents -> [Pushes -> SUBSET Destinations]]
  BY <1>2, <1>6
<1>11. UNCHANGED <<pushRow, pushStage, pushCopy, owed, operator, pushGot>>
  BY <1>2
<1> QED
  BY <1>1, <1>3, <1>6, <1>7, <1>9, <1>10, <1>11, JobStepKeeps

LEMMA PushMarkFailsKeeps ==
  ASSUME PushInv, NEW a \in PushAgents, NEW p \in Pushes, NEW d \in Destinations,
         PushMarkFails(a, p, d)
  PROVE  PushInv'
<1>1. PICK k \in {"bad", "threw"} :
        /\ pushStage[a][p] = "send" /\ job[a][p][d] \in {"clear", "bad", "rejected"}
        /\ job' = [job EXCEPT ![a][p][d] = k]
        /\ pushOdd' = pushOdd \cup (IF k = "bad" THEN {<<p, d>>} ELSE {p} \X Destinations)
  BY DEF PushMarkFails, JobIs, JobGoto
<1>2. /\ PushFault
      /\ UNCHANGED <<pushRow, pushStage, pushCopy, device, troubled, withdrawn, delivered, pushGot,
                     owed, operator>>
  BY DEF PushMarkFails, JobGoto, pushWorld
<1>3. k \in (Settled \cup InFlight) \ {"none"} /\ job[a][p][d] # "none"
  BY <1>1 DEF Settled, InFlight
<1>4. d # Own
  BY <1>1 DEF PushInv, PushChannels
<1>5. /\ pushOdd \subseteq pushOdd' /\ pushOdd' \subseteq Pushes \X Destinations
      /\ <<p, d>> \in pushOdd'
      /\ k = "threw" => \A e \in Destinations : <<p, e>> \in pushOdd'
  BY <1>1 DEF PushInv, PushTypeOK
<1>6. pushFaults' \in 0..MaxPushFaults
  BY <1>2, PushBoundsAssumption DEF PushFault, PushInv, PushTypeOK
<1>7. /\ troubled \subseteq Devices /\ withdrawn \subseteq Destinations
      /\ delivered \in [PushAgents -> [Pushes -> SUBSET Destinations]]
      /\ device \in [Destinations -> {"enabled", "disabled", "deleted"}]
      /\ \A e \in Destinations \ withdrawn : device[e] = "enabled"
  BY DEF PushInv, PushTypeOK, PushCovered
<1>8. /\ k \in {"ok", "clear"} => pushGot'[p][d] > 0
      /\ k = "disabled" => d \in withdrawn'
      /\ d = Own => k \in {"ok", "threw"}
      /\ k = "threw" /\ d \in Devices => \A e \in Destinations : <<p, e>> \in pushOdd'
      /\ k \notin {"ok", "clear"} /\ <<p, d>> \notin pushOdd' => pushGot'[p][d] = 0
  BY <1>1, <1>4, <1>5
<1>9. /\ troubled' \subseteq Devices /\ withdrawn \subseteq withdrawn' /\ withdrawn' \subseteq Destinations
      /\ device' \in [Destinations -> {"enabled", "disabled", "deleted"}]
      /\ \A e \in Destinations \ withdrawn' : device'[e] = "enabled"
      /\ delivered' \in [PushAgents -> [Pushes -> SUBSET Destinations]]
  BY <1>2, <1>7
<1>10. UNCHANGED <<pushRow, pushStage, pushCopy, owed, operator, pushGot>>
  BY <1>2
<1> QED
  BY <1>1, <1>3, <1>5, <1>6, <1>8, <1>9, <1>10, JobStepKeeps

-----------------------------------------------------------------------------

\* Agents that let go of pushes, with or without an excuse, leave the rest sound.
LEMMA ReleaseKeeps ==
  ASSUME PushInv, PushTypeOK', pushOdd \subseteq pushOdd',
         UNCHANGED <<pushRow, pushWorld, pushGot, owed, pushAct>>,
         \A a \in PushAgents, p \in Pushes :
           \/ /\ pushStage'[a][p] = "idle" /\ pushTargetsCopy'[a][p] = {}
              /\ \A d \in Destinations : job'[a][p][d] = "none"
           \/ /\ pushStage'[a][p] = pushStage[a][p] /\ pushTargetsCopy'[a][p] = pushTargetsCopy[a][p]
              /\ \A d \in Destinations : job'[a][p][d] = job[a][p][d]
  PROVE  PushInv'
<1> USE DEF pushRow, pushWorld
<1>0. Own \in Destinations
  BY DEF Destinations
<1>1. \A a \in PushAgents, p \in Pushes :
        \/ pushStage'[a][p] = "idle"
        \/ pushStage'[a][p] = pushStage[a][p] /\ Aims(a, p)' = Aims(a, p)
  BY DEF Aims
<1>2. PushChannels'
  <2>1. "request" \in PushAgents /\ Personal \subseteq Pushes
    BY PushesAssumption DEF PushAgents
  <2>2. \A a \in PushAgents, p \in Pushes : pushTargetsCopy'[a][p] \in {{}, pushTargetsCopy[a][p]}
    OBVIOUS
  <2>3. \A p \in Personal : pushTargets'[p] = {} /\ \A a \in PushAgents : pushTargetsCopy'[a][p] = {}
    BY <2>1, <2>2 DEF PushInv, PushChannels
  <2>4. \A p \in Pushes : pushTargetsCopy'["request"][p] = {}
    BY <2>1, <2>2 DEF PushInv, PushChannels
  <2>5. ASSUME NEW a \in PushAgents, NEW p \in Pushes
        PROVE  /\ job'[a][p][Own] \in {"none", "send", "ok", "threw"}
               /\ \A d \in Destinations :
                    /\ pushStage'[a][p] \in {"idle", "load"} => job'[a][p][d] = "none"
                    /\ job'[a][p][d] # "none" => d \in Aims(a, p)'
    <3>1. CASE pushStage'[a][p] = "idle" /\ \A d \in Destinations : job'[a][p][d] = "none"
      BY <1>0, <3>1
    <3>2. CASE /\ pushStage'[a][p] = pushStage[a][p] /\ pushTargetsCopy'[a][p] = pushTargetsCopy[a][p]
               /\ \A d \in Destinations : job'[a][p][d] = job[a][p][d]
      BY <1>0, <3>2 DEF PushInv, PushChannels, Aims
    <3> QED
      BY <3>1, <3>2
  <2> QED
    BY <2>3, <2>4, <2>5 DEF PushChannels
<1>3. PushCovered'
  BY <1>1 DEF PushInv, PushCovered
<1>4. PushFresh'
  BY DEF PushInv, PushFresh
<1>5. PushSteady'
  <2>1. \A d \in Devices : d \in Destinations
    BY DEF Destinations
  <2> QED
    BY <2>1 DEF PushInv, PushSteady
<1>6. PushUnsent'
  BY <1>1 DEF PushInv, PushUnsent
<1> QED
  BY <1>2, <1>3, <1>4, <1>5, <1>6 DEF PushInv

LEMMA EndIsTyped ==
  ASSUME PushTypeOK, NEW a \in PushAgents, NEW p \in Pushes, PushEnd(a, p)
  PROVE  /\ pushStage' \in [PushAgents -> [Pushes -> {"idle", "load", "send", "caught"}]]
         /\ pushRetriesCopy' \in [PushAgents -> [Pushes -> 0..(PushTries - 1)]]
         /\ pushTargetsCopy' \in [PushAgents -> [Pushes -> SUBSET Devices]]
         /\ job' \in [PushAgents -> [Pushes -> [Destinations -> Settled \cup InFlight]]]
         /\ delivered' \in [PushAgents -> [Pushes -> SUBSET Destinations]]
         /\ \A b \in PushAgents, q \in Pushes :
              IF b = a /\ q = p
              THEN /\ pushStage'[b][q] = "idle" /\ pushTargetsCopy'[b][q] = {}
                   /\ \A d \in Destinations : job'[b][q][d] = "none"
              ELSE /\ pushStage'[b][q] = pushStage[b][q] /\ pushTargetsCopy'[b][q] = pushTargetsCopy[b][q]
                   /\ job'[b][q] = job[b][q]
<1> USE DEF PushEnd, PushTypeOK
<1>1. pushStage' \in [PushAgents -> [Pushes -> {"idle", "load", "send", "caught"}]]
  OBVIOUS
<1>2. pushRetriesCopy' \in [PushAgents -> [Pushes -> 0..(PushTries - 1)]]
  BY PushLimitsAssumption
<1>3. pushTargetsCopy' \in [PushAgents -> [Pushes -> SUBSET Devices]]
  OBVIOUS
<1>4. NoJobs \in [Destinations -> Settled \cup InFlight]
  BY DEF NoJobs, Settled
<1>5. job' \in [PushAgents -> [Pushes -> [Destinations -> Settled \cup InFlight]]]
  BY <1>4
<1>6. delivered' \in [PushAgents -> [Pushes -> SUBSET Destinations]]
  OBVIOUS
<1>7. \A b \in PushAgents, q \in Pushes :
              IF b = a /\ q = p
              THEN /\ pushStage'[b][q] = "idle" /\ pushTargetsCopy'[b][q] = {}
                   /\ job'[b][q] = NoJobs
              ELSE /\ pushStage'[b][q] = pushStage[b][q] /\ pushTargetsCopy'[b][q] = pushTargetsCopy[b][q]
                   /\ job'[b][q] = job[b][q]
  OBVIOUS
<1> QED
  BY <1>1, <1>2, <1>3, <1>5, <1>6, <1>7 DEF NoJobs

\* The outcome of an agent's work is written.
LEMMA PushWriteKeeps ==
  ASSUME PushInv, NEW a \in PushAgents, NEW p \in Pushes, pushStage[a][p] # "idle",
         NEW outcome \in {"queued"} \cup PushTerminal, NEW retries \in 0..PushTries,
         NEW targets \in SUBSET Devices, PushWrite(a, p, outcome, retries, targets),
         p \in Personal => targets = {},
         outcome = "success" => \A d \in Reaches(p) \ withdrawn : pushGot[p][d] > 0,
         targets # {} => \A d \in Devices \ withdrawn : d \in targets \/ pushGot[p][d] > 0,
         outcome = "queued" => \A d \in Reaches(p) :
           <<p, d>> \notin pushOdd /\ (targets = {} \/ d \in targets) => pushGot[p][d] = 0
  PROVE  PushInv'
<1>0. Own \in Destinations /\ Devices \subseteq Destinations
  BY DEF Destinations
<1>1. PushEnd(a, p) /\ pushLeased' = pushLeased \ {p}
      /\ UNCHANGED <<device, troubled, withdrawn, pushGot, pushOdd, owed, pushFaults, pushAct, pushActs>>
  BY DEF PushWrite, pushWorld, pushHistory, operator
<1>2. /\ pushStage' \in [PushAgents -> [Pushes -> {"idle", "load", "send", "caught"}]]
      /\ pushRetriesCopy' \in [PushAgents -> [Pushes -> 0..(PushTries - 1)]]
      /\ pushTargetsCopy' \in [PushAgents -> [Pushes -> SUBSET Devices]]
      /\ job' \in [PushAgents -> [Pushes -> [Destinations -> Settled \cup InFlight]]]
      /\ delivered' \in [PushAgents -> [Pushes -> SUBSET Destinations]]
      /\ \A b \in PushAgents, q \in Pushes :
           IF b = a /\ q = p
           THEN /\ pushStage'[b][q] = "idle" /\ pushTargetsCopy'[b][q] = {}
                /\ \A d \in Destinations : job'[b][q][d] = "none"
           ELSE /\ pushStage'[b][q] = pushStage[b][q] /\ pushTargetsCopy'[b][q] = pushTargetsCopy[b][q]
                /\ job'[b][q] = job[b][q]
  BY <1>1, EndIsTyped DEF PushInv
<1>3. pushStatus[p] # "none"
  BY DEF PushInv, PushFresh
<1>4. /\ pushStatus' \in [Pushes -> PushPending \cup PushTerminal \cup {"none", "gone"}]
      /\ pushRetries' \in [Pushes -> 0..PushTries] /\ pushTargets' \in [Pushes -> SUBSET Devices]
  BY DEF PushWrite, PushInv, PushTypeOK, PushPending
<1>5. \A q \in Pushes :
        /\ pushStatus'[q] = IF q = p /\ pushStatus[p] # "gone" THEN outcome ELSE pushStatus[q]
        /\ pushTargets'[q] = IF q = p /\ pushStatus[p] # "gone" THEN targets ELSE pushTargets[q]
  BY <1>3 DEF PushWrite, PushStored, PushInv, PushTypeOK
<1>6. \A b \in PushAgents, q \in Pushes : b # a \/ q # p =>
        /\ Aims(b, q)' = Aims(b, q)
        /\ pushStage'[b][q] = pushStage[b][q] /\ job'[b][q] = job[b][q]
        /\ pushTargetsCopy'[b][q] = pushTargetsCopy[b][q]
  BY <1>2 DEF Aims
<1>7. /\ pushStage'[a][p] = "idle" /\ pushTargetsCopy'[a][p] = {}
      /\ \A d \in Destinations : job'[a][p][d] = "none"
  BY <1>2
<1>8. outcome \notin {"none", "gone", "immediate"}
  BY DEF PushTerminal
<1>9. PushTypeOK'
  BY <1>1, <1>2, <1>4 DEF PushInv, PushTypeOK
<1>10. PushChannels'
  <2>1. \A q \in Personal : pushTargets'[q] = {} /\ \A b \in PushAgents : pushTargetsCopy'[b][q] = {}
    BY <1>5, <1>6, <1>7, PushesAssumption DEF PushInv, PushChannels
  <2>2. \A q \in Pushes : pushTargetsCopy'["request"][q] = {}
    BY <1>6, <1>7 DEF PushInv, PushChannels, PushAgents
  <2>3. ASSUME NEW b \in PushAgents, NEW q \in Pushes
        PROVE  /\ job'[b][q][Own] \in {"none", "send", "ok", "threw"}
               /\ \A d \in Destinations :
                    /\ pushStage'[b][q] \in {"idle", "load"} => job'[b][q][d] = "none"
                    /\ job'[b][q][d] # "none" => d \in Aims(b, q)'
    <3>1. CASE b = a /\ q = p
      BY <1>0, <1>7, <3>1
    <3>2. CASE b # a \/ q # p
      BY <1>0, <1>6, <3>2 DEF PushInv, PushChannels
    <3> QED
      BY <3>1, <3>2
  <2> QED
    BY <2>1, <2>2, <2>3 DEF PushChannels
<1>11. PushCovered'
  <2>1. \A d \in Destinations \ withdrawn' : device'[d] = "enabled"
    BY <1>1 DEF PushInv, PushCovered
  <2>2. \A q \in Pushes : pushStatus'[q] = "success" =>
          \A d \in Reaches(q) \ withdrawn' : pushGot'[q][d] > 0
    BY <1>1, <1>5 DEF PushInv, PushCovered
  <2>3. \A q \in Pushes : pushTargets'[q] # {} =>
          \A d \in Devices \ withdrawn' : d \in pushTargets'[q] \/ pushGot'[q][d] > 0
    BY <1>1, <1>5 DEF PushInv, PushCovered
  <2>4. \A b \in PushAgents, q \in Pushes : pushTargetsCopy'[b][q] # {} =>
          \A d \in Devices \ withdrawn' : d \in pushTargetsCopy'[b][q] \/ pushGot'[q][d] > 0
    BY <1>1, <1>6, <1>7 DEF PushInv, PushCovered
  <2>5. ASSUME NEW b \in PushAgents, NEW q \in Pushes, pushStage'[b][q] = "send", NEW d \in Destinations
        PROVE  /\ job'[b][q][d] \in {"ok", "clear"} => pushGot'[q][d] > 0
               /\ job'[b][q][d] = "disabled" => d \in withdrawn'
               /\ d \in Aims(b, q)' \ withdrawn' => job'[b][q][d] # "none"
    <3>1. b # a \/ q # p
      BY <1>7, <2>5
    <3> QED
      BY <1>1, <1>6, <2>5, <3>1 DEF PushInv, PushCovered
  <2> QED
    BY <2>1, <2>2, <2>3, <2>4, <2>5 DEF PushCovered, Reaches
<1>12. PushFresh'
  BY <1>1, <1>3, <1>5, <1>6, <1>8 DEF PushInv, PushFresh
<1>13. PushSteady'
  <2> SUFFICES ASSUME NEW q \in Pushes, NEW x \in Destinations, <<q, x>> \notin pushOdd
               PROVE  /\ pushAct'[q] = "none"
                      /\ pushStatus'[q] = "immediate" => q \in pushLeased'
                      /\ \A b \in PushAgents : pushStage'[b][q] # "idle" =>
                           /\ pushStatus'[q] = "immediate" /\ pushTargetsCopy'[b][q] = pushTargets'[q]
                           /\ \A c \in PushAgents \ {b} : pushStage'[c][q] = "idle"
                           /\ \A e \in Devices : pushStage'[b][q] = "send" => job'[b][q][e] # "threw"
    BY <1>1 DEF PushSteady
  <2>1. /\ pushAct[q] = "none"
        /\ pushStatus[q] = "immediate" => q \in pushLeased
        /\ \A b \in PushAgents : pushStage[b][q] # "idle" =>
             /\ pushStatus[q] = "immediate" /\ pushTargetsCopy[b][q] = pushTargets[q]
             /\ \A c \in PushAgents \ {b} : pushStage[c][q] = "idle"
             /\ \A e \in Devices : pushStage[b][q] = "send" => job[b][q][e] # "threw"
    BY DEF PushInv, PushSteady
  <2>2. CASE q = p
    <3>1. pushStatus[p] = "immediate" /\ \A b \in PushAgents : pushStage'[b][p] = "idle"
      BY <1>6, <1>7, <2>1, <2>2
    <3> QED
      BY <1>1, <1>5, <1>8, <2>1, <2>2, <3>1
  <2>3. CASE q # p
    BY <1>1, <1>5, <1>6, <2>1, <2>3
  <2> QED
    BY <2>2, <2>3
<1>14. PushUnsent'
  <2> SUFFICES ASSUME NEW q \in Pushes, NEW d \in Destinations, <<q, d>> \notin pushOdd
               PROVE  /\ /\ pushStatus'[q] = "queued" /\ d \in Reaches(q)
                         /\ pushTargets'[q] = {} \/ d \in pushTargets'[q]
                         => pushGot[q][d] = 0
                      /\ \A b \in PushAgents :
                           /\ pushStage'[b][q] \in {"load", "caught"} /\ d \in Aims(b, q)'
                              => pushGot[q][d] = 0
                           /\ pushStage'[b][q] = "send" /\ job'[b][q][d] \notin {"none", "ok", "clear"}
                              => pushGot[q][d] = 0
    BY <1>1 DEF PushUnsent, Reaches
  <2>1. CASE q = p
    <3>1. pushStatus[p] = "immediate" /\ \A b \in PushAgents \ {a} : pushStage[b][p] = "idle"
      BY <2>1 DEF PushInv, PushSteady
    <3>2. \A b \in PushAgents : pushStage'[b][p] = "idle"
      BY <1>6, <1>7, <3>1
    <3> QED
      BY <1>5, <2>1, <3>1, <3>2
  <2>2. CASE q # p
    BY <1>5, <1>6, <2>2 DEF PushInv, PushUnsent
  <2> QED
    BY <2>1, <2>2
<1> QED
  BY <1>9, <1>10, <1>11, <1>12, <1>13, <1>14 DEF PushInv

\* What a delivery that is through without a throw has reached.
LEMMA ThroughReaches ==
  ASSUME PushInv, NEW a \in PushAgents, NEW p \in Pushes, Through(a, p), ~Threw(a, p)
  PROVE  /\ pushStage[a][p] = "send"
         /\ Outcome(a, p, "failed") \subseteq Devices
         /\ p \in Personal => Outcome(a, p, "failed") = {}
         /\ \A d \in Reaches(p) \ withdrawn :
              pushGot[p][d] > 0 \/ d \in Outcome(a, p, "failed")
         /\ \A d \in Outcome(a, p, "failed") : <<p, d>> \notin pushOdd => pushGot[p][d] = 0
<1>1. pushStage[a][p] = "send" /\ \A d \in Destinations : job[a][p][d] \in {"none", "ok", "failed", "disabled"}
  BY DEF Through, Threw, Outcome, PushInv, PushTypeOK, Settled
<1>2. \A d \in Destinations : job[a][p][d] = "failed" => d # Own /\ d \in Aims(a, p)
  BY DEF PushInv, PushChannels
<1>3. Outcome(a, p, "failed") \subseteq Devices
  BY <1>2 DEF Outcome, Destinations
<1>4. p \in Personal => Outcome(a, p, "failed") = {}
  BY <1>2 DEF Outcome, Aims, Reaches
<1>5. ASSUME NEW d \in Reaches(p) \ withdrawn
      PROVE  pushGot[p][d] > 0 \/ d \in Outcome(a, p, "failed")
  <2>1. d \in Destinations /\ (p \notin Personal => d \in Devices)
    BY <1>5 DEF Reaches, Destinations
  <2>2. CASE d \in Aims(a, p)
    BY <1>1, <1>5, <2>1, <2>2 DEF PushInv, PushCovered, Outcome
  <2>3. CASE d \notin Aims(a, p)
    BY <1>5, <2>1, <2>3 DEF PushInv, PushCovered, Aims
  <2> QED
    BY <2>2, <2>3
<1>6. ASSUME NEW d \in Outcome(a, p, "failed"), <<p, d>> \notin pushOdd
      PROVE  pushGot[p][d] = 0
  <2>1. d \in Destinations /\ job[a][p][d] = "failed"
    BY <1>6 DEF Outcome
  <2> QED
    BY <1>1, <1>6, <2>1 DEF PushInv, PushUnsent
<1> QED
  BY <1>1, <1>3, <1>4, <1>5, <1>6

LEMMA PushRecordKeeps ==
  ASSUME PushInv, NEW a \in PushAgents, NEW p \in Pushes, PushRecord(a, p)
  PROVE  PushInv'
<1> DEFINE tries == pushRetriesCopy[a][p] + 1
           failed == Outcome(a, p, "failed")
<1>1. Through(a, p) /\ ~Threw(a, p)
  BY DEF PushRecord
<1>2. /\ pushStage[a][p] = "send" /\ failed \subseteq Devices
      /\ p \in Personal => failed = {}
      /\ \A d \in Reaches(p) \ withdrawn : pushGot[p][d] > 0 \/ d \in failed
      /\ \A d \in failed : <<p, d>> \notin pushOdd => pushGot[p][d] = 0
  BY <1>1, ThroughReaches
<1>3. /\ tries \in 0..PushTries /\ pushRetries[p] \in 0..PushTries
      /\ RetriesAfter(a, p) \in 0..PushTries
  <2>1. pushRetriesCopy[a][p] \in 0..(PushTries - 1) /\ pushRetries[p] \in 0..PushTries
    BY DEF PushInv, PushTypeOK
  <2> QED
    BY <2>1, PushLimitsAssumption DEF RetriesAfter
<1>4. ASSUME NEW outcome \in PushTerminal, NEW retries \in 0..PushTries,
             outcome = "success" => failed = {}, PushWrite(a, p, outcome, retries, pushTargets[p])
      PROVE  PushInv'
  <2>1. outcome \in {"queued"} \cup PushTerminal /\ outcome # "queued"
    BY DEF PushTerminal
  <2>2. pushTargets[p] \in SUBSET Devices /\ (p \in Personal => pushTargets[p] = {})
    BY DEF PushInv, PushTypeOK, PushChannels
  <2>3. pushTargets[p] # {} => \A d \in Devices \ withdrawn : d \in pushTargets[p] \/ pushGot[p][d] > 0
    BY DEF PushInv, PushCovered
  <2>4. outcome = "success" => \A d \in Reaches(p) \ withdrawn : pushGot[p][d] > 0
    BY <1>2, <1>4
  <2>5. pushStage[a][p] # "idle"
    BY <1>2
  <2> HIDE DEF failed, tries
  <2> QED
    BY <1>4, <2>1, <2>2, <2>3, <2>4, <2>5, PushWriteKeeps
<1>5. ASSUME failed # {}, PushWrite(a, p, "queued", tries, failed)
      PROVE  PushInv'
  <2>1. p \notin Personal /\ Reaches(p) = Devices /\ pushStage[a][p] # "idle"
    BY <1>2, <1>5 DEF Reaches
  <2>2. \A d \in Devices \ withdrawn : d \in failed \/ pushGot[p][d] > 0
    BY <1>2, <2>1
  <2> HIDE DEF failed, tries
  <2> QED
    BY <1>2, <1>3, <1>5, <2>1, <2>2, PushWriteKeeps
<1>6. Verdict(a, p) \in PushTerminal /\ (Verdict(a, p) = "success" => failed = {})
  BY DEF Verdict, PushTerminal
<1>7. CASE a = "request"
  <2>1. PushWrite(a, p, Verdict(a, p), pushRetries[p], pushTargets[p])
    BY <1>7 DEF PushRecord
  <2> QED
    BY <1>3, <1>4, <1>6, <2>1
<1>8. CASE a # "request" /\ failed # {} /\ tries < PushTries
  <2>1. PushWrite(a, p, "queued", tries, failed)
    BY <1>8 DEF PushRecord, RetryTargets
  <2> QED
    BY <1>5, <1>8, <2>1
<1>9. CASE a # "request" /\ ~(failed # {} /\ tries < PushTries)
  <2>1. PushWrite(a, p, Verdict(a, p), RetriesAfter(a, p), pushTargets[p])
    BY <1>9 DEF PushRecord
  <2> QED
    BY <1>3, <1>4, <1>6, <2>1
<1> QED
  BY <1>7, <1>8, <1>9

LEMMA PushCaughtKeeps ==
  ASSUME PushInv, NEW a \in PushAgents, NEW p \in Pushes, PushCaught(a, p)
  PROVE  PushInv'
<1>1. pushStage[a][p] \in {"send", "caught"} /\ Threw(a, p)
  BY DEF PushCaught, Threw, Through
<1>2. CASE PushEnd(a, p) /\ UNCHANGED <<pushRow, pushWorld, pushHistory, pushFaults, operator>>
  <2>1. PushTypeOK
    BY DEF PushInv
  <2>2. PushTypeOK'
    BY <1>2, <2>1, EndIsTyped DEF pushRow, pushWorld, pushHistory, operator, PushTypeOK
  <2>3. \A b \in PushAgents, q \in Pushes :
              IF b = a /\ q = p
              THEN /\ pushStage'[b][q] = "idle" /\ pushTargetsCopy'[b][q] = {}
                   /\ \A d \in Destinations : job'[b][q][d] = "none"
              ELSE /\ pushStage'[b][q] = pushStage[b][q] /\ pushTargetsCopy'[b][q] = pushTargetsCopy[b][q]
                   /\ job'[b][q] = job[b][q]
    BY <1>2, <2>1, EndIsTyped
  <2>4. pushOdd' = pushOdd /\ UNCHANGED <<pushRow, pushWorld, pushGot, owed, pushAct>>
    BY <1>2 DEF pushHistory, operator
  <2> QED
    BY <2>2, <2>3, <2>4, ReleaseKeeps
<1>3. ASSUME NEW outcome \in {"error", "queued"},
             PushWrite(a, p, outcome, pushRetriesCopy[a][p] + 1, pushTargets[p])
      PROVE  PushInv'
  <2>1. outcome \in {"queued"} \cup PushTerminal /\ outcome # "success"
    BY DEF PushTerminal
  <2>2. pushRetriesCopy[a][p] + 1 \in 0..PushTries /\ pushTargets[p] \in SUBSET Devices
    BY PushLimitsAssumption DEF PushInv, PushTypeOK
  <2>3. p \in Personal => pushTargets[p] = {}
    BY DEF PushInv, PushChannels
  <2>4. pushTargets[p] # {} => \A d \in Devices \ withdrawn : d \in pushTargets[p] \/ pushGot[p][d] > 0
    BY DEF PushInv, PushCovered
  <2>5. ASSUME NEW d \in Reaches(p), <<p, d>> \notin pushOdd, pushTargets[p] = {} \/ d \in pushTargets[p]
        PROVE  pushGot[p][d] = 0
    <3>1. d \in Destinations
      BY DEF Reaches, Destinations
    <3>2. /\ pushTargetsCopy[a][p] = pushTargets[p]
          /\ \A e \in Devices : pushStage[a][p] = "send" => job[a][p][e] # "threw"
      BY <1>1, <2>5, <3>1 DEF PushInv, PushSteady
    <3>3. d \in Aims(a, p)
      BY <2>5, <3>2 DEF Aims, Reaches
    <3>4. CASE pushStage[a][p] = "caught"
      BY <2>5, <3>1, <3>3, <3>4 DEF PushInv, PushUnsent
    <3>5. CASE pushStage[a][p] = "send"
      <4>1. Own \in Destinations /\ job[a][p][Own] = "threw"
        BY <1>1, <3>2, <3>5 DEF Threw, Outcome, Destinations
      <4>2. Own \in Aims(a, p)
        BY <4>1 DEF PushInv, PushChannels
      <4>3. p \in Personal
        BY <4>2, PushesAssumption DEF Aims, Reaches, PushInv, PushTypeOK
      <4>4. d = Own
        BY <4>3 DEF Reaches
      <4> QED
        BY <2>5, <3>1, <3>5, <4>1, <4>4 DEF PushInv, PushUnsent
    <3> QED
      BY <1>1, <3>4, <3>5
  <2>6. pushStage[a][p] # "idle"
    BY <1>1
  <2> QED
    BY <1>3, <2>1, <2>2, <2>3, <2>4, <2>5, <2>6, PushWriteKeeps
<1> QED
  BY <1>2, <1>3 DEF PushCaught

LEMMA PushWriteFailsKeeps ==
  ASSUME PushInv, NEW a \in PushAgents, NEW p \in Pushes, PushWriteFails(a, p)
  PROVE  PushInv'
<1>1. /\ pushFaults' \in 0..MaxPushFaults /\ pushOdd' = pushOdd \cup ({p} \X Destinations)
      /\ UNCHANGED <<pushRow, pushWorld, pushGot, owed, operator>>
  BY PushBoundsAssumption DEF PushWriteFails, PushFault, PushInv, PushTypeOK
<1>2. pushOdd' \subseteq Pushes \X Destinations /\ pushOdd \subseteq pushOdd'
  BY <1>1 DEF PushInv, PushTypeOK
<1>3. CASE PushEnd(a, p)
  <2>1. PushTypeOK
    BY DEF PushInv
  <2>2. PushTypeOK'
    BY <1>1, <1>2, <1>3, <2>1, EndIsTyped DEF pushRow, pushWorld, operator, PushTypeOK
  <2>3. \A b \in PushAgents, q \in Pushes :
              IF b = a /\ q = p
              THEN /\ pushStage'[b][q] = "idle" /\ pushTargetsCopy'[b][q] = {}
                   /\ \A d \in Destinations : job'[b][q][d] = "none"
              ELSE /\ pushStage'[b][q] = pushStage[b][q] /\ pushTargetsCopy'[b][q] = pushTargetsCopy[b][q]
                   /\ job'[b][q] = job[b][q]
    BY <1>3, <2>1, EndIsTyped
  <2>4. UNCHANGED <<pushRow, pushWorld, pushGot, owed, pushAct>>
    BY <1>1 DEF operator
  <2> QED
    BY <1>2, <2>2, <2>3, <2>4, ReleaseKeeps
<1>4. CASE /\ pushStage[a][p] = "send" /\ pushStage' = [pushStage EXCEPT ![a][p] = "caught"]
           /\ UNCHANGED <<pushCopy, job, delivered>>
  <2>0. UNCHANGED <<pushStatus, pushRetries, pushTargets, pushLeased, device, troubled, withdrawn,
                    pushGot, owed, pushAct, pushActs, pushRetriesCopy, pushTargetsCopy, job, delivered>>
    BY <1>1, <1>4 DEF pushRow, pushWorld, operator, pushCopy
  <2>1. pushStage' \in [PushAgents -> [Pushes -> {"idle", "load", "send", "caught"}]]
    BY <1>4 DEF PushInv, PushTypeOK
  <2>2. \A b \in PushAgents, q \in Pushes :
          pushStage'[b][q] = IF b = a /\ q = p THEN "caught" ELSE pushStage[b][q]
    BY <1>4 DEF PushInv, PushTypeOK
  <2>3. \A b \in PushAgents, q \in Pushes : Aims(b, q)' = Aims(b, q)
    BY <2>0 DEF Aims
  <2>4. PushTypeOK'
    BY <1>1, <1>2, <2>0, <2>1 DEF PushInv, PushTypeOK
  <2>5. PushChannels'
    BY <2>0, <2>2, <2>3 DEF PushInv, PushChannels
  <2>6. PushCovered'
    BY <2>0, <2>2, <2>3 DEF PushInv, PushCovered, Reaches
  <2>7. PushFresh'
    BY <1>4, <2>0, <2>2 DEF PushInv, PushFresh
  <2>8. PushSteady'
    <3>1. \A d \in Destinations : <<p, d>> \in pushOdd'
      BY <1>1
    <3> QED
      BY <1>2, <2>0, <2>2, <3>1 DEF PushInv, PushSteady
  <2>9. PushUnsent'
    <3>1. \A d \in Destinations : <<p, d>> \in pushOdd'
      BY <1>1
    <3> QED
      BY <1>2, <2>0, <2>2, <2>3, <3>1 DEF PushInv, PushUnsent, Reaches
  <2> QED
    BY <2>4, <2>5, <2>6, <2>7, <2>8, <2>9 DEF PushInv
<1> QED
  BY <1>3, <1>4 DEF PushWriteFails, Through

LEMMA PushCrashKeeps ==
  ASSUME PushInv, NEW a \in PushAgents, PushCrash(a)
  PROVE  PushInv'
<1> USE DEF PushCrash
<1>1. NoJobs \in [Destinations -> Settled \cup InFlight]
  BY DEF NoJobs, Settled
<1>2. [p \in Pushes |-> NoJobs] \in [Pushes -> [Destinations -> Settled \cup InFlight]]
  BY <1>1
<1>3. job' \in [PushAgents -> [Pushes -> [Destinations -> Settled \cup InFlight]]]
  BY <1>2 DEF PushInv, PushTypeOK
<1>4. pushStage' \in [PushAgents -> [Pushes -> {"idle", "load", "send", "caught"}]]
  BY DEF PushInv, PushTypeOK
<1>5. delivered' \in [PushAgents -> [Pushes -> SUBSET Destinations]]
  BY DEF PushInv, PushTypeOK
<1>6. /\ pushRetriesCopy' \in [PushAgents -> [Pushes -> 0..(PushTries - 1)]]
      /\ pushTargetsCopy' \in [PushAgents -> [Pushes -> SUBSET Devices]]
  BY PushLimitsAssumption DEF PushInv, PushTypeOK
<1>7. pushFaults' \in 0..MaxPushFaults
  BY PushBoundsAssumption DEF PushFault, PushInv, PushTypeOK
<1>8. UNCHANGED <<pushStatus, pushRetries, pushTargets, pushLeased, device, troubled, withdrawn,
                  pushGot, pushOdd, owed, pushAct, pushActs>>
  BY DEF pushRow, pushWorld, pushHistory, operator
<1>9. PushTypeOK'
  BY <1>3, <1>4, <1>5, <1>6, <1>7, <1>8 DEF PushInv, PushTypeOK
<1>10. \A b \in PushAgents, p \in Pushes :
         IF b = a
         THEN /\ pushStage'[b][p] = "idle" /\ pushTargetsCopy'[b][p] = {}
              /\ \A d \in Destinations : job'[b][p][d] = "none"
         ELSE /\ pushStage'[b][p] = pushStage[b][p] /\ pushTargetsCopy'[b][p] = pushTargetsCopy[b][p]
              /\ job'[b][p] = job[b][p]
  BY DEF PushInv, PushTypeOK, NoJobs
<1> QED
  BY <1>8, <1>9, <1>10, ReleaseKeeps DEF pushRow, pushWorld

LEMMA PushLeaseExpiresKeeps ==
  ASSUME PushInv, NEW p \in Pushes, PushLeaseExpires(p)
  PROVE  PushInv'
<1>1. /\ pushLeased' = pushLeased \ {p} /\ pushOdd' = pushOdd \cup ({p} \X Destinations)
      /\ UNCHANGED <<pushStatus, pushRetries, pushTargets, device, troubled, withdrawn, pushStage,
                     pushRetriesCopy, pushTargetsCopy, job, delivered, pushGot, owed, pushAct, pushActs>>
  BY DEF PushLeaseExpires, pushWorld, pushJob, pushCopy, operator
<1>2. pushFaults' \in 0..MaxPushFaults
  BY PushBoundsAssumption DEF PushLeaseExpires, PushFault, PushInv, PushTypeOK
<1>3. \A d \in Destinations : <<p, d>> \in pushOdd'
  BY <1>1
<1>4. \A a \in PushAgents, q \in Pushes : Aims(a, q)' = Aims(a, q)
  BY <1>1 DEF Aims
<1>5. PushTypeOK'
  BY <1>1, <1>2 DEF PushInv, PushTypeOK
<1>6. PushChannels' /\ PushFresh'
  BY <1>1, <1>4 DEF PushInv, PushChannels, PushFresh
<1>7. PushCovered'
  BY <1>1, <1>4 DEF PushInv, PushCovered, Reaches
<1>8. PushSteady'
  BY <1>1, <1>3 DEF PushInv, PushSteady
<1>9. PushUnsent'
  BY <1>1, <1>3, <1>4 DEF PushInv, PushUnsent, Reaches
<1> QED
  BY <1>5, <1>6, <1>7, <1>8, <1>9 DEF PushInv

LEMMA PushCleanupKeeps ==
  ASSUME PushInv, NEW p \in Pushes, PushCleanup(p)
  PROVE  PushInv'
<1>1. /\ pushStatus[p] \in PushTerminal /\ pushLeased' = pushLeased \ {p}
      /\ pushStatus' = [pushStatus EXCEPT ![p] = "gone"]
      /\ UNCHANGED <<pushRetries, pushTargets, device, troubled, withdrawn, pushStage, pushRetriesCopy,
                     pushTargetsCopy, job, delivered, pushGot, pushOdd, owed, pushFaults, pushAct, pushActs>>
  BY DEF PushCleanup, pushWorld, pushJob, pushCopy, pushHistory, operator
<1>2. \A q \in Pushes : pushStatus'[q] = IF q = p THEN "gone" ELSE pushStatus[q]
  BY <1>1 DEF PushInv, PushTypeOK
<1>3. \A a \in PushAgents, q \in Pushes : Aims(a, q)' = Aims(a, q)
  BY <1>1 DEF Aims
<1>4. pushStatus[p] # "none" /\ pushStatus[p] # "immediate"
  BY <1>1 DEF PushTerminal
<1>5. PushTypeOK'
  BY <1>1 DEF PushInv, PushTypeOK
<1>6. PushChannels'
  BY <1>1, <1>3 DEF PushInv, PushChannels
<1>7. PushFresh'
  BY <1>1, <1>2, <1>4 DEF PushInv, PushFresh
<1>8. PushCovered'
  BY <1>1, <1>2, <1>3 DEF PushInv, PushCovered, Reaches
<1>9. PushSteady'
  BY <1>1, <1>2, <1>4 DEF PushInv, PushSteady
<1>10. PushUnsent'
  BY <1>1, <1>2, <1>3 DEF PushInv, PushUnsent, Reaches
<1> QED
  BY <1>5, <1>6, <1>7, <1>8, <1>9, <1>10 DEF PushInv

LEMMA UserActsKeeps ==
  ASSUME PushInv, NEW d \in Destinations, UserActs(d)
  PROVE  PushInv'
<1>1. /\ withdrawn' = withdrawn \cup {d} /\ troubled' = troubled \ {d}
      /\ pushActs < MaxPushActs /\ pushActs' = pushActs + 1
      /\ UNCHANGED <<pushStatus, pushRetries, pushTargets, pushLeased, pushStage, pushRetriesCopy,
                     pushTargetsCopy, job, delivered, pushGot, pushOdd, owed, pushFaults, pushAct>>
  BY DEF UserActs, pushRow, pushJob, pushCopy, pushHistory
<1>2. PICK state \in {"enabled", "disabled", "deleted"} : device' = [device EXCEPT ![d] = state]
  BY DEF UserActs
<1>3. \A a \in PushAgents, q \in Pushes : Aims(a, q)' = Aims(a, q)
  BY <1>1 DEF Aims
<1>4. PushTypeOK'
  BY <1>1, <1>2, PushBoundsAssumption DEF PushInv, PushTypeOK
<1>5. PushChannels' /\ PushFresh'
  BY <1>1, <1>3 DEF PushInv, PushChannels, PushFresh
<1>6. PushCovered'
  <2>1. \A e \in Destinations \ withdrawn' : device'[e] = "enabled"
    BY <1>1, <1>2 DEF PushInv, PushTypeOK, PushCovered
  <2> QED
    BY <1>1, <1>3, <2>1 DEF PushInv, PushCovered, Reaches
<1>7. PushSteady'
  BY <1>1 DEF PushInv, PushSteady
<1>8. PushUnsent'
  BY <1>1, <1>3 DEF PushInv, PushUnsent, Reaches
<1> QED
  BY <1>4, <1>5, <1>6, <1>7, <1>8 DEF PushInv

LEMMA PushOperatorChecksKeeps ==
  ASSUME PushInv, NEW p \in Pushes, NEW act \in {"retry", "cancel"}, PushOperatorChecks(p, act)
  PROVE  PushInv'
<1>1. /\ pushAct' = [pushAct EXCEPT ![p] = act] /\ pushActs < MaxPushActs /\ pushActs' = pushActs + 1
      /\ pushStatus[p] # "none" /\ pushOdd' = pushOdd \cup ({p} \X Destinations)
      /\ UNCHANGED <<pushStatus, pushRetries, pushTargets, pushLeased, device, troubled, withdrawn,
                     pushStage, pushRetriesCopy, pushTargetsCopy, job, delivered, pushGot, owed, pushFaults>>
  BY DEF PushOperatorChecks, pushRow, pushWorld, pushJob, pushCopy, PushPending
<1>2. \A d \in Destinations : <<p, d>> \in pushOdd'
  BY <1>1
<1>3. \A a \in PushAgents, q \in Pushes : Aims(a, q)' = Aims(a, q)
  BY <1>1 DEF Aims
<1>4. \A q \in Pushes : q # p => pushAct'[q] = pushAct[q]
  BY <1>1 DEF PushInv, PushTypeOK
<1>5. PushTypeOK'
  BY <1>1, PushBoundsAssumption DEF PushInv, PushTypeOK
<1>6. PushChannels'
  BY <1>1, <1>3 DEF PushInv, PushChannels
<1>7. PushFresh'
  BY <1>1, <1>4 DEF PushInv, PushFresh
<1>8. PushCovered'
  BY <1>1, <1>3 DEF PushInv, PushCovered, Reaches
<1>9. PushSteady'
  BY <1>1, <1>2, <1>4 DEF PushInv, PushSteady
<1>10. PushUnsent'
  BY <1>1, <1>2, <1>3 DEF PushInv, PushUnsent, Reaches
<1> QED
  BY <1>5, <1>6, <1>7, <1>8, <1>9, <1>10 DEF PushInv

LEMMA PushOperatorActsKeeps ==
  ASSUME PushInv, NEW p \in Pushes, PushOperatorActs(p)
  PROVE  PushInv'
<1>1. /\ pushAct[p] # "none" /\ pushAct' = [pushAct EXCEPT ![p] = "none"]
      /\ pushLeased' = pushLeased \ {p}
      /\ UNCHANGED <<pushTargets, device, troubled, withdrawn, pushStage, pushRetriesCopy,
                     pushTargetsCopy, job, delivered, pushGot, pushOdd, owed, pushFaults, pushActs>>
  BY DEF PushOperatorActs, pushWorld, pushJob, pushCopy, pushHistory
<1>2. pushStatus[p] # "none" /\ \A d \in Destinations : <<p, d>> \in pushOdd
  BY <1>1 DEF PushInv, PushFresh, PushSteady
<1>3. /\ pushStatus' \in [Pushes -> PushPending \cup PushTerminal \cup {"none", "gone"}]
      /\ pushRetries' \in [Pushes -> 0..PushTries]
      /\ pushStatus'[p] \in {pushStatus[p], "cancelled", "queued"}
      /\ \A q \in Pushes : q # p => pushStatus'[q] = pushStatus[q]
  <2>1. 0 \in 0..PushTries
    BY PushLimitsAssumption
  <2>2. CASE ~PushStored(p)
    BY <2>2 DEF PushOperatorActs, PushInv, PushTypeOK
  <2>3. CASE PushStored(p) /\ pushAct[p] = "cancel"
    BY <2>3 DEF PushOperatorActs, PushInv, PushTypeOK, PushTerminal
  <2>4. CASE PushStored(p) /\ pushAct[p] # "cancel"
    <3>1. /\ pushStatus' = [pushStatus EXCEPT ![p] = "queued"]
          /\ pushRetries' = [pushRetries EXCEPT ![p] = 0]
      BY <2>4 DEF PushOperatorActs
    <3>2. /\ pushStatus \in [Pushes -> PushPending \cup PushTerminal \cup {"none", "gone"}]
          /\ pushRetries \in [Pushes -> 0..PushTries] /\ "queued" \in PushPending
      BY DEF PushInv, PushTypeOK, PushPending
    <3> QED
      BY <2>1, <3>1, <3>2
  <2> QED
    BY <2>2, <2>3, <2>4
<1>4. \A a \in PushAgents, q \in Pushes : Aims(a, q)' = Aims(a, q)
  BY <1>1 DEF Aims
<1>5. \A q \in Pushes : q # p => pushAct'[q] = pushAct[q]
  BY <1>1 DEF PushInv, PushTypeOK
<1>6. PushTypeOK'
  BY <1>1, <1>3 DEF PushInv, PushTypeOK
<1>7. PushChannels'
  BY <1>1, <1>4 DEF PushInv, PushChannels
<1>8. PushFresh'
  BY <1>1, <1>2, <1>3, <1>5 DEF PushInv, PushFresh
<1>9. PushCovered'
  <2>1. \A q \in Pushes : pushStatus'[q] = "success" => pushStatus[q] = "success"
    BY <1>3
  <2> QED
    BY <1>1, <1>4, <2>1 DEF PushInv, PushCovered, Reaches
<1>10. PushSteady'
  BY <1>1, <1>2, <1>3, <1>5 DEF PushInv, PushSteady
<1>11. PushUnsent'
  BY <1>1, <1>2, <1>3, <1>4 DEF PushInv, PushUnsent, Reaches
<1> QED
  BY <1>6, <1>7, <1>8, <1>9, <1>10, <1>11 DEF PushInv

LEMMA PushStepKeeps ==
  ASSUME PushInv, [PushNext]_pushVars
  PROVE  PushInv'
<1>1. CASE UNCHANGED pushVars
  <2>1. /\ UNCHANGED <<pushRow, pushWorld, pushStage, pushRetriesCopy, pushTargetsCopy, job, delivered,
                       pushGot, pushOdd, owed, pushFaults, pushAct, pushActs>>
    BY <1>1 DEF pushVars, pushCopy, pushJob, pushHistory, operator
  <2>2. PushTypeOK'
    BY <2>1 DEF pushRow, pushWorld, PushInv, PushTypeOK
  <2> QED
    BY <2>1, <2>2, ReleaseKeeps
<1>2. ASSUME NEW p \in Pushes, NEW a \in PushAgents, PushStep(a, p)
      PROVE  PushInv'
  BY <1>2, PushLoadKeeps, PushRecordKeeps, PushCaughtKeeps, PushSendKeeps, PushClearKeeps,
     PushBlameKeeps DEF PushStep
<1>3. ASSUME NEW p \in Pushes, NEW a \in PushAgents,
             PushWriteFails(a, p) \/ \E d \in Destinations : PushMarkFails(a, p, d)
      PROVE  PushInv'
  BY <1>3, PushWriteFailsKeeps, PushMarkFailsKeeps
<1>4. ASSUME NEW p \in Pushes,
             \/ QueuePush(p) \/ SendPushTest(p) \/ PushLeaseExpires(p) \/ PushCleanup(p)
             \/ PushOperatorActs(p)
             \/ \E act \in {"retry", "cancel"} : PushOperatorChecks(p, act)
      PROVE  PushInv'
  BY <1>4, QueuePushKeeps, SendPushTestKeeps, PushLeaseExpiresKeeps, PushCleanupKeeps,
     PushOperatorActsKeeps, PushOperatorChecksKeeps
<1>5. ASSUME NEW s \in PushSweeps, NEW batch \in SUBSET Pushes, PushClaim(s, batch)
      PROVE  PushInv'
  BY <1>5, PushClaimKeeps
<1>6. CASE (\E a \in PushAgents : PushCrash(a)) \/ \E d \in Destinations : UserActs(d)
  BY <1>6, PushCrashKeeps, UserActsKeeps
<1> QED
  BY <1>1, <1>2, <1>3, <1>4, <1>5, <1>6 DEF PushNext

\* A row of the push queue that was not disturbed as a whole is in the hands of
\* one agent at most, and what it still aims at was not sent: the invariant
\* behind PushRefinement.
THEOREM PushInvariance == PushSpec => []PushInv
<1>1. PushInit => PushInv
  BY PushInitHolds
<1>2. PushInv /\ [PushNext]_pushVars => PushInv'
  BY PushStepKeeps
<1> QED
  BY <1>1, <1>2, PTL DEF PushSpec

-----------------------------------------------------------------------------
(* The promise. *)

PushKnown == {i \in PushItems : pushStatus[i[1]] # "none"}
PushDone == {i \in PushItems : pushStatus[i[1]] = "success" /\ i[2] \in owed[i[1]] \ withdrawn}
PushSends == [i \in PushItems |-> pushGot[i[1]][i[2]]]

LEMMA ItemsArePairs ==
  /\ \A i \in PushItems : /\ i[1] \in Pushes /\ i[2] \in Destinations /\ i[2] \in Reaches(i[1])
                          /\ i = <<i[1], i[2]>>
  /\ \A p \in Pushes, d \in Destinations : d \in Reaches(p) => <<p, d>> \in PushItems
BY DEF PushItems

\* A step that sends nothing and excuses nothing, whatever else it writes.
LEMMA PushRecords ==
  ASSUME PushInv, PushInv', UNCHANGED <<pushGot, pushOdd>>,
         \A p \in Pushes : pushStatus'[p] = "none" <=> pushStatus[p] = "none",
         \A i \in PushOpen' \ PushOpen : i \in pushOdd
  PROVE  PushPromise!Next
<1> DEFINE closed == PushOpen \ PushOpen'
           opened == PushOpen' \ PushOpen
<1>1. PushItems' = PushItems
  BY DEF PushItems, Reaches
<1>2. PushKnown' = PushKnown
  BY <1>1, ItemsArePairs DEF PushKnown
<1>3. PushOpen \subseteq PushItems /\ PushOpen' \subseteq PushItems /\ PushOpen' \subseteq PushKnown'
  BY <1>1 DEF PushOpen, PushKnown, PushPending
<1>4. closed \in SUBSET PushOpen /\ opened \in SUBSET ((pushOdd \cap PushItems) \cap PushKnown)
  BY <1>2, <1>3
<1>5. PushOpen' = (PushOpen \ closed) \cup opened
  OBVIOUS
<1>6. PushDone' \in SUBSET PushKnown /\ PushDone' \cap PushOpen' = {}
  BY <1>1, <1>2 DEF PushDone, PushKnown, PushOpen, PushPending
<1>7. \A i \in PushDone' : PushSends[i] > 0
  <2> SUFFICES ASSUME NEW i \in PushDone'
               PROVE  pushGot[i[1]][i[2]] > 0 /\ i \in PushItems
    BY DEF PushSends
  <2>1. /\ i \in PushItems /\ pushStatus'[i[1]] = "success" /\ i[2] \notin withdrawn'
    BY <1>1 DEF PushDone
  <2>2. \A p \in Pushes : pushStatus'[p] = "success" =>
          \A d \in Reaches(p) \ withdrawn' : pushGot'[p][d] > 0
    BY DEF PushInv, PushCovered, Reaches
  <2> QED
    BY <2>1, <2>2, ItemsArePairs
<1>8. PushSends' = PushSends /\ (pushOdd \cap PushItems)' = pushOdd \cap PushItems
  BY <1>1 DEF PushSends
<1> HIDE DEF closed, opened
<1>9. PushPromise!Record
  BY <1>2, <1>4, <1>5, <1>6, <1>7, <1>8 DEF PushPromise!Record, PushKnown, PushDone, PushSends
<1> QED
  BY <1>9 DEF PushPromise!Next

LEMMA PushExcuses ==
  ASSUME UNCHANGED <<pushStatus, pushTargets, owed, withdrawn, pushGot>>, pushOdd \subseteq pushOdd'
  PROVE  PushPromise!Next
<1> DEFINE S == (pushOdd' \ pushOdd) \cap PushItems
<1>1. PushItems' = PushItems
  BY DEF PushItems, Reaches
<1>2. (pushOdd \cap PushItems)' = (pushOdd \cap PushItems) \cup S
  BY <1>1
<1>3. PushKnown' = PushKnown /\ PushOpen' = PushOpen /\ PushDone' = PushDone /\ PushSends' = PushSends
  BY <1>1 DEF PushKnown, PushOpen, PushDone, PushSends
<1>4. S \in SUBSET PushItems
  OBVIOUS
<1> HIDE DEF S
<1>5. PushPromise!Excuse(S)
  BY <1>2, <1>3 DEF PushPromise!Excuse, PushKnown, PushDone, PushSends
<1> QED
  BY <1>4, <1>5 DEF PushPromise!Next

LEMMA QueuePushRefines ==
  ASSUME PushInv, NEW p \in Pushes, QueuePush(p) \/ SendPushTest(p)
  PROVE  PushPromise!Next
<1> DEFINE S == {i \in PushItems : i[1] = p}
<1>1. PICK status \in PushPending :
        /\ pushStatus[p] = "none" /\ pushStatus' = [pushStatus EXCEPT ![p] = status]
        /\ UNCHANGED <<pushTargets, owed, withdrawn, pushGot, pushOdd>>
  BY DEF QueuePush, SendPushTest, PushPending, pushWorld, pushHistory
<1>2. \A q \in Pushes : pushStatus'[q] = IF q = p THEN status ELSE pushStatus[q]
  BY <1>1 DEF PushInv, PushTypeOK
<1>3. PushItems' = PushItems
  BY DEF PushItems, Reaches
<1>4. status \notin {"none", "success"} /\ pushTargets[p] = {}
  BY <1>1 DEF PushPending, PushInv, PushFresh
<1>5. PushKnown' = PushKnown \cup S /\ S \cap PushKnown = {}
  BY <1>1, <1>2, <1>3, <1>4, ItemsArePairs DEF PushKnown
<1>6. PushOpen' = PushOpen \cup S
  BY <1>1, <1>2, <1>3, <1>4, ItemsArePairs DEF PushOpen
<1>7. PushDone' = PushDone
  BY <1>1, <1>2, <1>3, <1>4, ItemsArePairs DEF PushDone
<1>8. PushSends' = PushSends /\ (pushOdd \cap PushItems)' = pushOdd \cap PushItems
  BY <1>1, <1>3 DEF PushSends
<1>9. S \in SUBSET PushItems
  OBVIOUS
<1> HIDE DEF S
<1>10. PushPromise!Accept(S)
  BY <1>5, <1>6, <1>7, <1>8 DEF PushPromise!Accept, PushKnown, PushDone, PushSends
<1> QED
  BY <1>9, <1>10 DEF PushPromise!Next

\* What an agent has selected is open, unless there is an excuse.
LEMMA AimsAreOpen ==
  ASSUME PushInv, NEW a \in PushAgents, NEW p \in Pushes, NEW d \in Aims(a, p),
         pushStage[a][p] # "idle", <<p, d>> \notin pushOdd
  PROVE  <<p, d>> \in PushOpen
<1>1. d \in Reaches(p) /\ d \in Destinations /\ <<p, d>> \in PushItems
  BY ItemsArePairs DEF Aims, Reaches, Destinations, PushInv, PushTypeOK
<1>2. pushStatus[p] = "immediate" /\ pushTargetsCopy[a][p] = pushTargets[p]
  BY <1>1 DEF PushInv, PushSteady
<1>3. pushTargets[p] # {} => d \in pushTargets[p]
  BY <1>2 DEF Aims, PushInv, PushChannels
<1> QED
  BY <1>1, <1>2, <1>3 DEF PushOpen, PushPending

LEMMA PushSendRefines ==
  ASSUME PushInv, PushInv', NEW a \in PushAgents, NEW p \in Pushes, NEW d \in Destinations,
         PushSend(a, p, d)
  PROVE  PushPromise!Next
<1> DEFINE i == <<p, d>>
<1>1. /\ pushStage[a][p] = "send" /\ job[a][p][d] \in {"send", "resend"}
      /\ UNCHANGED <<pushStatus, pushTargets, owed, withdrawn>>
  BY DEF PushSend, JobIs, pushRow, pushWorld
<1>2. d \in Aims(a, p)
  BY <1>1 DEF PushInv, PushChannels
<1>3. d \in Reaches(p) /\ i \in PushItems
  BY <1>2, ItemsArePairs DEF Aims, Reaches, PushInv, PushTypeOK
<1>4. i \in pushOdd \/ (i \in PushOpen /\ pushGot[p][d] = 0)
  BY <1>1, <1>2, AimsAreOpen DEF PushInv, PushUnsent
<1>5. PushItems' = PushItems
  BY DEF PushItems, Reaches
<1>6. CASE pushGot' = [pushGot EXCEPT ![p][d] = @ + 1] /\ pushOdd' \in {pushOdd, pushOdd \cup {i}}
  <2>1. \A j \in PushItems : pushGot'[j[1]][j[2]] =
          IF j = i THEN pushGot[p][d] + 1 ELSE pushGot[j[1]][j[2]]
    <3>1. pushGot \in [Pushes -> [Destinations -> Nat]]
      BY DEF PushInv, PushTypeOK
    <3>2. \A j \in PushItems : j[1] \in Pushes /\ j[2] \in Destinations /\ (j = i <=> j[1] = p /\ j[2] = d)
      BY ItemsArePairs
    <3>3. \A q \in Pushes, e \in Destinations :
            pushGot'[q][e] = IF q = p /\ e = d THEN pushGot[p][d] + 1 ELSE pushGot[q][e]
      BY <1>6, <3>1
    <3> HIDE DEF i
    <3> QED
      BY <3>2, <3>3
  <2>2. PushSends[i] = pushGot[p][d]
    BY <1>3 DEF PushSends
  <2> HIDE DEF i
  <2>3. PushSends' = [PushSends EXCEPT ![i] = @ + 1]
    BY <1>3, <1>5, <2>1, <2>2 DEF PushSends
  <2>4. PushKnown' = PushKnown /\ PushOpen' = PushOpen /\ PushDone' = PushDone
    BY <1>1, <1>5 DEF PushKnown, PushOpen, PushDone
  <2>5. (pushOdd \cap PushItems)' \in {pushOdd \cap PushItems, (pushOdd \cap PushItems) \cup {i}}
    BY <1>3, <1>5, <1>6
  <2>6. i \in pushOdd \cap PushItems \/ (i \in PushOpen /\ PushSends[i] = 0)
    BY <1>3, <1>4, <2>2
  <2>7. PushPromise!Send(i)
    BY <2>3, <2>4, <2>5, <2>6 DEF PushPromise!Send, PushKnown, PushDone, PushSends
  <2> QED
    BY <1>3, <2>7 DEF PushPromise!Next
<1>7. CASE UNCHANGED <<pushGot, pushOdd>>
  <2>1. PushOpen' = PushOpen
    BY <1>1, <1>5 DEF PushOpen
  <2> QED
    BY <1>1, <1>7, <2>1, PushRecords
<1> QED
  BY <1>6, <1>7 DEF PushSend

\* The unconditional write of an outcome, from a copy that may be stale.
LEMMA PushWriteRefines ==
  ASSUME PushInv, PushInv', NEW a \in PushAgents, NEW p \in Pushes, pushStage[a][p] # "idle",
         NEW outcome \in {"queued"} \cup PushTerminal, NEW retries, NEW targets,
         PushWrite(a, p, outcome, retries, targets),
         outcome = "queued" /\ targets # pushTargets[p] => targets # {} /\ targets \subseteq Aims(a, p)
  PROVE  PushPromise!Next
<1>1. pushStatus[p] # "none" /\ UNCHANGED <<pushGot, pushOdd>>
  BY DEF PushWrite, pushHistory, PushInv, PushFresh
<1>2. /\ \A q \in Pushes : q # p => pushStatus'[q] = pushStatus[q] /\ pushTargets'[q] = pushTargets[q]
      /\ \/ pushStatus'[p] = outcome /\ pushTargets'[p] = targets
         \/ pushStatus'[p] = pushStatus[p] /\ pushTargets'[p] = pushTargets[p]
  BY DEF PushWrite, PushInv, PushTypeOK
<1>3. outcome # "none" /\ (outcome \in PushPending => outcome = "queued")
  BY DEF PushTerminal, PushPending
<1>4. ASSUME NEW i \in PushOpen' \ PushOpen, i \notin pushOdd
      PROVE  FALSE
  <2>1. /\ i \in PushItems /\ pushStatus'[i[1]] \in PushPending
        /\ pushTargets'[i[1]] # {} => i[2] \in pushTargets'[i[1]]
    BY DEF PushOpen, PushItems, Reaches
  <2>2. i[1] = p /\ i = <<p, i[2]>> /\ i[2] \in Destinations /\ i[2] \in Reaches(p)
    BY <1>2, <1>4, <2>1, ItemsArePairs DEF PushOpen
  <2>3. pushStatus'[p] = outcome /\ pushTargets'[p] = targets /\ outcome = "queued"
    BY <1>2, <1>3, <1>4, <2>1, <2>2 DEF PushOpen
  <2>4. pushStatus[p] = "immediate"
    BY <1>4, <2>2 DEF PushInv, PushSteady
  <2>5. targets # pushTargets[p]
    BY <1>4, <2>1, <2>2, <2>3, <2>4 DEF PushOpen, PushPending
  <2>6. i[2] \in Aims(a, p)
    BY <2>1, <2>2, <2>3, <2>5
  <2> QED
    BY <1>4, <2>2, <2>6, AimsAreOpen
<1>5. \A q \in Pushes : pushStatus'[q] = "none" <=> pushStatus[q] = "none"
  BY <1>1, <1>2, <1>3
<1> QED
  BY <1>1, <1>4, <1>5, PushRecords

LEMMA PushRecordRefines ==
  ASSUME PushInv, PushInv', NEW a \in PushAgents, NEW p \in Pushes, PushRecord(a, p)
  PROVE  PushPromise!Next
<1> DEFINE failed == Outcome(a, p, "failed")
<1>1. pushStage[a][p] # "idle" /\ failed \subseteq Aims(a, p)
  BY DEF PushRecord, Through, Outcome, PushInv, PushChannels
<1>2. Verdict(a, p) \in PushTerminal /\ \A v \in PushTerminal : v # "queued"
  BY DEF Verdict, PushTerminal
<1>3. ASSUME NEW retries, PushWrite(a, p, Verdict(a, p), retries, pushTargets[p])
      PROVE  PushPromise!Next
  BY <1>1, <1>2, <1>3, PushWriteRefines
<1>4. ASSUME NEW retries, failed # {}, PushWrite(a, p, "queued", retries, failed)
      PROVE  PushPromise!Next
  BY <1>1, <1>4, PushWriteRefines
<1>5. CASE a = "request"
  BY <1>3, <1>5 DEF PushRecord
<1>6. CASE a # "request" /\ failed # {} /\ pushRetriesCopy[a][p] + 1 < PushTries
  BY <1>4, <1>6 DEF PushRecord, RetryTargets
<1>7. CASE a # "request" /\ ~(failed # {} /\ pushRetriesCopy[a][p] + 1 < PushTries)
  BY <1>3, <1>7 DEF PushRecord
<1> QED
  BY <1>5, <1>6, <1>7

LEMMA PushCaughtRefines ==
  ASSUME PushInv, PushInv', NEW a \in PushAgents, NEW p \in Pushes, PushCaught(a, p)
  PROVE  PushPromise!Next
<1>1. pushStage[a][p] # "idle"
  BY DEF PushCaught, Threw, Through
<1>2. CASE UNCHANGED <<pushRow, pushWorld, pushHistory>>
  <2>1. PushOpen' = PushOpen
    BY <1>2 DEF pushRow, PushOpen, PushItems, Reaches
  <2> QED
    BY <1>2, <2>1, PushRecords DEF pushRow, pushHistory
<1>3. ASSUME NEW outcome \in {"error", "queued"}, NEW retries,
             PushWrite(a, p, outcome, retries, pushTargets[p])
      PROVE  PushPromise!Next
  <2>1. outcome \in {"queued"} \cup PushTerminal
    BY DEF PushTerminal
  <2> QED
    BY <1>1, <1>3, <2>1, PushWriteRefines
<1> QED
  BY <1>2, <1>3 DEF PushCaught

\* What changes neither a status nor the targets of a row, and sends nothing.
LEMMA PushInternal ==
  ASSUME PushInv, PushInv', UNCHANGED <<pushStatus, pushTargets, pushGot, pushOdd>>
  PROVE  PushPromise!Next
<1>1. PushOpen' = PushOpen
  BY DEF PushOpen, PushItems, Reaches
<1> QED
  BY <1>1, PushRecords

LEMMA PushClaimRefines ==
  ASSUME PushInv, PushInv', NEW s \in PushSweeps, NEW batch \in SUBSET Pushes, PushClaim(s, batch)
  PROVE  PushPromise!Next
<1>1. \A p \in Pushes :
        /\ p \in batch => pushStatus'[p] = "immediate" /\ pushStatus[p] \in {"queued", "immediate"}
        /\ p \notin batch => pushStatus'[p] = pushStatus[p]
  BY DEF PushClaim, PushClaimable
<1>2. UNCHANGED <<pushTargets, pushGot, pushOdd>>
  BY DEF PushClaim, pushHistory
<1>3. PushItems' = PushItems
  BY DEF PushItems, Reaches
<1>4. PushOpen' = PushOpen
  BY <1>1, <1>2, <1>3, ItemsArePairs DEF PushOpen, PushPending
<1>5. \A p \in Pushes : pushStatus'[p] = "none" <=> pushStatus[p] = "none"
  BY <1>1
<1> QED
  BY <1>2, <1>4, <1>5, PushRecords

LEMMA PushCleanupRefines ==
  ASSUME PushInv, PushInv', NEW p \in Pushes, PushCleanup(p)
  PROVE  PushPromise!Next
<1>1. /\ pushStatus[p] # "none" /\ UNCHANGED <<pushTargets, pushGot, pushOdd>>
      /\ \A q \in Pushes : pushStatus'[q] = IF q = p THEN "gone" ELSE pushStatus[q]
  BY DEF PushCleanup, PushTerminal, pushHistory, PushInv, PushTypeOK
<1>2. PushItems' = PushItems
  BY DEF PushItems, Reaches
<1>3. PushOpen' \subseteq PushOpen
  BY <1>1, <1>2, ItemsArePairs DEF PushOpen, PushPending
<1> QED
  BY <1>1, <1>3, PushRecords

\* The check of an operator is the excuse for the act, however late it comes.
LEMMA PushOperatorRefines ==
  ASSUME PushInv, PushInv', NEW p \in Pushes, PushOperatorActs(p)
  PROVE  PushPromise!Next
<1>1. /\ pushStatus[p] # "none" /\ \A d \in Destinations : <<p, d>> \in pushOdd
      /\ UNCHANGED <<pushTargets, pushGot, pushOdd>>
  BY DEF PushOperatorActs, PushInv, PushFresh, PushSteady, pushHistory
<1>2. /\ \A q \in Pushes : q # p => pushStatus'[q] = pushStatus[q]
      /\ pushStatus'[p] \in {pushStatus[p], "cancelled", "queued"}
  <2>1. CASE PushStored(p) /\ pushAct[p] = "cancel"
    BY <2>1 DEF PushOperatorActs, PushInv, PushTypeOK
  <2>2. CASE PushStored(p) /\ pushAct[p] # "cancel"
    BY <2>2 DEF PushOperatorActs, PushInv, PushTypeOK
  <2>3. CASE ~PushStored(p)
    BY <2>3 DEF PushOperatorActs
  <2> QED
    BY <2>1, <2>2, <2>3
<1>3. PushItems' = PushItems
  BY DEF PushItems, Reaches
<1>4. \A i \in PushOpen' \ PushOpen : i \in pushOdd
  <2>1. \A i \in PushItems : i[1] = p => i \in pushOdd
    BY <1>1, ItemsArePairs
  <2> QED
    BY <1>1, <1>2, <1>3, <2>1, ItemsArePairs DEF PushOpen
<1>5. \A q \in Pushes : pushStatus'[q] = "none" <=> pushStatus[q] = "none"
  BY <1>1, <1>2
<1> QED
  BY <1>1, <1>4, <1>5, PushRecords

\* The push queue does nothing the promise forbids: whatever one device answers,
\* no other gets the push twice without an excuse, and "success" is not written
\* while a selected device has neither got it nor been withdrawn
\* (push-queue.ts:430-470).
THEOREM PushRefinement == PushSpec => ImplementsPushQueueSafely
<1>1. PushInit => PushPromise!Init
  <2> SUFFICES ASSUME PushInit
               PROVE  PushPromise!Init
    OBVIOUS
  <2>1. PushKnown = {} /\ PushOpen = {} /\ PushDone = {} /\ PushSends = [i \in PushItems |-> 0]
    BY ItemsArePairs DEF PushInit, PushKnown, PushOpen, PushDone, PushSends, PushPending
  <2>2. pushOdd \cap PushItems = {}
    BY DEF PushInit
  <2> QED
    BY <2>1, <2>2 DEF PushPromise!Init, PushKnown, PushDone, PushSends
<1>2. PushInv /\ PushInv' /\ [PushNext]_pushVars => [PushPromise!Next]_(PushPromise!vars)
  <2> SUFFICES ASSUME PushInv, PushInv', [PushNext]_pushVars
               PROVE  PushPromise!Next
    OBVIOUS
  <2>1. CASE UNCHANGED pushVars
    BY <2>1, PushInternal DEF pushVars, pushRow, pushHistory
  <2>2. ASSUME NEW p \in Pushes, NEW a \in PushAgents, PushLoad(a, p)
        PROVE  PushPromise!Next
    BY <2>2, PushInternal DEF PushLoad, pushRow
  <2>3. ASSUME NEW p \in Pushes, NEW a \in PushAgents, NEW d \in Destinations,
               PushClear(a, p, d) \/ PushBlame(a, p, d)
        PROVE  PushPromise!Next
    BY <2>3, PushInternal DEF PushClear, PushBlame, pushRow, pushHistory
  <2>4. ASSUME NEW p \in Pushes, NEW a \in PushAgents, PushStep(a, p)
        PROVE  PushPromise!Next
    BY <2>2, <2>3, <2>4, PushRecordRefines, PushCaughtRefines, PushSendRefines DEF PushStep
  <2>5. ASSUME NEW p \in Pushes, NEW a \in PushAgents,
               PushWriteFails(a, p) \/ \E d \in Destinations : PushMarkFails(a, p, d)
        PROVE  PushPromise!Next
    <3>1. UNCHANGED <<pushStatus, pushTargets, owed, withdrawn, pushGot>> /\ pushOdd \subseteq pushOdd'
      BY <2>5 DEF PushWriteFails, PushMarkFails, pushRow, pushWorld
    <3> QED
      BY <3>1, PushExcuses
  <2>6. ASSUME NEW p \in Pushes, PushLeaseExpires(p) \/ \E act \in {"retry", "cancel"} : PushOperatorChecks(p, act)
        PROVE  PushPromise!Next
    <3>1. UNCHANGED <<pushStatus, pushTargets, owed, withdrawn, pushGot>> /\ pushOdd \subseteq pushOdd'
      BY <2>6 DEF PushLeaseExpires, PushOperatorChecks, pushRow, pushWorld
    <3> QED
      BY <3>1, PushExcuses
  <2>7. CASE (\E a \in PushAgents : PushCrash(a)) \/ \E d \in Destinations : UserActs(d)
    BY <2>7, PushInternal DEF PushCrash, UserActs, pushRow, pushHistory
  <2> QED
    BY <2>1, <2>4, <2>5, <2>6, <2>7, QueuePushRefines, PushClaimRefines, PushCleanupRefines,
       PushOperatorRefines DEF PushNext
<1> QED
  BY <1>1, <1>2, PushInvariance, PTL DEF PushSpec, ImplementsPushQueueSafely, PushPromise!SafeSpec

-----------------------------------------------------------------------------
(* The composition that TLC runs.                                           *)

\* Each queue of the composition is a behaviour of its own module, so what is
\* proved of the modules holds of what the run checks.
LEMMA PartsOfQueues == MCSpec => Spec /\ DirectSpec /\ MailSpec /\ PushSpec
<1>1. MCInit => Init /\ DirectInit /\ MailInit /\ PushInit
  BY DEF MCInit
<1>2. [MCNext]_allVars => /\ [Next]_vars /\ [DirectNext]_directVars
                          /\ [MailNext]_mailVars /\ [PushNext]_pushVars
  BY DEF MCNext, allVars
<1> QED
  BY <1>1, <1>2, PTL DEF MCSpec, Spec, DirectSpec, MailSpec, PushSpec

\* Type correctness of the composition: the rows, copies and leases of direct
\* events, mail and push.
THEOREM QueuesTyped == MCSpec => []QueueTypeOK
<1>1. DirectInv /\ MailInv /\ PushInv => QueueTypeOK
  BY DEF DirectInv, MailInv, PushInv, QueueTypeOK
<1> QED
  BY <1>1, PartsOfQueues, DirectInvariance, MailInvariance, PushInvariance, PTL
=============================================================================
