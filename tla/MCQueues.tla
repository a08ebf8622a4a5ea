------------------------------ MODULE MCQueues ------------------------------
(***************************************************************************)
(* Small instances of the queues that are drained under a lease.  The      *)
(* processes that drain them share neither rows nor locks, so one initial  *)
(* state per queue checks what their product would.                        *)
(***************************************************************************)
EXTENDS EventOutbox, DirectOutbox, EmailQueue, PushQueue

CONSTANTS w1, w2, mail, push, personal, desk, phone

OneEvent == {1}
TwoEvents == {1, 2}
TwoWorkers == {w1, w2}
OneMail == {mail}
BothPushes == {push, personal}
OnePersonal == {personal}
TwoDevices == {desk, phone}

VARIABLE active \* the queue under check; it never changes

allVars == <<vars, directVars, mailVars, pushVars, active>>

MCInit ==
  /\ active \in {"events", "direct", "mail", "push"}
  /\ Init /\ DirectInit /\ MailInit /\ PushInit

\* One push, to the devices or personal; a failure or an act of the user.
PushBounds ==
  /\ Cardinality({p \in Pushes : pushStatus'[p] # "none"}) <= 1
  /\ pushFaults' + pushActs' <= 1

MCNext ==
  /\ UNCHANGED active
  /\ \/ active = "events" /\ Next /\ UNCHANGED <<directVars, mailVars, pushVars>>
     \/ active = "direct" /\ DirectNext /\ UNCHANGED <<vars, mailVars, pushVars>>
     \/ active = "mail" /\ MailNext /\ UNCHANGED <<vars, directVars, pushVars>>
     \/ active = "push" /\ PushNext /\ PushBounds /\ UNCHANGED <<vars, directVars, mailVars>>

\* The fair actions of a queue without rows are never enabled.
MCSpec ==
  MCInit /\ [][MCNext]_allVars /\ Fairness /\ DirectFairness /\ MailFairness /\ PushFairness

\* The rows, copies and leases of the queues stay within their types.
QueueTypeOK == DirectTypeOK /\ MailTypeOK /\ PushTypeOK
=============================================================================
