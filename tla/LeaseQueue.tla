----------------------------- MODULE LeaseQueue -----------------------------
(***************************************************************************)
(* What the queues drained under a lease promise (direct events, mail,     *)
(* push), without rows, leases, copies or workers: an accepted item is     *)
(* sent at least once unless it is given up, and it is closed in the end;  *)
(* it is sent a second time, or opened again, only with an excuse; what is *)
(* reported as done was sent.  An excuse is a lost answer, a failed write, *)
(* a lease that ran out or an operator's act.                              *)
(***************************************************************************)
EXTENDS Naturals

CONSTANT Items

VARIABLES
  known,  \* accepted items
  open,   \* those the queue still owes an outcome
  done,   \* those it reports as delivered
  sends,  \* how often the receiver got each item
  excused

vars == <<known, open, done, sends, excused>>

Init ==
  /\ known = {} /\ open = {} /\ done = {} /\ excused = {}
  /\ sends = [i \in Items |-> 0]

Accept(S) ==
  /\ S \cap known = {}
  /\ known' = known \cup S /\ open' = open \cup S
  /\ UNCHANGED <<done, sends, excused>>

\* The receiver gets the item; its answer may be lost, which is an excuse.
Send(i) ==
  /\ i \in excused \/ (i \in open /\ sends[i] = 0)
  /\ sends' = [sends EXCEPT ![i] = @ + 1]
  /\ excused' \in {excused, excused \cup {i}}
  /\ UNCHANGED <<known, open, done>>

Excuse(S) ==
  /\ excused' = excused \cup S
  /\ UNCHANGED <<known, open, done, sends>>

\* An outcome is written for some items; a late writer may open others again,
\* and what is given up may still be under way.
Record ==
  /\ \E closed \in SUBSET open, opened \in SUBSET (excused \cap known) :
       /\ open' = (open \ closed) \cup opened
       /\ excused' \in {excused, excused \cup closed}
  /\ done' \in SUBSET known
  /\ done' \cap open' = {}
  /\ \A i \in done' \ done : sends[i] > 0
  /\ UNCHANGED <<known, sends>>

Next ==
  \/ \E S \in SUBSET Items : Accept(S) \/ Excuse(S)
  \/ \E i \in Items : Send(i)
  \/ Record

SafeSpec == Init /\ [][Next]_vars

Spec == SafeSpec /\ \A i \in Items : WF_vars(Record /\ i \in open /\ i \notin open')
=============================================================================
