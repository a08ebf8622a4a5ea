--------------------------- MODULE EventDelivery ---------------------------
(***************************************************************************)
(* What the event outbox promises, without rows, leases or dispatchers:    *)
(* every event it accepts is heard in its room, or by no room if it is not *)
(* for one, then queued for the integrations, then settled, unless the     *)
(* backstop or an operator gives it up first.  EventOutbox implements      *)
(* this specification.                                                     *)
(***************************************************************************)
CONSTANT Events

VARIABLES
  accepted, \* stored durably
  unheard,  \* accepted as events that no room is to hear
  heard,    \* broadcast at least once
  queued,   \* delivery rows exist for every consumer
  settled,  \* nothing is left to do
  purged,   \* dropped by the backstop, settled or not
  cancelled \* given up by an operator before it was settled

vars == <<accepted, unheard, heard, queued, settled, purged, cancelled>>

TypeOK ==
  /\ accepted \subseteq Events
  /\ unheard \subseteq accepted
  /\ heard \subseteq Events
  /\ queued \subseteq Events
  /\ settled \subseteq Events
  /\ purged \subseteq Events
  /\ cancelled \subseteq Events

Init ==
  /\ accepted = {} /\ unheard = {} /\ heard = {}
  /\ queued = {} /\ settled = {} /\ purged = {} /\ cancelled = {}

Open == accepted \ (settled \cup purged \cup cancelled)

Accept(e) ==
  /\ e \notin accepted
  /\ accepted' = accepted \cup {e}
  /\ UNCHANGED <<unheard, heard, queued, settled, purged, cancelled>>

\* For the integrations, and for users who are told one by one.
AcceptUnheard(e) ==
  /\ e \notin accepted /\ e \notin heard
  /\ accepted' = accepted \cup {e}
  /\ unheard' = unheard \cup {e}
  /\ UNCHANGED <<heard, queued, settled, purged, cancelled>>

\* An inline broadcast is heard before the event is accepted, and a broadcast
\* under way is heard although the event was purged or cancelled meanwhile.
Hear(e) ==
  /\ e \notin heard /\ e \notin unheard
  /\ heard' = heard \cup {e}
  /\ UNCHANGED <<accepted, unheard, queued, settled, purged, cancelled>>

\* A drain under way queues an event although it was cancelled meanwhile.
Queue(e) ==
  /\ e \in accepted \ (settled \cup purged) /\ e \in heard \cup unheard /\ e \notin queued
  /\ queued' = queued \cup {e}
  /\ UNCHANGED <<accepted, unheard, heard, settled, purged, cancelled>>

\* A whole batch is settled at once.
Settle(S) ==
  /\ S # {} /\ S \subseteq Open /\ S \subseteq queued
  /\ settled' = settled \cup S
  /\ UNCHANGED <<accepted, unheard, heard, queued, purged, cancelled>>

Purge(e) ==
  /\ e \in accepted /\ e \notin purged
  /\ purged' = purged \cup {e}
  /\ UNCHANGED <<accepted, unheard, heard, queued, settled, cancelled>>

Cancel(e) ==
  /\ e \in Open
  /\ cancelled' = cancelled \cup {e}
  /\ UNCHANGED <<accepted, unheard, heard, queued, settled, purged>>

Next ==
  \/ \E e \in Events :
       Accept(e) \/ AcceptUnheard(e) \/ Hear(e) \/ Queue(e) \/ Purge(e) \/ Cancel(e)
  \/ \E S \in SUBSET Events : Settle(S)

SafeSpec == Init /\ [][Next]_vars

\* Each open event goes on to its next stage.
Fairness ==
  \A e \in Events :
    /\ WF_vars(e \in Open /\ Hear(e))
    /\ WF_vars(e \in Open /\ Queue(e))
    /\ WF_vars(\E S \in SUBSET Events : e \in S /\ Settle(S))

Spec == SafeSpec /\ Fairness
=============================================================================
