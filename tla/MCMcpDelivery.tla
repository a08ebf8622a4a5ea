--------------------------- MODULE MCMcpDelivery ---------------------------
(* Small instances of McpDelivery for TLC. *)
EXTENDS McpDelivery

CONSTANTS w1, w2

TwoRows == {1, 2}
TwoWorkers == {w1, w2}

VARIABLE scene \* it never changes

\* "race": one occurrence, two workers, renewals.  "queue": two occurrences
\* and the one worker that the order and the end of a delivery need.
MCInit == Init /\ scene \in {"race", "queue"}

MCBounds ==
  IF scene = "race" THEN status'[2] = "none"
  ELSE epoch' <= 1 /\ faults' <= 1 /\ batch'[w2] = {}

MCNext == Next /\ MCBounds /\ UNCHANGED scene

\* Fairness asks for nothing that the bounds forbid.
MCFairness ==
  /\ \A w \in Workers :
       WF_vars(Claim(w) /\ MCBounds) /\ WF_vars(Drain(w) /\ MCBounds)
  /\ \A d \in Deliveries :
       WF_vars(BackoffEnds(d) /\ MCBounds) /\ WF_vars(LeaseExpires(d) /\ MCBounds)

MCSpec == MCInit /\ [][MCNext]_<<vars, scene>> /\ MCFairness
=============================================================================
