------------------------- MODULE MCWebhookDelivery -------------------------
(* A small instance of WebhookDelivery for TLC. *)
EXTENDS WebhookDelivery

CONSTANTS d1, test, s1, s2, r1

RowAndTest == {d1, test}
OneTest == {test}
TwoSweeps == {s1, s2}
OneRequest == {r1}

\* Rows share nothing but the endpoint and the batch that claims them, and the
\* jobs of a batch run side by side: one row, ordinary or a chat test, meets
\* everything a second one would.
OneRowAtMost == Cardinality({d \in Deliveries : status'[d] # "none"}) <= 1

\* Inserting a row is not fair, so the bound takes no step that fairness owes.
MCSpec == Init /\ [][Next /\ OneRowAtMost]_vars /\ Fairness
=============================================================================
