------------------------- MODULE MCIdempotentCalls -------------------------
(* Small instances of IdempotentCalls for TLC. *)
EXTENDS IdempotentCalls

CONSTANTS c1, c2, same, other

OneCall == {c1}
TwoCalls == {c1, c2}
TwoPayloads == {same, other}
AllAttempts == Calls \X (1..MaxAttempts)
AllSame == [r \in AllAttempts |-> same]
SecondDiffers == [r \in AllAttempts |-> IF r[1] = c2 THEN other ELSE same]
=============================================================================
