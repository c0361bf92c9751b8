--------------------------- MODULE MCOutboxClaim ---------------------------
(* Small instances of OutboxClaim.                                          *)
EXTENDS OutboxClaim

CONSTANTS t1, t2, t3, x1, x2, x3, b1, b2

OneBase == [t \in Task |-> b1]
TwoBases == [t \in Task |-> IF t = t3 THEN b2 ELSE b1]

Batches == [x \in Claimer |-> "batch"]
BatchAndById == [x \in Claimer |-> IF x = x1 THEN "batch" ELSE "byId"]
OneOfEach == [x \in Claimer |->
                CASE x = x1 -> "batch" [] x = x2 -> "byId" [] x = x3 -> "takeover"]
=============================================================================
