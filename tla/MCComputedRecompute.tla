------------------------ MODULE MCComputedRecompute ------------------------
(* Small instances of ComputedRecompute.                                     *)
EXTENDS ComputedRecompute, FiniteSetsExt, TLC

CONSTANTS s1, s2, c1, c2, u1, u2, w1, w2, tblS, tblC, tblD

\* A roll-up: the sum of what is read, within Value.
Total(c, reading) ==
    LET total == FoldSet(LAMBDA d, n : reading[d] + n, 0, DOMAIN reading)
    IN  IF total \in Value THEN total ELSE 0

AllZero == [r \in Record |-> 0]

OneShard == [r \in Record |-> 0]

\* Writes to the head of the chain only.
HeadWrites == {{s1}}

SingleWrites == {{s} : s \in Source}

\* Chain: c1 reads s1, c2 reads c1 and s2.
ChainDeps == [c \in Computed |-> IF c = c1 THEN {s1} ELSE {c1, s2}]
ChainLevel == [r \in Record |-> CASE r = c1 -> 1 [] r = c2 -> 2 [] OTHER -> 0]
ChainDown == [r \in Record |-> CASE r = s1 -> {c1, c2}
                                [] r \in {c1, s2} -> {c2}
                                [] OTHER -> {}]

\* c2 in the table of the sources: the default policy computes it in
\* the user's transaction, before c1.
BackTables == [r \in Record |-> IF r = c1 THEN tblC ELSE tblS]

\* Fan: c1 reads s1 and s2, c2 reads s1.
FanDeps == [c \in Computed |-> IF c = c1 THEN {s1, s2} ELSE {s1}]
FanLevel == [r \in Record |-> IF r \in Computed THEN 1 ELSE 0]
FanDown == [r \in Record |-> CASE r = s1 -> {c1, c2} [] r = s2 -> {c1} [] OTHER -> {}]
FanTables == [r \in Record |-> IF r \in Computed THEN tblC ELSE tblS]
=============================================================================
