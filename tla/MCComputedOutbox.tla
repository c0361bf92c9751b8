------------------------- MODULE MCComputedOutbox -------------------------
(* Small instances of ComputedOutbox: the functions that a configuration     *)
(* file cannot write.                                                        *)
EXTENDS ComputedOutbox, TLC

CONSTANTS t1, t2, t3, o1, o2, p1, p2, i1, i2, tbl1, tbl2, scope1, scope2, base1

AllComputed == [p \in Plan |-> "computed"]
AllSeed == [p \in Plan |-> "seed"]
SeedThenBackfill == [p \in Plan |-> IF p = p1 THEN "seed" ELSE "backfill"]

OneScope == [p \in Plan |-> scope1]
TwoScopes == [p \in Plan |-> IF p = p1 THEN scope1 ELSE scope2]
OneBase == [s \in Scope |-> base1]
OneTable == [i \in Item |-> tbl1]

\* Row ids and claim owners are interchangeable.
Names == Permutations(Task) \cup Permutations(Owner)

NeverPaused == [p \in Plan |-> {}]
PausedByScope == [p \in Plan |-> PauseScope]

\* One seed record at a time, as a user edits.
Singles == {[items |-> {i}, all |-> {}] : i \in Item}
\* Any non-empty set of seeds.
Seeds == {[items |-> s, all |-> {}] : s \in SUBSET Item \ {{}}}
=============================================================================
