------------------------- MODULE MCOutboxAndActivity -------------------------
(* The outbox and its activity side by side in one run: an initial state     *)
(* chooses the subject, and only the subject moves; the others stay as they  *)
(* begin.                                                                    *)
(*   "outbox"    the outbox                                                  *)
(*   "activity"  its activity, with merges and faults                        *)
(*   "again"     its activity, with transactions that enqueue twice          *)

EXTENDS MCComputedOutbox, ActivityState

VARIABLE subject

CONSTANTS u1, w1, w2, reader

Activity == INSTANCE ComputedActivity WITH
    Plans <- {{2}, {1, 2}}, PerTransaction <- 1, MaxMerges <- 1, MaxFaults <- 1

Again == INSTANCE ComputedActivity WITH
    Plans <- {{2}, {1, 2}}, PerTransaction <- 2, MaxMerges <- 0, MaxFaults <- 0,
    Tasks <- {1, 2, 3}

AnyInit ==
    /\ Init
    /\ \/ subject \in {"outbox", "activity"} /\ Activity!Init
       \/ subject = "again" /\ Again!Init

AnyNext ==
    \/ subject = "outbox" /\ Next /\ UNCHANGED <<subject, activityVars>>
    \/ subject = "activity" /\ Activity!Next /\ UNCHANGED <<subject, vars>>
    \/ subject = "again" /\ Again!Next /\ UNCHANGED <<subject, vars>>

AnySpec == AnyInit /\ [][AnyNext]_<<subject, vars, activityVars>>
=============================================================================
