----------------------------- MODULE WorkQueue -----------------------------
(***************************************************************************)
(* What an outbox promises its writers, and nothing about how: work that   *)
(* was accepted is queued, in the hands of some run, or in the dead        *)
(* letter, until a run that has it in hand finishes it.  Asking again for  *)
(* work that is already queued adds nothing.  Asking again for work that a *)
(* run has in hand queues it again: the run may have read before the       *)
(* request was made.                                                       *)
(***************************************************************************)
CONSTANTS
    Work,   \* the units of work
    Run     \* those who may have work in hand

VARIABLES
    queued,   \* waiting to be taken
    running,  \* Run -> what it has in hand
    dead      \* given up, kept for an operator

vars == <<queued, running, dead>>

Init ==
    /\ queued = {}
    /\ running = [r \in Run |-> {}]
    /\ dead = {}

Submit(S) ==
    /\ queued' = queued \cup S
    /\ UNCHANGED <<running, dead>>

\* Run r takes S from the queue and from other runs.  What was queued or in
\* hand more than once may stay there.
Take(r, S) ==
    /\ running'[r] = running[r] \cup S
    /\ queued \ S \subseteq queued' /\ queued' \subseteq queued
    /\ DOMAIN running' = Run
    /\ \A q \in Run \ {r} :
          running[q] \ S \subseteq running'[q] /\ running'[q] \subseteq running[q]
    /\ UNCHANGED dead

\* Run r has no longer S in hand.
LetGo(r, S) == running' = [running EXCEPT ![r] = @ \ S]

Finish(r, S) ==
    /\ LetGo(r, S)
    /\ UNCHANGED <<queued, dead>>

GiveBack(r, S) ==
    /\ LetGo(r, S)
    /\ queued' = queued \cup S
    /\ UNCHANGED dead

Bury(r, S) ==
    /\ LetGo(r, S)
    /\ dead' = dead \cup S
    /\ UNCHANGED queued

InHand == UNION {running[r] : r \in Run}

Next ==
    \/ \E S \in SUBSET Work : Submit(S)
    \/ \E r \in Run :
          \/ \E S \in SUBSET (queued \cup InHand) : Take(r, S)
          \/ \E S \in SUBSET running[r] :
                Finish(r, S) \/ GiveBack(r, S) \/ Bury(r, S)

Spec == Init /\ [][Next]_vars
=============================================================================
