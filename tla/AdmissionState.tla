--------------------------- MODULE AdmissionState ---------------------------
(* The permits of a base in Redis and what their owners believe of them, and *)
(* what must hold between the two; BaseAdmission has the steps.              *)
EXTENDS Integers, FiniteSets

CONSTANTS
  Owners,   \* runs of runWithPermit
  Capacity  \* ADMISSION_CAPACITY

VARIABLES
  permit,  \* time left of the permit of each owner in Redis; 0: it has none
  at,      \* what the owner does
  active,  \* time left until activeUntil, by the owner's clock
  lost,    \* leaseLost
  renewal, \* the renewal in flight
  sent     \* time left of a lease that began when the renewal was sent

\* assertActive passes
Active(o) == at[o] = "inside" /\ ~lost[o] /\ active[o] > 0

\* What an owner believes of its permit never outlives the permit in Redis,
\* however late the scripts run and their answers arrive.
BeliefOutlived ==
  \A o \in Owners :
    /\ at[o] \in {"granted", "inside"} /\ ~lost[o] => active[o] <= permit[o]
    /\ renewal[o] = "renewed" /\ at[o] = "inside" /\ ~lost[o] => sent[o] <= permit[o]

\* No more handlers than the capacity pass assertActive at any instant.
CapacityKept == Cardinality({o \in Owners : Active(o)}) <= Capacity
=============================================================================
