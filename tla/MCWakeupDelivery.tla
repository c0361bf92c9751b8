-------------------------- MODULE MCWakeupDelivery --------------------------
(* Small instances of WakeupDelivery in one run, chosen by the initial state: *)
(* two slots, one slot and a fault, or one slot and two tasks.                *)
EXTENDS WakeupDelivery

CONSTANTS p1, h1, h2, t1, t2

OneProcess == [h \in Handlers |-> p1]

VARIABLE scene

SceneInit == Init /\ scene \in {"slots", "faults", "tasks"}

SceneNext ==
    /\ Next
    /\ UNCHANGED scene
    /\ scene = "slots" => faults' = 0
    /\ scene # "slots" => handler'[h2] = Resting
    /\ scene = "tasks" => faults' = 0 /\ pauses' = 0
    /\ scene # "tasks" => row'[t2].status = "none" /\ t2 \notin redrive'[p1].todo

SceneSpec == SceneInit /\ [][SceneNext]_<<vars, scene>> /\ Fairness
=============================================================================
