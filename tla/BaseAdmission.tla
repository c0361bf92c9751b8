---------------------------- MODULE BaseAdmission ----------------------------
(***************************************************************************)
(* Admission of wake-up handlers to one base                               *)
(* (computed-outbox-base-admission.service.ts): a permit is a member of a  *)
(* sorted set of Redis with an expiry; its holder renews it, and believes  *)
(* to hold it until an instant of its own clock that it takes before it    *)
(* asks.  Scripts run some time after they are sent and answer some time   *)
(* after they ran; the two clocks run at the same rate.                    *)
(*                                                                         *)
(* Instants are kept as the time left, so Tick counts all of them down.    *)
(***************************************************************************)
EXTENDS AdmissionState

CONSTANT Lease  \* LEASE_MS, in ticks

vars == <<permit, at, active, lost, renewal, sent>>

Init ==
  /\ permit = [o \in Owners |-> 0]
  /\ at = [o \in Owners |-> "idle"]
  /\ active = [o \in Owners |-> 0]
  /\ lost = [o \in Owners |-> FALSE]
  /\ renewal = [o \in Owners |-> "none"]
  /\ sent = [o \in Owners |-> 0]

Held == {o \in Owners : permit[o] > 0}

\* activeUntil counts from the instant before the script is sent
Ask(o) ==
  /\ at[o] = "idle"
  /\ at' = [at EXCEPT ![o] = "asking"]
  /\ active' = [active EXCEPT ![o] = Lease]
  /\ lost' = [lost EXCEPT ![o] = FALSE]
  /\ UNCHANGED <<permit, renewal, sent>>

\* Mutant of Fits: one too many.
FitsOneMore == Cardinality(Held) <= Capacity

Fits == Cardinality(Held) < Capacity

\* ACQUIRE_SCRIPT: members whose time has come are removed before it counts
Acquire(o) ==
  /\ at[o] = "asking"
  /\ IF Fits
     THEN /\ permit' = [permit EXCEPT ![o] = Lease]
          /\ at' = [at EXCEPT ![o] = "granted"]
     ELSE /\ at' = [at EXCEPT ![o] = "idle"]
          /\ UNCHANGED permit
  /\ UNCHANGED <<active, lost, renewal, sent>>

\* the answer arrives, or the call throws and the permit stays until it expires
Granted(o) ==
  /\ at[o] = "granted"
  /\ at' = [at EXCEPT ![o] = "inside"]
  /\ UNCHANGED <<permit, active, lost, renewal, sent>>

AnswerLost(o) ==
  /\ at[o] = "granted"
  /\ at' = [at EXCEPT ![o] = "gone"]
  /\ UNCHANGED <<permit, active, lost, renewal, sent>>

SendRenewal(o) ==
  /\ at[o] = "inside" /\ ~lost[o] /\ renewal[o] = "none"
  /\ renewal' = [renewal EXCEPT ![o] = "sent"]
  /\ sent' = [sent EXCEPT ![o] = Lease]
  /\ UNCHANGED <<permit, at, active, lost>>

\* RENEW_SCRIPT
Renew(o) ==
  /\ renewal[o] = "sent"
  /\ renewal' = [renewal EXCEPT ![o] = IF permit[o] > 0 THEN "renewed" ELSE "refused"]
  /\ permit' = [permit EXCEPT ![o] = IF @ > 0 THEN Lease ELSE 0]
  /\ UNCHANGED <<at, active, lost, sent>>

\* Mutant of ActiveAfter: the lease counts from the instant of the answer.
ActiveFromAnswer(o) == Lease

ActiveAfter(o) == sent[o]

RenewalAnswered(o) ==
  /\ at[o] = "inside" /\ renewal[o] \in {"renewed", "refused"}
  /\ renewal' = [renewal EXCEPT ![o] = "none"]
  /\ sent' = [sent EXCEPT ![o] = 0]
  /\ IF renewal[o] = "renewed"
     THEN /\ active' = [active EXCEPT ![o] = ActiveAfter(o)]
          /\ UNCHANGED lost
     ELSE /\ lost' = [lost EXCEPT ![o] = TRUE]
          /\ UNCHANGED active
  /\ UNCHANGED <<permit, at>>

\* no answer within RENEW_TIMEOUT_MS, or an error; the script may yet run
RenewalFails(o) ==
  /\ at[o] = "inside" /\ renewal[o] # "none" /\ ~lost[o]
  /\ lost' = [lost EXCEPT ![o] = TRUE]
  /\ UNCHANGED <<permit, at, active, renewal, sent>>

\* the operation ended or threw: RELEASE_SCRIPT, which may fail
Leave(o) ==
  /\ at[o] = "inside"
  /\ renewal[o] = "none" \/ lost[o]
  /\ at' = [at EXCEPT ![o] = "gone"]
  /\ permit' \in {permit, [permit EXCEPT ![o] = 0]}
  /\ UNCHANGED <<active, lost, renewal, sent>>

\* the process is killed: nothing is released
Killed(o) ==
  /\ at[o] \in {"asking", "granted", "inside"}
  /\ at' = [at EXCEPT ![o] = "gone"]
  /\ UNCHANGED <<permit, active, lost, renewal, sent>>

\* an owner is a fresh UUID: another one takes the slot when nothing is left
\* of this one
Forget(o) ==
  /\ at[o] = "gone" /\ permit[o] = 0 /\ renewal[o] # "sent"
  /\ at' = [at EXCEPT ![o] = "idle"]
  /\ renewal' = [renewal EXCEPT ![o] = "none"]
  /\ sent' = [sent EXCEPT ![o] = 0]
  /\ active' = [active EXCEPT ![o] = 0]
  /\ lost' = [lost EXCEPT ![o] = FALSE]
  /\ UNCHANGED permit

Less(n) == IF n = 0 THEN 0 ELSE n - 1

Tick ==
  /\ permit' = [o \in Owners |-> Less(permit[o])]
  /\ active' = [o \in Owners |-> Less(active[o])]
  /\ sent' = [o \in Owners |-> Less(sent[o])]
  /\ UNCHANGED <<at, lost, renewal>>

OwnerStep(o) ==
  \/ Ask(o) \/ Acquire(o) \/ Granted(o) \/ AnswerLost(o)
  \/ SendRenewal(o) \/ Renew(o) \/ RenewalAnswered(o) \/ RenewalFails(o)
  \/ Leave(o) \/ Killed(o) \/ Forget(o)

Next == Tick \/ \E o \in Owners : OwnerStep(o)

Spec == Init /\ [][Next]_vars

---------------------------------------------------------------------------
\* Types of the permits and of the owners.
TypeOK ==
  /\ permit \in [Owners -> 0 .. Lease]
  /\ at \in [Owners -> {"idle", "asking", "granted", "inside", "gone"}]
  /\ active \in [Owners -> 0 .. Lease]
  /\ lost \in [Owners -> BOOLEAN]
  /\ renewal \in [Owners -> {"none", "sent", "renewed", "refused"}]
  /\ sent \in [Owners -> 0 .. Lease]

=============================================================================
