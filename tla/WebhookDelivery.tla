--------------------------- MODULE WebhookDelivery ---------------------------
(***************************************************************************)
(* Outgoing webhooks (features/webhook-delivery): an event becomes one     *)
(* delivery row per endpoint that wants it, and every few seconds a job    *)
(* reads the rows that are due, posts them one after the other and writes  *)
(* each row back.  Nothing claims a row: a round that takes longer than    *)
(* the period overlaps with the next one, and each writes the whole row    *)
(* from what it read before it posted.                                     *)
(*                                                                         *)
(* Payloads, signatures and the event filter are left out: Endpoints are   *)
(* those that accept the event.  Backoff is a delay of any length.         *)
(***************************************************************************)
EXTENDS WebhookState

CONSTANTS
  Endpoints,
  Rounds,       \* executions of the dispatch job that may overlap
  MaxEvents,    \* bound: record events
  MaxFaults     \* bound: crashes of a round, endpoints switched off

VARIABLES
  enabled,   \* endpoints that are switched on
  toEnqueue, \* endpoints that enqueueEvent has not reached
  round,     \* what each round read and has to do
  events, faults

vars == <<delivery, enabled, toEnqueue, round, posts, refused, events, faults>>

Absent == [status |-> "none", attempt |-> 0, due |-> FALSE]
Resting == [todo |-> {}, posting |-> FALSE, answer |-> "none"]

Init ==
  /\ delivery = [d \in DeliveryIds |-> Absent]
  /\ enabled = Endpoints /\ toEnqueue = {}
  /\ round = [r \in Rounds |-> Resting]
  /\ posts = [d \in DeliveryIds |-> 0] /\ refused = {}
  /\ events = 0 /\ faults = 0

Fault == faults < MaxFaults /\ faults' = faults + 1

FreeId == CHOOSE d \in DeliveryIds : delivery[d] = Absent
Room == \E d \in DeliveryIds : delivery[d] = Absent
NewDelivery == [status |-> "pending", attempt |-> 0, due |-> TRUE]

---------------------------------------------------------------------------
(* producers                                                               *)

\* the listener; events while another one is being spread are not modelled
EnqueueEvent ==
  /\ toEnqueue = {} /\ events < MaxEvents
  /\ events' = events + 1
  /\ toEnqueue' = enabled
  /\ UNCHANGED <<delivery, enabled, round, posts, refused, faults>>

\* the next endpoint of the list: one that was switched off since throws, and
\* the endpoints after it get nothing
Enqueue(e) ==
  /\ e \in toEnqueue /\ Room
  /\ IF e \in enabled
     THEN /\ delivery' = [delivery EXCEPT ![FreeId] = NewDelivery]
          /\ toEnqueue' = toEnqueue \ {e}
     ELSE toEnqueue' = {} /\ UNCHANGED delivery
  /\ UNCHANGED <<enabled, round, posts, refused, events, faults>>

SwitchOff(e) ==
  /\ e \in enabled /\ Fault
  /\ enabled' = enabled \ {e}
  /\ UNCHANGED <<delivery, toEnqueue, round, posts, refused, events>>

\* retry: the dead row stays, a new one starts from nothing
Retry(d) ==
  /\ delivery[d].status = "dead" /\ Room
  /\ delivery' = [delivery EXCEPT ![FreeId] = NewDelivery]
  /\ UNCHANGED <<enabled, toEnqueue, round, posts, refused, events, faults>>

---------------------------------------------------------------------------
(* a round of the processor                                                *)

\* nextAttemptAt is reached
FallDue(d) ==
  /\ delivery[d].status = "pending" /\ ~delivery[d].due
  /\ delivery' = [delivery EXCEPT ![d].due = TRUE]
  /\ UNCHANGED <<enabled, toEnqueue, round, posts, refused, events, faults>>

PickDue == {d \in DeliveryIds : delivery[d].status = "pending" /\ delivery[d].due}

ListDue(r) ==
  /\ round[r] = Resting /\ PickDue # {}
  /\ round' = [round EXCEPT ![r].todo = {[id |-> d, attempt |-> delivery[d].attempt] :
                                         d \in PickDue}]
  /\ UNCHANGED <<delivery, enabled, toEnqueue, posts, refused, events, faults>>

\* the next row of the list, in the order in which the database gave them
First(todo) == CHOOSE t \in todo : \A u \in todo : t.id <= u.id
Current(r) == First(round[r].todo)

Counted(n) == IF n < MaxPosts THEN n + 1 ELSE n

\* the post, and what the endpoint made of it: statusCode 2xx, one worth a retry
\* (none at all, 408, 429, 5xx) or any other
Post(r, answer) ==
  /\ round[r].todo # {} /\ ~round[r].posting
  /\ LET d == Current(r).id
     IN  /\ posts' = [posts EXCEPT ![d] = Counted(@)]
         /\ refused' = IF answer = "refused" THEN refused \cup {d} ELSE refused
  /\ round' = [round EXCEPT ![r].posting = TRUE, ![r].answer = answer]
  /\ UNCHANGED <<delivery, enabled, toEnqueue, events, faults>>

\* Mutant of AttemptNo: an attempt does not count.
Uncounted(attempt) == attempt

AttemptNo(attempt) == attempt + 1

\* Mutant of IsLast: one attempt less.
LastButOne(attempt) == attempt + 1 >= MaxPosts

IsLast(attempt) == attempt >= MaxPosts

DecideNextStatus(answer, attempt) ==
  IF answer = "ok" THEN "delivered"
  ELSE IF IsLast(attempt) \/ answer = "refused" THEN "dead"
  ELSE "pending"

\* the update by id, of the whole row
Record(r) ==
  /\ round[r].posting
  /\ LET t == Current(r)
         attempt == AttemptNo(t.attempt)
     IN  /\ delivery' = [delivery EXCEPT ![t.id] =
              [status |-> DecideNextStatus(round[r].answer, attempt),
               attempt |-> attempt, due |-> FALSE]]
         /\ round' = [round EXCEPT ![r].todo = @ \ {t}, ![r].posting = FALSE,
                                  ![r].answer = "none"]
  /\ UNCHANGED <<enabled, toEnqueue, posts, refused, events, faults>>

\* the process stops, or the update throws: the row stays as it was
Stop(r) ==
  /\ round[r] # Resting /\ Fault
  /\ round' = [round EXCEPT ![r] = Resting]
  /\ UNCHANGED <<delivery, enabled, toEnqueue, posts, refused, events>>

Answers == {"ok", "retriable", "refused"}
PostSome(r) == \E answer \in Answers : Post(r, answer)

Next ==
  \/ EnqueueEvent
  \/ \E e \in Endpoints : Enqueue(e) \/ SwitchOff(e)
  \/ \E d \in DeliveryIds : Retry(d) \/ FallDue(d)
  \/ \E r \in Rounds : ListDue(r) \/ PostSome(r) \/ Record(r) \/ Stop(r)

Spec == Init /\ [][Next]_vars

\* the job repeats, a round goes on, and the backoff ends
Fairness ==
  /\ \A d \in DeliveryIds : WF_vars(FallDue(d))
  /\ \A r \in Rounds : WF_vars(ListDue(r)) /\ WF_vars(PostSome(r) \/ Record(r))

FairSpec == Spec /\ Fairness

---------------------------------------------------------------------------
(* properties                                                              *)

TypeOK ==
  /\ delivery \in [DeliveryIds -> [status : {"none", "pending", "delivered", "dead"},
                           attempt : 0 .. MaxPosts, due : BOOLEAN]]
  /\ enabled \subseteq Endpoints /\ toEnqueue \subseteq Endpoints
  /\ \A r \in Rounds : round[r].answer \in Answers \cup {"none"}

\* The attempts of a row come to an end although rounds that overlap set its count
\* back: once a row is delivered or dead for good no round posts it any more.
DeliveriesEnd == <>[](\A d \in DeliveryIds : delivery[d].status # "pending")
=============================================================================
