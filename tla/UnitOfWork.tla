----------------------------- MODULE UnitOfWork -----------------------------
(***************************************************************************)
(* The unit of work (unitOfWork.ts): one call of withTransaction in the    *)
(* data scope whose work opens a nested one in the meta scope, with their  *)
(* attempts, the hooks registered on the transaction objects, and the      *)
(* result each call returns.                                               *)
(*                                                                         *)
(* When both scopes live in one physical database the nested call joins    *)
(* the transaction; otherwise it runs one of its own, with its own         *)
(* attempts.  The work decides whether it fails when a nested call failed. *)
(***************************************************************************)
EXTENDS UnitOfWorkState

CONSTANTS
  MaxRetries,  \* maxRetries
  MaxHooks,    \* bound: hooks registered
  MaxTrouble   \* bound: works that fail, failed commits, hooks that throw

VARIABLE trouble

vars == <<single, call, txs, objects, hooks, ran, trouble>>

Scopes == {"data", "meta"}
NoCall == [at |-> "none", attempt |-> 0, object |-> 0, result |-> "none"]

Init ==
  /\ single \in BOOLEAN
  /\ call = [s \in Scopes |-> NoCall]
  /\ txs = <<>> /\ objects = <<>> /\ hooks = <<>>
  /\ ran = {}
  /\ trouble = 0

Trouble == trouble < MaxTrouble /\ trouble' = trouble + 1
Goes(s, at) == call' = [call EXCEPT ![s].at = at]
Returns(s, result) ==
  call' = [call EXCEPT ![s].at = "returned", ![s].result = result]

\* The call whose work runs: the nested one while there is one.
Running(s) ==
  /\ call[s].at = "work"
  /\ s = "data" => call["meta"].at \in {"none", "returned"}

---------------------------------------------------------------------------
(* attempts                                                                *)

\* Mutant of FreshObject: one object for all attempts of a call.
OneObject(s) == IF call[s].object = 0 THEN Len(objects) + 1 ELSE call[s].object

FreshObject(s) == Len(objects) + 1

\* executeWithRetries: a transaction and an object for it; a nested call of an
\* attempt that is given up goes with it
Attempt(s, n, before) ==
  LET o == FreshObject(s)
      tx == Len(txs) + 1
  IN  /\ txs' = Append(before, [wrote |-> {}, end |-> "open"])
      /\ objects' = IF o > Len(objects)
                    THEN Append(objects, [tx |-> tx, state |-> "pending",
                                          after |-> <<>>, back |-> <<>>])
                    ELSE [objects EXCEPT ![o].tx = tx]
      /\ call' = [c \in Scopes |->
           IF c = s THEN [at |-> "work", attempt |-> n, object |-> o, result |-> "none"]
           ELSE IF s = "data" THEN NoCall ELSE call[c]]

Begin ==
  /\ call["data"].at = "none"
  /\ Attempt("data", 0, txs)
  /\ UNCHANGED <<single, hooks, ran, trouble>>

\* Mutant of Joins: the sibling scope always opens its own.
JoinsNever == FALSE

Joins == single

\* the nested call: reuseSiblingScopeTransaction, or attempts of its own
Nest ==
  /\ Running("data") /\ "data" \in txs[TxOf("data")].wrote
  /\ IF Joins
     THEN /\ txs' = [txs EXCEPT ![TxOf("data")].wrote = @ \cup {"meta"}]
          /\ UNCHANGED <<call, objects>>
     ELSE call["meta"].at = "none" /\ Attempt("meta", 0, txs)
  /\ UNCHANGED <<single, hooks, ran, trouble>>

Write(s) ==
  /\ Running(s)
  /\ txs' = [txs EXCEPT ![TxOf(s)].wrote = @ \cup {s}]
  /\ UNCHANGED <<single, call, objects, hooks, ran, trouble>>

---------------------------------------------------------------------------
(* hooks                                                                   *)

\* afterCommit
TakesAfter(o) == objects[o].state \in {"pending", "committing"}
AfterCommit(o) ==
  /\ Len(hooks) < MaxHooks
  /\ hooks' = Append(hooks, [kind |-> "after", tx |-> objects[o].tx])
  /\ LET h == Len(hooks) + 1
     IN  /\ objects' = IF TakesAfter(o) THEN [objects EXCEPT ![o].after = Append(@, h)]
                       ELSE objects
         /\ ran' = IF objects[o].state = "committed" THEN ran \cup {h} ELSE ran
  /\ UNCHANGED <<single, call, txs, trouble>>

\* afterRollback
AfterRollback(o) ==
  /\ Len(hooks) < MaxHooks
  /\ hooks' = Append(hooks, [kind |-> "back", tx |-> objects[o].tx])
  /\ LET h == Len(hooks) + 1
     IN  /\ objects' = IF objects[o].state \in {"pending", "rollingBack"}
                       THEN [objects EXCEPT ![o].back = Append(@, h)] ELSE objects
         /\ ran' = IF objects[o].state = "rolledBack" THEN ran \cup {h} ELSE ran
  /\ UNCHANGED <<single, call, txs, trouble>>

\* runAfterCommitHandlers and runAfterRollbackHandlers: one hook at a time, the
\* ones they register included
RunHook(s) ==
  LET o == call[s].object
      queue == IF call[s].at = "after" THEN objects[o].after ELSE objects[o].back
  IN  /\ call[s].at \in {"after", "back"} /\ queue # <<>>
      /\ ran' = ran \cup {Head(queue)}
      /\ objects' = IF call[s].at = "after"
                    THEN [objects EXCEPT ![o].after = Tail(@)]
                    ELSE [objects EXCEPT ![o].back = Tail(@)]
      /\ UNCHANGED <<single, txs, hooks>>
      /\ \/ UNCHANGED <<call, trouble>>
         \/ \* it throws: runAfterRollbackHandlers returns at once, the call fails
            Trouble /\ Returns(s, "err")

HooksEnd(s) ==
  LET o == call[s].object
  IN  /\ call[s].at \in {"after", "back"}
      /\ IF call[s].at = "after"
         THEN /\ objects[o].after = <<>>
              /\ objects' = [objects EXCEPT ![o].state = "committed"]
              /\ Returns(s, "ok")
         ELSE /\ objects[o].back = <<>>
              /\ objects' = [objects EXCEPT ![o].state = "rolledBack"]
              /\ Returns(s, "err")
      /\ UNCHANGED <<single, txs, hooks, ran, trouble>>

---------------------------------------------------------------------------
(* how an attempt ends                                                     *)

Commit(s) ==
  /\ Running(s)
  /\ txs' = [txs EXCEPT ![TxOf(s)].end = "committed"]
  /\ objects' = [objects EXCEPT ![call[s].object].state =
                   IF @ = "pending" THEN "committing" ELSE @]
  /\ Goes(s, "after")
  /\ UNCHANGED <<single, hooks, ran, trouble>>

RollBack(s, end) ==
  /\ txs' = [txs EXCEPT ![TxOf(s)].end = end]
  /\ objects' = [objects EXCEPT ![call[s].object].state = "rollingBack"]
  /\ Goes(s, "back")

\* the work returned an error; a deadlock or a serialization failure is retried
WorkFails(s) ==
  /\ Running(s) /\ Trouble
  /\ RollBack(s, "aborted")
  /\ UNCHANGED <<single, hooks, ran>>

Retry(s) ==
  /\ Running(s) /\ Trouble
  /\ call[s].attempt < MaxRetries
  /\ Attempt(s, call[s].attempt + 1, [txs EXCEPT ![TxOf(s)].end = "aborted"])
  /\ UNCHANGED <<single, hooks, ran>>

\* COMMIT throws: it failed, or its answer was lost
CommitFails(s) ==
  /\ Running(s) /\ Trouble
  /\ RollBack(s, "aborted") \/ RollBack(s, "unanswered")
  /\ UNCHANGED <<single, hooks, ran>>

---------------------------------------------------------------------------
Next ==
  \/ Begin \/ Nest
  \/ \E s \in Scopes :
       \/ Write(s) \/ Commit(s) \/ WorkFails(s) \/ Retry(s) \/ CommitFails(s)
       \/ RunHook(s) \/ HooksEnd(s)
  \/ \E o \in 1 .. Len(objects) : AfterCommit(o) \/ AfterRollback(o)

Spec == Init /\ [][Next]_vars

---------------------------------------------------------------------------
\* Types of the calls, the transactions and the objects.
TypeOK ==
  /\ \A s \in Scopes :
       /\ call[s].at \in {"none", "work", "after", "back", "returned"}
       /\ call[s].attempt \in 0 .. MaxRetries
       /\ call[s].object \in 0 .. Len(objects)
  /\ \A o \in 1 .. Len(objects) :
       /\ objects[o].tx \in 1 .. Len(txs)
       /\ objects[o].state \in
            {"pending", "committing", "committed", "rollingBack", "rolledBack"}
  /\ ran \subseteq 1 .. Len(hooks)

=============================================================================
