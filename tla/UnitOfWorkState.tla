-------------------------- MODULE UnitOfWorkState ---------------------------
(* The calls of the unit of work, their transactions and their hooks, and    *)
(* what must hold of them; UnitOfWork has the steps.                         *)
EXTENDS Integers, Sequences

VARIABLES
  single,   \* usesSinglePhysicalDatabase
  call,     \* the outer call (data) and the nested one (meta)
  txs,      \* the transactions of the database: what they wrote, how they ended
  objects,  \* the PostgresUnitOfWorkTransaction objects
  hooks,    \* the hooks registered: their kind and the transaction they ran in
  ran       \* the hooks that ran

Object(s) == objects[call[s].object]
TxOf(s) == Object(s).tx

\* An afterCommit hook runs only when the attempt it was registered in has
\* committed, an afterRollback hook only when it has not, whenever they are
\* registered and whatever attempts came after it (the outbox publishes its
\* wake-ups from such hooks).
HooksFollowTheirAttempt ==
  \A h \in ran :
    (hooks[h].kind = "after") <=> (txs[hooks[h].tx].end = "committed")

HookThrew(tx) == \E o \in 1 .. Len(objects) : objects[o].tx = tx /\ objects[o].state = "committing"
Committed == {tx \in 1 .. Len(txs) : txs[tx].end = "committed"}

\* In one physical database the result of withTransaction tells what happened:
\* ok means that one attempt committed the writes of both scopes and all its
\* hooks ran; an error means that nothing was committed, unless a hook threw.
ResultTellsWhatHappened ==
  single /\ call["data"].at = "returned" =>
    IF call["data"].result = "ok"
    THEN /\ Committed = {TxOf("data")}
         /\ \A h \in 1 .. Len(hooks) :
              hooks[h].kind = "after" /\ hooks[h].tx = TxOf("data") => h \in ran
    ELSE \A tx \in Committed : HookThrew(tx)
=============================================================================
