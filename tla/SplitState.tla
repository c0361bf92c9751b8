----------------------------- MODULE SplitState -----------------------------
(* The rows of the outbox that the parts of large tasks are in, and what     *)
(* must hold of them; TaskSplit has the steps.                               *)
EXTENDS Integers, FiniteSets

CONSTANT Slots  \* ids of rows

VARIABLES
  rows,    \* the rows of the outbox
  stale,   \* records whose computed cells are not up to date
  given    \* records of tasks in the dead-letter table

\* A record that is not up to date is in a row of the outbox or in the dead
\* letters, however often a split is interrupted, repeated or taken over.
SplitKeepsRecords ==
  \A r \in stale : r \in given \/ \E s \in Slots : r \in rows[s].seeds
=============================================================================
