------------------------------ MODULE UndoStack ------------------------------
(***************************************************************************)
(* What the undo/redo store of a window promises: the entries in the order *)
(* they were appended and a cursor between those applied and those undone  *)
(* (MemoryUndoRedoStore.ts), a limit on the entries kept, and, when an     *)
(* append is interrupted, the loss of undone entries or of the oldest one. *)
(***************************************************************************)
EXTENDS Integers, Sequences

CONSTANTS
  Groups,     \* group ids; NoGroup is the entry without one
  NoGroup,
  MaxEntries, \* maxEntries
  MaxAppends, \* bound: entries appended in all
  MaxFound    \* bound: entries of the stack found at the start

VARIABLES
  entries,  \* the entries kept, oldest first: their number and their group
  cursor,   \* entries before it are applied, the others undone
  answer,   \* the entries the last undo or redo returned
  appended

vars == <<entries, cursor, answer, appended>>

Init ==
  /\ appended \in 0 .. MaxFound
  /\ entries \in [1 .. appended -> [n : 1 .. MaxFound, group : Groups \cup {NoGroup}]]
  /\ \A i \in 1 .. appended : entries[i].n = i
  /\ cursor \in 0 .. appended
  /\ answer = <<>>

Same(es, i, j) == es[i].group # NoGroup /\ es[i].group = es[j].group

\* resolveUndoGroup: the run of its group that ends at the entry undone
GroupStart(es, c) ==
  CHOOSE i \in 1 .. c :
    /\ \A k \in i .. c - 1 : Same(es, k, c)
    /\ i = 1 \/ ~Same(es, i - 1, c)

\* resolveRedoGroup
GroupEnd(es, c) ==
  CHOOSE i \in c + 1 .. Len(es) :
    /\ \A k \in c + 2 .. i : Same(es, k, c + 1)
    /\ i = Len(es) \/ ~Same(es, i + 1, c + 1)

LastOf(es, n) == SubSeq(es, Len(es) - n + 1, Len(es))
Limited(es) == IF Len(es) > MaxEntries THEN LastOf(es, MaxEntries) ELSE es

Added(es, c, e) == Limited(Append(SubSeq(es, 1, c), e))

AppendEntry(g) ==
  /\ appended < MaxAppends
  /\ appended' = appended + 1
  /\ entries' = Added(entries, cursor, [n |-> appended', group |-> g])
  /\ cursor' = Len(entries')
  /\ answer' = <<>>

Undo ==
  /\ cursor > 0
  /\ cursor' = GroupStart(entries, cursor) - 1
  /\ answer' = SubSeq(entries, cursor' + 1, cursor)
  /\ UNCHANGED <<entries, appended>>

Redo ==
  /\ cursor < Len(entries)
  /\ cursor' = GroupEnd(entries, cursor)
  /\ answer' = SubSeq(entries, cursor + 1, cursor')
  /\ UNCHANGED <<entries, appended>>

Without(es, i) == SubSeq(es, 1, i - 1) \o SubSeq(es, i + 1, Len(es))

\* an interrupted append: its entry is not recorded (the next one takes its
\* number), undone entries may be gone, or the oldest if the stack was full
LoseUndone ==
  /\ \E i \in cursor + 1 .. Len(entries) : entries' = Without(entries, i)
  /\ UNCHANGED <<cursor, answer, appended>>

LoseOldest ==
  /\ Len(entries) = MaxEntries /\ cursor = MaxEntries
  /\ entries' = Tail(entries)
  /\ cursor' = cursor - 1
  /\ UNCHANGED <<answer, appended>>

Next ==
  \/ \E g \in Groups \cup {NoGroup} : AppendEntry(g)
  \/ Undo \/ Redo \/ LoseUndone \/ LoseOldest

Spec == Init /\ [][Next]_vars
=============================================================================
