---------------------------- MODULE UndoRedoStore ----------------------------
(***************************************************************************)
(* The undo/redo store over a key-value cache (KeyvUndoRedoStore.ts): one  *)
(* key holds the ids of the entries of a window and the cursor, one more   *)
(* key each entry.  A request reads them and then writes key by key; it    *)
(* may be interrupted between two writes (the cache throws, the process is *)
(* killed).  An older format keeps all in the first key.                   *)
(*                                                                         *)
(* Requests of one window come one after the other and no key expires      *)
(* while it is in use: the store reads and writes without a lock, and      *)
(* entries expire by themselves, the oldest first.                         *)
(***************************************************************************)
EXTENDS Integers, Sequences

CONSTANTS Groups, NoGroup, MaxEntries, MaxAppends, MaxFound

VARIABLES
  meta,     \* the value of the scope key
  kept,     \* the entry keys
  todo,     \* the writes the request has yet to make
  answer,   \* what the last undo or redo returned
  appended

vars == <<meta, kept, todo, answer, appended>>

Ids == 1 .. MaxAppends
Missing == [n |-> 0, group |-> NoGroup]

\* a window without a stack, or one an older version left behind
Init ==
  /\ appended \in 0 .. MaxFound
  /\ \E es \in [1 .. appended -> [n : 1 .. MaxFound, group : Groups \cup {NoGroup}]] :
       \E c \in 0 .. appended :
         /\ \A i \in 1 .. appended : es[i].n = i
         /\ meta = [format |-> "inline", entries |-> es, ids |-> <<>>, cursor |-> c,
                    next |-> 1]
  /\ kept = [id \in Ids |-> Missing]
  /\ todo = <<>> /\ answer = <<>>

Least(a, b) == IF a < b THEN a ELSE b
Most(a, b) == IF a > b THEN a ELSE b

\* loadState: entries that are gone are skipped
Loaded ==
  IF meta.format = "split"
  THEN LET found == SelectSeq(meta.ids, LAMBDA id : kept[id] # Missing)
       IN  [ids |-> found, entries |-> [i \in 1 .. Len(found) |-> kept[found[i]]],
            cursor |-> Least(meta.cursor, Len(found)),
            next |-> Most(meta.next, Len(found) + 1)]
  ELSE [ids |-> [i \in 1 .. Len(meta.entries) |-> i], entries |-> meta.entries,
        cursor |-> meta.cursor, next |-> Len(meta.entries) + 1]

Stack == INSTANCE UndoStack WITH entries <- Loaded.entries, cursor <- Loaded.cursor

\* the writes a request makes
Deletes(ids) == [i \in 1 .. Len(ids) |-> [do |-> "delete", id |-> ids[i]]]
Sets(ids, es) == [i \in 1 .. Len(ids) |-> [do |-> "set", id |-> ids[i], entry |-> es[i]]]
PersistMeta(ids, cursor, next, result, recorded) ==
  <<[do |-> "meta", result |-> result, recorded |-> recorded,
     value |-> [format |-> "split", entries |-> <<>>, ids |-> ids, cursor |-> cursor,
                next |-> next]]>>

\* Mutant of BeforeCursor: the undone entries stay.
AllOf(s, c) == s

BeforeCursor(s, c) == SubSeq(s, 1, c)
Dropped(ids) == SubSeq(ids, 1, Len(ids) - MaxEntries)
Limited(s) == SubSeq(s, Most(1, Len(s) - MaxEntries + 1), Len(s))

Requests == appended < MaxAppends /\ todo = <<>>

\* appendSplitEntry: reads the scope key only
AppendSplit(g) ==
  /\ Requests /\ meta.format = "split"
  /\ LET ids == Append(BeforeCursor(meta.ids, meta.cursor), meta.next)
         entry == [n |-> appended + 1, group |-> g]
     IN  todo' = Deletes(SubSeq(meta.ids, meta.cursor + 1, Len(meta.ids)))
                 \o Deletes(Dropped(ids))
                 \o Sets(<<meta.next>>, <<entry>>)
                 \o PersistMeta(Limited(ids), Len(Limited(ids)), meta.next + 1, <<>>, 1)
  /\ UNCHANGED <<meta, kept, answer, appended>>

\* append to a stack in the older format, or to none
AppendInline(g) ==
  /\ Requests /\ meta.format = "inline"
  /\ LET s == Loaded
         next == s.next
         ids == Limited(Append(BeforeCursor(s.ids, s.cursor), next))
         es == Limited(Append(BeforeCursor(s.entries, s.cursor),
                              [n |-> appended + 1, group |-> g]))
     IN  todo' = Sets(ids, es) \o PersistMeta(ids, Len(ids), next + 1, <<>>, 1)
  /\ UNCHANGED <<meta, kept, answer, appended>>

\* persistAfterCursorChange
MoveCursor(s, cursor, result) ==
  /\ todo' = (IF meta.format = "inline" THEN Sets(s.ids, s.entries) ELSE <<>>)
             \o PersistMeta(s.ids, cursor, s.next, result, 0)
  /\ UNCHANGED <<meta, kept, answer, appended>>

Undo ==
  /\ todo = <<>>
  /\ LET s == Loaded
         start == Stack!GroupStart(s.entries, s.cursor)
     IN  /\ s.cursor > 0
         /\ MoveCursor(s, start - 1, SubSeq(s.entries, start, s.cursor))

Redo ==
  /\ todo = <<>>
  /\ LET s == Loaded
         end == Stack!GroupEnd(s.entries, s.cursor)
     IN  /\ s.cursor < Len(s.entries)
         /\ MoveCursor(s, end, SubSeq(s.entries, s.cursor + 1, end))

\* one write of the request
WriteKey ==
  /\ todo # <<>>
  /\ todo' = Tail(todo)
  /\ LET w == Head(todo)
     IN  CASE w.do = "delete" -> /\ kept' = [kept EXCEPT ![w.id] = Missing]
                                 /\ UNCHANGED <<meta, answer, appended>>
           [] w.do = "set" -> /\ kept' = [kept EXCEPT ![w.id] = w.entry]
                              /\ UNCHANGED <<meta, answer, appended>>
           [] w.do = "meta" -> /\ meta' = w.value
                               /\ answer' = w.result
                               /\ appended' = appended + w.recorded
                               /\ UNCHANGED kept

Interrupt ==
  /\ todo # <<>>
  /\ todo' = <<>>
  /\ UNCHANGED <<meta, kept, answer, appended>>

Next ==
  \/ \E g \in Groups \cup {NoGroup} : AppendSplit(g) \/ AppendInline(g)
  \/ Undo \/ Redo \/ WriteKey \/ Interrupt

Spec == Init /\ [][Next]_vars

---------------------------------------------------------------------------
\* The store implements the stack: an undo returns the entries applied last and
\* a redo the ones undone last, in the order in which they were appended, and an
\* interruption between two writes loses at most undone entries or the oldest.
KeepsTheStack == Stack!Spec
=============================================================================
