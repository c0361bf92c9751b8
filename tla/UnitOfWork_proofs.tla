-------------------------- MODULE UnitOfWork_proofs --------------------------
(* Theorems about UnitOfWork and their proofs.                               *)
EXTENDS UnitOfWork, SequenceTheorems, TLAPS

Parameters == MaxRetries \in Nat

Ended == {"aborted", "unanswered"}

Tx == [wrote : SUBSET Scopes, end : {"open", "committed"} \cup Ended]

Obj ==
  [tx : Nat, state : {"pending", "committing", "committed", "rollingBack", "rolledBack"},
   after : Seq(Nat), back : Seq(Nat)]

Hook == [kind : {"after", "back"}, tx : Nat]

Call ==
  [at : {"none", "work", "after", "back", "returned"}, attempt : 0 .. MaxRetries,
   object : Nat, result : {"none", "ok", "err"}]

\* Types, and that object o is the one of transaction o: every attempt makes both.
Typed ==
  /\ single \in BOOLEAN
  /\ call \in [Scopes -> Call]
  /\ txs \in Seq(Tx) /\ objects \in Seq(Obj) /\ hooks \in Seq(Hook)
  /\ ran \subseteq 1 .. Len(hooks)
  /\ Len(objects) = Len(txs)
  /\ \A o \in 1 .. Len(objects) : objects[o].tx = o
  /\ \A s \in Scopes : call[s].object \in 0 .. Len(objects)
  /\ \A s \in Scopes : call[s].at = "none" <=> call[s].object = 0
  /\ \A h \in 1 .. Len(hooks) : hooks[h].tx \in 1 .. Len(txs)

---------------------------------------------------------------------------
(* Sequences                                                               *)

LEMMA SeqPut ==
  ASSUME NEW S, NEW q \in Seq(S), NEW i \in 1 .. Len(q), NEW e \in S,
         NEW p, p = [q EXCEPT ![i] = e]
  PROVE  /\ p \in Seq(S) /\ Len(p) = Len(q) /\ p[i] = e
         /\ \A j \in 1 .. Len(q) : j # i => p[j] = q[j]
BY ExceptSeq

LEMMA SeqAdd ==
  ASSUME NEW S, NEW q \in Seq(S), NEW e \in S
  PROVE  /\ Append(q, e) \in Seq(S)
         /\ Len(Append(q, e)) = Len(q) + 1
         /\ Append(q, e)[Len(q) + 1] = e
         /\ \A j \in 1 .. Len(q) : Append(q, e)[j] = q[j]
BY AppendProperties

LEMMA SeqPop ==
  ASSUME NEW S, NEW q \in Seq(S), q # <<>>
  PROVE  /\ Head(q) \in S /\ Tail(q) \in Seq(S)
         /\ Len(q) >= 1 /\ Head(q) = q[1]
         /\ Len(Tail(q)) = Len(q) - 1
         /\ \A j \in 1 .. Len(q) - 1 : Tail(q)[j] = q[j + 1]
BY HeadTailProperties

---------------------------------------------------------------------------
(* What the steps do                                                       *)

LEMMA TypedAt ==
  ASSUME Typed
  PROVE  /\ Len(objects) \in Nat /\ Len(hooks) \in Nat /\ Len(txs) \in Nat
         /\ \A o \in 1 .. Len(objects) : objects[o] \in Obj /\ txs[o] \in Tx
         /\ \A h \in 1 .. Len(hooks) : hooks[h] \in Hook
         /\ \A s \in Scopes : call[s] \in Call
         /\ \A s \in Scopes : call[s].at # "none" =>
               call[s].object \in 1 .. Len(objects) /\ TxOf(s) = call[s].object
BY LenProperties, ElementOfSeq DEF Typed, TxOf, Object

\* A call makes attempt n: transaction and object number Len(txs) + 1.
NewAttempt(s, n) ==
  LET o == Len(objects) + 1
  IN  /\ txs' \in Seq(Tx) /\ Len(txs') = o /\ txs'[o].end = "open"
      /\ objects' \in Seq(Obj) /\ Len(objects') = o
      /\ objects'[o] = [tx |-> o, state |-> "pending", after |-> <<>>, back |-> <<>>]
      /\ \A j \in 1 .. Len(objects) : objects'[j] = objects[j]
      /\ call' \in [Scopes -> Call]
      /\ call'[s] = [at |-> "work", attempt |-> n, object |-> o, result |-> "none"]
      /\ \A c \in Scopes \ {s} : call'[c] = IF s = "data" THEN NoCall ELSE call[c]
      /\ UNCHANGED <<single, hooks, ran>>

LEMMA AttemptIs ==
  ASSUME Parameters, Typed, NEW s \in Scopes, NEW n \in 0 .. MaxRetries,
         NEW before \in Seq(Tx), Len(before) = Len(txs), Attempt(s, n, before),
         UNCHANGED <<single, hooks, ran>>
  PROVE  /\ NewAttempt(s, n)
         /\ \A j \in 1 .. Len(txs) : txs'[j] = before[j]
<1> DEFINE o == Len(objects) + 1
           t == [wrote |-> {}, end |-> "open"]
           b == [tx |-> o, state |-> "pending", after |-> <<>>, back |-> <<>>]
<1>1. Len(objects) \in Nat /\ Len(txs) = Len(objects)
  BY TypedAt DEF Typed
<1>2. o > Len(objects) /\ FreshObject(s) = o
  BY <1>1 DEF FreshObject
<1>3. txs' = Append(before, t) /\ objects' = Append(objects, b)
  BY <1>1, <1>2 DEF Attempt
<1>4. t \in Tx
  BY DEF Tx
<1>5. b \in Obj
  BY <1>1 DEF Obj
<1>6. /\ txs' \in Seq(Tx) /\ Len(txs') = o /\ txs'[o].end = "open"
      /\ \A j \in 1 .. Len(txs) : txs'[j] = before[j]
  BY <1>1, <1>3, <1>4, SeqAdd
<1>7. /\ objects' \in Seq(Obj) /\ Len(objects') = o /\ objects'[o] = b
      /\ \A j \in 1 .. Len(objects) : objects'[j] = objects[j]
  <2> HIDE DEF b
  <2> QED
    BY <1>1, <1>3, <1>5, SeqAdd DEF Typed
<1>8. call' = [c \in Scopes |->
           IF c = s THEN [at |-> "work", attempt |-> n, object |-> o, result |-> "none"]
           ELSE IF s = "data" THEN NoCall ELSE call[c]]
  BY <1>2, Zenon DEF Attempt
<1>9. call' \in [Scopes -> Call]
  BY <1>1, <1>8 DEF Typed, Call, NoCall, Parameters
<1> QED
  BY <1>6, <1>7, <1>8, <1>9 DEF NewAttempt

LEMMA PutObject ==
  ASSUME objects \in Seq(Obj), NEW o \in 1 .. Len(objects), NEW b \in Obj,
         objects' = [objects EXCEPT ![o] = b]
  PROVE  /\ objects' \in Seq(Obj) /\ Len(objects') = Len(objects) /\ objects'[o] = b
         /\ \A j \in 1 .. Len(objects) : j # o => objects'[j] = objects[j]
BY SeqPut

LEMMA PutTx ==
  ASSUME txs \in Seq(Tx), NEW o \in 1 .. Len(txs), NEW t \in Tx,
         txs' = [txs EXCEPT ![o] = t]
  PROVE  /\ txs' \in Seq(Tx) /\ Len(txs') = Len(txs) /\ txs'[o] = t
         /\ \A j \in 1 .. Len(txs) : j # o => txs'[j] = txs[j]
BY SeqPut

\* The object of a call gets a new state and its transaction an end.
Ends(s, state, end) ==
  LET o == call[s].object
  IN  /\ objects' \in Seq(Obj) /\ Len(objects') = Len(objects)
      /\ objects'[o] = [objects[o] EXCEPT !.state = state]
      /\ txs' \in Seq(Tx) /\ Len(txs') = Len(txs)
      /\ txs'[o].end = end
      /\ \A j \in 1 .. Len(objects) :
            j # o => objects'[j] = objects[j] /\ txs'[j] = txs[j]
      /\ UNCHANGED <<single, hooks, ran>>

LEMMA EndsIs ==
  ASSUME Typed, NEW s \in Scopes, call[s].at # "none",
         NEW state \in {"committing", "committed", "rollingBack", "rolledBack"},
         NEW end \in {"committed"} \cup Ended,
         objects' = [objects EXCEPT ![call[s].object].state = state],
         txs' = [txs EXCEPT ![TxOf(s)].end = end],
         UNCHANGED <<single, hooks, ran>>
  PROVE  Ends(s, state, end)
<1> DEFINE o == call[s].object
           b == [objects[o] EXCEPT !.state = state]
           t == [txs[o] EXCEPT !.end = end]
<1>1. o \in 1 .. Len(objects) /\ TxOf(s) = o /\ o \in 1 .. Len(txs)
      /\ objects[o] \in Obj /\ txs[o] \in Tx
  BY TypedAt DEF Typed
<1>2. b \in Obj
  BY <1>1 DEF Obj
<1>3. t \in Tx /\ t.end = end
  BY <1>1 DEF Tx
<1>4. objects' = [objects EXCEPT ![o] = b] /\ txs' = [txs EXCEPT ![o] = t]
  BY <1>1
<1> HIDE DEF o, b, t
<1>5. /\ objects' \in Seq(Obj) /\ Len(objects') = Len(objects) /\ objects'[o] = b
      /\ \A j \in 1 .. Len(objects) : j # o => objects'[j] = objects[j]
  <2>1. objects \in Seq(Obj)
    BY DEF Typed
  <2>2. o \in 1 .. Len(objects) /\ objects' = [objects EXCEPT ![o] = b]
    BY <1>1, <1>4
  <2> QED
    BY <1>2, <2>1, <2>2, PutObject
<1>6. /\ txs' \in Seq(Tx) /\ Len(txs') = Len(txs) /\ txs'[o] = t
      /\ \A j \in 1 .. Len(txs) : j # o => txs'[j] = txs[j]
  <2>1. txs \in Seq(Tx)
    BY DEF Typed
  <2> QED
    BY <1>1, <1>3, <1>4, <2>1, PutTx
<1>7. Len(objects) = Len(txs)
  BY DEF Typed
<1> QED
  BY <1>3, <1>5, <1>6, <1>7 DEF Ends, o, b

\* Transaction writes; how transactions ended stays.
WritesOnly ==
  /\ txs' \in Seq(Tx) /\ Len(txs') = Len(txs)
  /\ \A j \in 1 .. Len(txs) : txs'[j].end = txs[j].end
  /\ UNCHANGED <<single, call, objects, hooks, ran>>

LEMMA WritesIs ==
  ASSUME Typed, NEW s \in Scopes, call[s].at # "none", NEW c \in Scopes,
         txs' = [txs EXCEPT ![TxOf(s)].wrote = @ \cup {c}],
         UNCHANGED <<single, call, objects, hooks, ran>>
  PROVE  WritesOnly
<1> DEFINE o == TxOf(s)
           t == [txs[o] EXCEPT !.wrote = @ \cup {c}]
<1>1. o \in 1 .. Len(txs) /\ txs[o] \in Tx
  BY TypedAt DEF Typed
<1>2. t \in Tx /\ t.end = txs[o].end
  BY <1>1 DEF Tx
<1>3. txs \in Seq(Tx)
  BY DEF Typed
<1>4. txs' = [txs EXCEPT ![o] = t]
  OBVIOUS
<1> HIDE DEF o, t
<1>5. /\ txs' \in Seq(Tx) /\ Len(txs') = Len(txs) /\ txs'[o] = t
      /\ \A j \in 1 .. Len(txs) : j # o => txs'[j] = txs[j]
  BY <1>1, <1>2, <1>3, <1>4, PutTx
<1> QED
  BY <1>2, <1>5 DEF WritesOnly

\* A hook of this kind is registered on object o: queued, or run at once when the
\* object is in state now; or neither, and then it never runs.
Registers(o, kind, now) ==
  LET n == Len(hooks) + 1
  IN  /\ hooks' \in Seq(Hook) /\ Len(hooks') = n
      /\ hooks'[n] = [kind |-> kind, tx |-> o]
      /\ \A h \in 1 .. Len(hooks) : hooks'[h] = hooks[h]
      /\ ran' = IF objects[o].state = now THEN ran \cup {n} ELSE ran
      /\ objects' \in Seq(Obj) /\ Len(objects') = Len(objects)
      /\ \A j \in 1 .. Len(objects) :
            /\ objects'[j].tx = objects[j].tx
            /\ objects'[j].state = objects[j].state
            /\ objects'[j].after = objects[j].after
                 \/ (j = o /\ kind = "after" /\ objects'[j].after = Append(objects[j].after, n))
            /\ objects'[j].back = objects[j].back
                 \/ (j = o /\ kind = "back" /\ objects'[j].back = Append(objects[j].back, n))
      /\ kind = "after" /\ TakesAfter(o) => objects'[o].after = Append(objects[o].after, n)
      /\ UNCHANGED <<single, call, txs>>

LEMMA RegistersIs ==
  ASSUME Typed, NEW o \in 1 .. Len(objects)
  PROVE  /\ AfterCommit(o) => Registers(o, "after", "committed")
         /\ AfterRollback(o) => Registers(o, "back", "rolledBack")
<1> DEFINE n == Len(hooks) + 1
<1>1. /\ objects[o] \in Obj /\ objects[o].tx = o /\ n \in Nat
      /\ objects \in Seq(Obj) /\ hooks \in Seq(Hook) /\ Len(objects) \in Nat
      /\ \A j \in 1 .. Len(objects) : objects[j] \in Obj
  BY TypedAt DEF Typed
<1>2. objects[o].after \in Seq(Nat) /\ objects[o].back \in Seq(Nat)
  BY <1>1 DEF Obj
<1>3. Append(objects[o].after, n) \in Seq(Nat) /\ Append(objects[o].back, n) \in Seq(Nat)
  BY <1>1, <1>2, SeqAdd
<1>4. ASSUME NEW kind \in {"after", "back"}, hooks' = Append(hooks, [kind |-> kind, tx |-> o])
      PROVE  /\ hooks' \in Seq(Hook) /\ Len(hooks') = n
             /\ hooks'[n] = [kind |-> kind, tx |-> o]
             /\ \A h \in 1 .. Len(hooks) : hooks'[h] = hooks[h]
  <2> DEFINE e == [kind |-> kind, tx |-> o]
  <2>1. e \in Hook
    BY <1>1 DEF Hook
  <2> HIDE DEF e
  <2> QED
    BY <1>1, <1>4, <2>1, SeqAdd DEF e
<1>5. ASSUME NEW b \in Obj, objects' = [objects EXCEPT ![o] = b]
      PROVE  /\ objects' \in Seq(Obj) /\ Len(objects') = Len(objects) /\ objects'[o] = b
             /\ \A j \in 1 .. Len(objects) : j # o => objects'[j] = objects[j]
  BY <1>1, <1>5, PutObject
<1>6. ASSUME AfterCommit(o) PROVE Registers(o, "after", "committed")
  <2> DEFINE b == [objects[o] EXCEPT !.after = Append(@, n)]
  <2>1. /\ hooks' = Append(hooks, [kind |-> "after", tx |-> o])
        /\ objects' = IF TakesAfter(o) THEN [objects EXCEPT ![o] = b] ELSE objects
        /\ ran' = IF objects[o].state = "committed" THEN ran \cup {n} ELSE ran
        /\ UNCHANGED <<single, call, txs>>
    BY <1>1, <1>6, Zenon DEF AfterCommit
  <2>2. /\ b \in Obj /\ b.tx = objects[o].tx /\ b.state = objects[o].state
        /\ b.after = Append(objects[o].after, n) /\ b.back = objects[o].back
    BY <1>1, <1>3 DEF Obj
  <2> HIDE DEF b
  <2> QED
    BY <1>1, <1>4, <1>5, <2>1, <2>2 DEF Registers
<1>7. ASSUME AfterRollback(o) PROVE Registers(o, "back", "rolledBack")
  <2> DEFINE b == [objects[o] EXCEPT !.back = Append(@, n)]
  <2>1. /\ hooks' = Append(hooks, [kind |-> "back", tx |-> o])
        /\ objects' = [objects EXCEPT ![o] = b] \/ objects' = objects
        /\ ran' = IF objects[o].state = "rolledBack" THEN ran \cup {n} ELSE ran
        /\ UNCHANGED <<single, call, txs>>
    BY <1>1, <1>7, Zenon DEF AfterRollback
  <2>2. /\ b \in Obj /\ b.tx = objects[o].tx /\ b.state = objects[o].state
        /\ b.back = Append(objects[o].back, n) /\ b.after = objects[o].after
    BY <1>1, <1>3 DEF Obj
  <2> HIDE DEF b
  <2> QED
    BY <1>1, <1>4, <1>5, <2>1, <2>2 DEF Registers
<1> QED
  BY <1>6, <1>7

\* The first hook of a queue of call s runs, and the call may fail.
Pops(s) ==
  LET o == call[s].object
      q == IF call[s].at = "after" THEN objects[o].after ELSE objects[o].back
      r == IF call[s].at = "after" THEN objects'[o].after ELSE objects'[o].back
  IN  /\ call[s].at \in {"after", "back"} /\ q # <<>>
      /\ r = Tail(q) /\ ran' = ran \cup {q[1]}
      /\ objects' \in Seq(Obj) /\ Len(objects') = Len(objects)
      /\ objects'[o].tx = objects[o].tx /\ objects'[o].state = objects[o].state
      /\ IF call[s].at = "after" THEN objects'[o].back = objects[o].back
                                 ELSE objects'[o].after = objects[o].after
      /\ \A j \in 1 .. Len(objects) : j # o => objects'[j] = objects[j]
      /\ call' = call \/ call' = [call EXCEPT ![s].at = "returned", ![s].result = "err"]
      /\ UNCHANGED <<single, txs, hooks>>

LEMMA PopsIs ==
  ASSUME Typed, NEW s \in Scopes, RunHook(s)
  PROVE  Pops(s)
<1> DEFINE o == call[s].object
           q == IF call[s].at = "after" THEN objects[o].after ELSE objects[o].back
           b == IF call[s].at = "after" THEN [objects[o] EXCEPT !.after = Tail(@)]
                                        ELSE [objects[o] EXCEPT !.back = Tail(@)]
<1>1. /\ call[s].at \in {"after", "back"} /\ q # <<>>
      /\ ran' = ran \cup {Head(q)}
      /\ objects' = [objects EXCEPT ![o] = b]
      /\ UNCHANGED <<single, txs, hooks>>
      /\ call' = call \/ call' = [call EXCEPT ![s].at = "returned", ![s].result = "err"]
  BY DEF RunHook, Returns
<1>2. objects \in Seq(Obj) /\ o \in 1 .. Len(objects) /\ objects[o] \in Obj
  BY <1>1, TypedAt DEF Typed
<1>3. q \in Seq(Nat)
  BY <1>2 DEF Obj
<1>4. Tail(q) \in Seq(Nat) /\ Head(q) = q[1]
  BY <1>1, <1>3, SeqPop
<1>5. b \in Obj
  BY <1>2, <1>4 DEF Obj
<1>6. /\ b.tx = objects[o].tx /\ b.state = objects[o].state
      /\ call[s].at = "after" => b.after = Tail(q) /\ b.back = objects[o].back
      /\ call[s].at # "after" => b.back = Tail(q) /\ b.after = objects[o].after
  BY <1>2 DEF Obj
<1> HIDE DEF b
<1>7. /\ objects' \in Seq(Obj) /\ Len(objects') = Len(objects) /\ objects'[o] = b
      /\ \A j \in 1 .. Len(objects) : j # o => objects'[j] = objects[j]
  BY <1>1, <1>2, <1>5, PutObject
<1> QED
  BY <1>1, <1>4, <1>6, <1>7 DEF Pops

\* The queue of call s is empty: its object is settled and the call returns.
Settles(s) ==
  LET o == call[s].object
      after == call[s].at = "after"
  IN  /\ call[s].at \in {"after", "back"}
      /\ after => objects[o].after = <<>>
      /\ objects' \in Seq(Obj) /\ Len(objects') = Len(objects)
      /\ objects'[o] = [objects[o] EXCEPT !.state = IF after THEN "committed" ELSE "rolledBack"]
      /\ \A j \in 1 .. Len(objects) : j # o => objects'[j] = objects[j]
      /\ call' = [call EXCEPT ![s].at = "returned", ![s].result = IF after THEN "ok" ELSE "err"]
      /\ UNCHANGED <<single, txs, hooks, ran>>

LEMMA SettlesIs ==
  ASSUME Typed, NEW s \in Scopes, HooksEnd(s)
  PROVE  Settles(s)
<1> DEFINE o == call[s].object
           state == IF call[s].at = "after" THEN "committed" ELSE "rolledBack"
           result == IF call[s].at = "after" THEN "ok" ELSE "err"
           b == [objects[o] EXCEPT !.state = state]
<1>1. /\ call[s].at \in {"after", "back"}
      /\ call[s].at = "after" => objects[o].after = <<>>
      /\ objects' = [objects EXCEPT ![o] = b]
      /\ call' = [call EXCEPT ![s].at = "returned", ![s].result = result]
      /\ UNCHANGED <<single, txs, hooks, ran>>
  BY DEF HooksEnd, Returns
<1>2. objects \in Seq(Obj) /\ o \in 1 .. Len(objects) /\ objects[o] \in Obj
  BY <1>1, TypedAt DEF Typed
<1>3. b \in Obj
  BY <1>2 DEF Obj
<1> HIDE DEF b
<1>4. /\ objects' \in Seq(Obj) /\ Len(objects') = Len(objects) /\ objects'[o] = b
      /\ \A j \in 1 .. Len(objects) : j # o => objects'[j] = objects[j]
  BY <1>1, <1>2, <1>3, PutObject
<1> QED
  BY <1>1, <1>4 DEF Settles, b

---------------------------------------------------------------------------
(* The invariant                                                           *)

\* A call at work has a pending object and an open transaction; one that runs
\* its hooks has an object on its way to the outcome.
Phases ==
  \A s \in Scopes :
    LET o == call[s].object
    IN  /\ call[s].at = "work" => objects[o].state = "pending" /\ txs[o].end = "open"
        /\ call[s].at = "after" => objects[o].state = "committing"
        /\ call[s].at = "back" => objects[o].state = "rollingBack"

\* The two calls never use one object.
Apart ==
  \A s, c \in Scopes :
    s # c /\ call[s].at # "none" /\ call[c].at # "none" => call[s].object # call[c].object

\* What an object says of its transaction is how it ended.
Outcomes ==
  \A o \in 1 .. Len(objects) :
    /\ objects[o].state \in {"committing", "committed"} => txs[o].end = "committed"
    /\ objects[o].state \in {"rollingBack", "rolledBack"} => txs[o].end \in Ended

Holds(q, hs, kind, o) ==
  \A i \in 1 .. Len(q) : q[i] \in 1 .. Len(hs) /\ hs[q[i]].kind = kind /\ hs[q[i]].tx = o

Queues(o) ==
  Holds(objects[o].after, hooks, "after", o) /\ Holds(objects[o].back, hooks, "back", o)

\* A queue of an object holds the hooks registered on it, of the queue's kind.
Queued == \A o \in 1 .. Len(objects) : Queues(o)

RanRight ==
  \A h \in ran :
    /\ hooks[h].kind = "after" => txs[hooks[h].tx].end = "committed"
    /\ hooks[h].kind = "back" => txs[hooks[h].tx].end \in Ended

IInv == Typed /\ Phases /\ Apart /\ Outcomes /\ Queued /\ RanRight

\* A call starts its first attempt, the nested one while the outer works.
Starts(s) ==
  /\ NewAttempt(s, 0) /\ call[s].at = "none"
  /\ s = "meta" => ~single
  /\ \A j \in 1 .. Len(txs) : txs'[j] = txs[j]

\* A call gives up its attempt and makes the next one.
Retries(s, n) ==
  /\ NewAttempt(s, n) /\ call[s].at = "work"
  /\ txs'[call[s].object].end = "aborted"
  /\ \A j \in 1 .. Len(txs) : j # call[s].object => txs'[j] = txs[j]

\* The attempt of a call ends one way or the other.
Finishes(s, state, end, at) ==
  /\ Ends(s, state, end) /\ call[s].at = "work"
  /\ call' = [call EXCEPT ![s].at = at]

\* The steps, as the effects the proofs below use.
Step ==
  \/ \E s \in Scopes : Starts(s)
  \/ \E s \in Scopes, n \in 0 .. MaxRetries : Retries(s, n)
  \/ WritesOnly
  \/ \E o \in 1 .. Len(objects) :
       Registers(o, "after", "committed") \/ Registers(o, "back", "rolledBack")
  \/ \E s \in Scopes :
       \/ Pops(s) \/ Settles(s)
       \/ Finishes(s, "committing", "committed", "after")
       \/ \E end \in Ended : Finishes(s, "rollingBack", end, "back")
  \/ UNCHANGED vars

LEMMA StepIs ==
  ASSUME Parameters, IInv, [Next]_vars
  PROVE  Step
<1>1. /\ Typed /\ txs \in Seq(Tx) /\ objects \in Seq(Obj) /\ hooks \in Seq(Hook)
      /\ 0 \in 0 .. MaxRetries /\ {"data", "meta"} = Scopes
  BY DEF IInv, Typed, Parameters, Scopes
<1>2. CASE Begin
  <2>1. Attempt("data", 0, txs) /\ UNCHANGED <<single, hooks, ran>> /\ call["data"].at = "none"
    BY <1>2, Zenon DEF Begin
  <2>2. Starts("data")
    BY <1>1, <2>1, AttemptIs DEF Starts
  <2> QED
    BY <1>1, <2>2 DEF Step
<1>3. CASE Nest
  <2>1. Running("data") /\ UNCHANGED <<single, hooks, ran>>
    BY <1>3, Zenon DEF Nest
  <2>2. CASE single
    <3>1. /\ txs' = [txs EXCEPT ![TxOf("data")].wrote = @ \cup {"meta"}]
          /\ UNCHANGED <<single, call, objects, hooks, ran>>
      BY <1>3, <2>2, Zenon DEF Nest, Joins
    <3>2. WritesOnly
      BY <1>1, <2>1, <3>1, WritesIs DEF Running
    <3> QED
      BY <3>2 DEF Step
  <2>3. CASE ~single
    <3>1. call["meta"].at = "none" /\ Attempt("meta", 0, txs)
      BY <1>3, <2>3, Zenon DEF Nest, Joins
    <3>2. Starts("meta")
      BY <1>1, <2>1, <2>3, <3>1, AttemptIs DEF Starts
    <3> QED
      BY <1>1, <3>2 DEF Step
  <2> QED
    BY <2>2, <2>3
<1>4. ASSUME NEW s \in Scopes, Write(s) PROVE Step
  <2>1. /\ call[s].at = "work" /\ txs' = [txs EXCEPT ![TxOf(s)].wrote = @ \cup {s}]
        /\ UNCHANGED <<single, call, objects, hooks, ran>>
    BY <1>4, Zenon DEF Write, Running
  <2>2. WritesOnly
    BY <1>1, <2>1, WritesIs
  <2> QED
    BY <2>2 DEF Step
<1>5. ASSUME NEW s \in Scopes, Commit(s) PROVE Step
  <2>1. /\ call[s].at = "work" /\ call' = [call EXCEPT ![s].at = "after"]
        /\ txs' = [txs EXCEPT ![TxOf(s)].end = "committed"]
        /\ objects' = [objects EXCEPT ![call[s].object].state =
                          IF @ = "pending" THEN "committing" ELSE @]
        /\ UNCHANGED <<single, hooks, ran>>
    BY <1>5, Zenon DEF Commit, Running, Goes
  <2>2. objects[call[s].object].state = "pending"
    BY <2>1 DEF IInv, Phases
  <2>3. objects' = [objects EXCEPT ![call[s].object].state = "committing"]
    BY <2>1, <2>2
  <2>4. Ends(s, "committing", "committed")
    BY <1>1, <2>1, <2>3, EndsIs
  <2>5. Finishes(s, "committing", "committed", "after")
    BY <2>1, <2>4 DEF Finishes
  <2> QED
    BY <2>5 DEF Step
<1>6. ASSUME NEW s \in Scopes, NEW end \in Ended, Running(s), RollBack(s, end),
             UNCHANGED <<single, hooks, ran>>
      PROVE  Step
  <2>1. /\ call[s].at = "work" /\ call' = [call EXCEPT ![s].at = "back"]
        /\ txs' = [txs EXCEPT ![TxOf(s)].end = end]
        /\ objects' = [objects EXCEPT ![call[s].object].state = "rollingBack"]
    BY <1>6, Zenon DEF RollBack, Running, Goes
  <2>2. Ends(s, "rollingBack", end)
    BY <1>1, <1>6, <2>1, EndsIs
  <2>3. Finishes(s, "rollingBack", end, "back")
    BY <2>1, <2>2 DEF Finishes
  <2> QED
    BY <2>3 DEF Step
<1>7. ASSUME NEW s \in Scopes, WorkFails(s) \/ CommitFails(s) PROVE Step
  BY <1>6, <1>7 DEF WorkFails, CommitFails, Ended
<1>8. ASSUME NEW s \in Scopes, Retry(s) PROVE Step
  <2> DEFINE before == [txs EXCEPT ![TxOf(s)].end = "aborted"]
             o == call[s].object
             t == [txs[o] EXCEPT !.end = "aborted"]
             n == call[s].attempt + 1
  <2>1. /\ call[s].at = "work" /\ call[s].attempt < MaxRetries
        /\ Attempt(s, n, before) /\ UNCHANGED <<single, hooks, ran>>
    BY <1>8, Zenon DEF Retry, Running
  <2>2. TxOf(s) = o /\ o \in 1 .. Len(txs) /\ txs[o] \in Tx /\ call[s] \in Call
    BY <1>1, <2>1, TypedAt DEF Typed
  <2>3. t \in Tx /\ t.end = "aborted"
    BY <2>2 DEF Tx, Ended
  <2>4. before = [txs EXCEPT ![o] = t]
    BY <2>2
  <2>5. n \in 0 .. MaxRetries
    BY <2>1, <2>2 DEF Call, Parameters
  <2> HIDE DEF before, t, n, o
  <2>6. /\ before \in Seq(Tx) /\ Len(before) = Len(txs) /\ before[o] = t
        /\ \A j \in 1 .. Len(txs) : j # o => before[j] = txs[j]
    BY <1>1, <2>2, <2>3, <2>4, SeqPut
  <2>7. NewAttempt(s, n) /\ \A j \in 1 .. Len(txs) : txs'[j] = before[j]
    BY <1>1, <2>1, <2>5, <2>6, AttemptIs
  <2>8. Retries(s, n)
    BY <2>1, <2>2, <2>3, <2>6, <2>7 DEF Retries, o
  <2> QED
    BY <2>5, <2>8 DEF Step
<1>9. ASSUME NEW s \in Scopes, RunHook(s) \/ HooksEnd(s) PROVE Step
  BY <1>1, <1>9, PopsIs, SettlesIs DEF Step
<1>10. ASSUME NEW o \in 1 .. Len(objects), AfterCommit(o) \/ AfterRollback(o) PROVE Step
  BY <1>1, <1>10, RegistersIs DEF Step
<1>11. CASE UNCHANGED vars
  BY <1>11 DEF Step
<1> QED
  BY <1>2, <1>3, <1>4, <1>5, <1>7, <1>8, <1>9, <1>10, <1>11 DEF Next

---------------------------------------------------------------------------
(* Initial states and steps                                                *)

LEMMA InitInv ==
  ASSUME Parameters, Init
  PROVE  IInv
<1>1. Typed
  BY DEF Init, Typed, Parameters, Call, NoCall, Tx, Obj, Hook
<1>2. Phases /\ Apart
  BY DEF Init, Phases, Apart, NoCall
<1>3. Outcomes /\ Queued /\ RanRight
  BY DEF Init, Outcomes, Queued, Queues, RanRight
<1> QED
  BY <1>1, <1>2, <1>3 DEF IInv

LEMMA StepTyped ==
  ASSUME Parameters, IInv, Step
  PROVE  Typed'
<1>1. /\ Typed /\ Queued /\ Len(objects) \in Nat /\ Len(hooks) \in Nat
      /\ Len(objects) = Len(txs) /\ call \in [Scopes -> Call]
      /\ \A o \in 1 .. Len(objects) : objects[o] \in Obj /\ objects[o].tx = o
      /\ \A s \in Scopes : call[s] \in Call /\ call[s].object \in 0 .. Len(objects)
      /\ \A s \in Scopes : call[s].at = "none" <=> call[s].object = 0
  BY TypedAt DEF IInv, Typed
<1>2. ASSUME NEW s \in Scopes, NEW n \in 0 .. MaxRetries, NewAttempt(s, n) PROVE Typed'
  <2> DEFINE o == Len(objects) + 1
  <2>1. /\ txs' \in Seq(Tx) /\ Len(txs') = o
        /\ objects' \in Seq(Obj) /\ Len(objects') = o /\ objects'[o].tx = o
        /\ \A j \in 1 .. Len(objects) : objects'[j] = objects[j]
        /\ call' \in [Scopes -> Call]
        /\ call'[s].at = "work" /\ call'[s].object = o
        /\ \A c \in Scopes \ {s} : call'[c] = IF s = "data" THEN NoCall ELSE call[c]
        /\ single' = single /\ hooks' = hooks /\ ran' = ran
    BY <1>2 DEF NewAttempt
  <2>2. \A j \in 1 .. o : objects'[j].tx = j
    BY <1>1, <2>1
  <2>3. \A c \in Scopes : /\ call'[c].object \in 0 .. o
                          /\ call'[c].at = "none" <=> call'[c].object = 0
    <3> TAKE c \in Scopes
    <3>1. CASE c = s
      BY <1>1, <2>1, <3>1
    <3>2. CASE c # s
      BY <1>1, <2>1, <3>2 DEF NoCall
    <3> QED
      BY <3>1, <3>2
  <2>4. \A h \in 1 .. Len(hooks) : hooks[h].tx \in 1 .. o
    BY <1>1 DEF Typed
  <2> QED
    BY <1>1, <2>1, <2>2, <2>3, <2>4 DEF Typed
<1>3. CASE WritesOnly
  BY <1>1, <1>3 DEF Typed, WritesOnly
<1>4. ASSUME NEW o \in 1 .. Len(objects), NEW kind, NEW now, Registers(o, kind, now)
      PROVE  Typed'
  <2> DEFINE n == Len(hooks) + 1
  <2>1. /\ hooks' \in Seq(Hook) /\ Len(hooks') = n /\ hooks'[n].tx = o
        /\ \A h \in 1 .. Len(hooks) : hooks'[h] = hooks[h]
        /\ ran' \subseteq ran \cup {n}
        /\ objects' \in Seq(Obj) /\ Len(objects') = Len(objects)
        /\ \A j \in 1 .. Len(objects) : objects'[j].tx = objects[j].tx
        /\ single' = single /\ call' = call /\ txs' = txs
    BY <1>4 DEF Registers
  <2>2. \A h \in 1 .. n : hooks'[h].tx \in 1 .. Len(txs)
    <3> TAKE h \in 1 .. n
    <3>1. CASE h = n
      BY <1>1, <2>1, <3>1
    <3>2. CASE h # n
      <4>1. h \in 1 .. Len(hooks)
        BY <1>1, <3>2
      <4> QED
        BY <2>1, <1>1, <4>1 DEF Typed
    <3> QED
      BY <3>1, <3>2
  <2>3. ran' \subseteq 1 .. n
    BY <1>1, <2>1 DEF Typed
  <2> QED
    BY <1>1, <2>1, <2>2, <2>3 DEF Typed
<1>5. ASSUME NEW s \in Scopes, NEW r \in Call, r.object = call[s].object,
             r.at # "none", call[s].at # "none", call' = [call EXCEPT ![s] = r]
      PROVE  /\ call' \in [Scopes -> Call]
             /\ \A c \in Scopes : call'[c].object = call[c].object
             /\ \A c \in Scopes : call'[c].at = "none" <=> call[c].object = 0
  BY <1>1, <1>5
<1>6. ASSUME NEW s \in Scopes, Pops(s) PROVE Typed'
  <2> DEFINE o == call[s].object
             r == [call[s] EXCEPT !.at = "returned", !.result = "err"]
  <2>1. o \in 1 .. Len(objects) /\ r \in Call /\ r.object = call[s].object /\ r.at # "none"
    <3>1. call[s].at # "none"
      BY <1>6 DEF Pops
    <3>2. r \in Call /\ r.object = call[s].object /\ r.at # "none"
      BY <1>1 DEF Call
    <3> QED
      BY <1>1, <3>1, <3>2
  <2>2. call' = call \/ call' = [call EXCEPT ![s] = r]
    BY <1>6, <1>1 DEF Pops
  <2>3. /\ call' \in [Scopes -> Call]
        /\ \A c \in Scopes : call'[c].object \in 0 .. Len(objects)
        /\ \A c \in Scopes : call'[c].at = "none" <=> call'[c].object = 0
    <3>1. CASE call' = call
      BY <1>1, <3>1
    <3>2. CASE call' = [call EXCEPT ![s] = r]
      <4> HIDE DEF r
      <4>1. call[s].at # "none"
        BY <1>6 DEF Pops
      <4> QED
        BY <1>1, <1>5, <2>1, <3>2, <4>1
    <3> QED
      BY <2>2, <3>1, <3>2
  <2>4. ran' \subseteq 1 .. Len(hooks)
    <3> DEFINE q == IF call[s].at = "after" THEN objects[o].after ELSE objects[o].back
    <3>1. q \in Seq(Nat) /\ q # <<>> /\ ran' = ran \cup {q[1]}
      BY <1>1, <1>6, <2>1 DEF Pops, Obj
    <3>2. 1 \in 1 .. Len(q)
      BY <3>1, SeqPop, LenProperties
    <3>3. q[1] \in 1 .. Len(hooks)
      BY <1>1, <2>1, <3>2 DEF Queued, Queues, Holds
    <3> QED
      BY <1>1, <3>1, <3>3 DEF Typed
  <2>5. /\ objects' \in Seq(Obj) /\ Len(objects') = Len(objects)
        /\ \A j \in 1 .. Len(objects) : objects'[j].tx = objects[j].tx
        /\ UNCHANGED <<single, txs, hooks>>
    BY <1>6 DEF Pops
  <2> QED
    BY <1>1, <2>3, <2>4, <2>5 DEF Typed
<1>7. ASSUME NEW s \in Scopes, Settles(s) PROVE Typed'
  <2> DEFINE o == call[s].object
             result == IF call[s].at = "after" THEN "ok" ELSE "err"
             r == [call[s] EXCEPT !.at = "returned", !.result = result]
  <2>1. o \in 1 .. Len(objects) /\ r \in Call /\ r.object = call[s].object /\ r.at # "none"
    <3>1. call[s].at # "none"
      BY <1>7 DEF Settles
    <3>2. r \in Call /\ r.object = call[s].object /\ r.at # "none"
      BY <1>1 DEF Call
    <3> QED
      BY <1>1, <3>1, <3>2
  <2>2. call' = [call EXCEPT ![s] = r] /\ call[s].at # "none"
    BY <1>7, <1>1 DEF Settles
  <2>3. /\ call' \in [Scopes -> Call]
        /\ \A c \in Scopes : call'[c].object = call[c].object
        /\ \A c \in Scopes : call'[c].at = "none" <=> call[c].object = 0
    <3> HIDE DEF r
    <3> QED
      BY <1>5, <2>1, <2>2
  <2>4. /\ objects' \in Seq(Obj) /\ Len(objects') = Len(objects)
        /\ \A j \in 1 .. Len(objects) : objects'[j].tx = objects[j].tx
        /\ UNCHANGED <<single, txs, hooks, ran>>
    <3>1. objects'[o].tx = objects[o].tx
      BY <1>1, <1>7, <2>1 DEF Settles, Obj
    <3>2. /\ \A j \in 1 .. Len(objects) : j # o => objects'[j] = objects[j]
          /\ objects' \in Seq(Obj) /\ Len(objects') = Len(objects)
          /\ UNCHANGED <<single, txs, hooks, ran>>
      BY <1>7 DEF Settles
    <3> QED
      BY <3>1, <3>2
  <2> QED
    BY <1>1, <2>3, <2>4 DEF Typed
<1>8. ASSUME NEW s \in Scopes, NEW state, NEW end, NEW at \in {"after", "back"},
             Finishes(s, state, end, at)
      PROVE  Typed'
  <2> DEFINE o == call[s].object
             r == [call[s] EXCEPT !.at = at]
  <2>1. o \in 1 .. Len(objects) /\ r \in Call /\ r.object = call[s].object /\ r.at # "none"
    <3>1. call[s].at # "none"
      BY <1>8 DEF Finishes
    <3>2. r \in Call /\ r.object = call[s].object /\ r.at # "none"
      BY <1>1 DEF Call
    <3> QED
      BY <1>1, <3>1, <3>2
  <2>2. call' = [call EXCEPT ![s] = r] /\ call[s].at # "none"
    BY <1>8, <1>1 DEF Finishes
  <2>3. /\ call' \in [Scopes -> Call]
        /\ \A c \in Scopes : call'[c].object = call[c].object
        /\ \A c \in Scopes : call'[c].at = "none" <=> call[c].object = 0
    <3> HIDE DEF r
    <3> QED
      BY <1>5, <2>1, <2>2
  <2>4. /\ objects' \in Seq(Obj) /\ Len(objects') = Len(objects)
        /\ txs' \in Seq(Tx) /\ Len(txs') = Len(txs)
        /\ \A j \in 1 .. Len(objects) : objects'[j].tx = objects[j].tx
        /\ UNCHANGED <<single, hooks, ran>>
    <3>1. objects'[o] = [objects[o] EXCEPT !.state = state]
      BY <1>8 DEF Finishes, Ends
    <3>2. objects'[o].tx = objects[o].tx
      BY <1>1, <2>1, <3>1 DEF Obj
    <3>3. /\ objects' \in Seq(Obj) /\ Len(objects') = Len(objects)
          /\ txs' \in Seq(Tx) /\ Len(txs') = Len(txs)
          /\ \A j \in 1 .. Len(objects) : j # o => objects'[j] = objects[j]
          /\ UNCHANGED <<single, hooks, ran>>
      BY <1>8 DEF Finishes, Ends
    <3> QED
      BY <3>2, <3>3
  <2> QED
    BY <1>1, <2>3, <2>4 DEF Typed
<1>9. CASE UNCHANGED vars
  BY <1>1, <1>9 DEF Typed, vars
<1>10. 0 \in 0 .. MaxRetries
  BY DEF Parameters
<1> QED
  BY <1>2, <1>3, <1>4, <1>6, <1>7, <1>8, <1>9, <1>10 DEF Step, Starts, Retries

\* What every step below leaves of the objects and transactions: the objects of
\* the other calls, and the end of a transaction that has ended.
LEMMA StepKeeps ==
  ASSUME Parameters, IInv, Step
  PROVE  /\ Len(objects') >= Len(objects)
         /\ \A o \in 1 .. Len(objects) : txs[o].end # "open" => txs'[o].end = txs[o].end
         /\ Len(hooks') >= Len(hooks)
         /\ \A h \in 1 .. Len(hooks) : hooks'[h] = hooks[h]
<1>1. /\ Typed /\ Phases /\ Len(objects) \in Nat /\ Len(hooks) \in Nat /\ Len(txs) = Len(objects)
      /\ 0 \in 0 .. MaxRetries
  BY TypedAt DEF IInv, Typed, Parameters
<1>2. ASSUME NEW s \in Scopes, Starts(s)
      PROVE  /\ Len(objects') >= Len(objects) /\ hooks' = hooks
             /\ \A o \in 1 .. Len(objects) : txs'[o].end = txs[o].end
  BY <1>1, <1>2 DEF Starts, NewAttempt
<1>3. ASSUME NEW s \in Scopes, NEW n \in 0 .. MaxRetries, Retries(s, n)
      PROVE  /\ Len(objects') >= Len(objects) /\ hooks' = hooks
             /\ \A o \in 1 .. Len(objects) : txs[o].end # "open" => txs'[o].end = txs[o].end
  BY <1>1, <1>3 DEF Retries, NewAttempt, Phases
<1>4. ASSUME NEW s \in Scopes, NEW state, NEW end, NEW at, Finishes(s, state, end, at)
      PROVE  /\ Len(objects') = Len(objects) /\ hooks' = hooks
             /\ \A o \in 1 .. Len(objects) : txs[o].end # "open" => txs'[o].end = txs[o].end
  BY <1>1, <1>4 DEF Finishes, Ends, Phases
<1>5. CASE WritesOnly
  BY <1>1, <1>5 DEF WritesOnly
<1>6. ASSUME NEW o \in 1 .. Len(objects), NEW kind, NEW now, Registers(o, kind, now)
      PROVE  /\ Len(objects') = Len(objects) /\ txs' = txs /\ Len(hooks') = Len(hooks) + 1
             /\ \A h \in 1 .. Len(hooks) : hooks'[h] = hooks[h]
  BY <1>6 DEF Registers
<1>7. ASSUME NEW s \in Scopes, Pops(s) \/ Settles(s)
      PROVE  Len(objects') = Len(objects) /\ txs' = txs /\ hooks' = hooks
  BY <1>7 DEF Pops, Settles
<1>8. CASE UNCHANGED vars
  BY <1>1, <1>8 DEF vars
<1> QED
  BY <1>1, <1>2, <1>3, <1>4, <1>5, <1>6, <1>7, <1>8 DEF Step

LEMMA StepPhases ==
  ASSUME Parameters, IInv, Step
  PROVE  Phases' /\ Apart'
<1>1. /\ Typed /\ Phases /\ Apart /\ Len(objects) \in Nat /\ Len(txs) = Len(objects)
      /\ call \in [Scopes -> Call]
      /\ \A c \in Scopes : call[c] \in Call
      /\ \A c \in Scopes : call[c].at # "none" => call[c].object \in 1 .. Len(objects)
  BY TypedAt DEF IInv, Typed
<1> DEFINE Fine(c) ==
      LET o == call'[c].object
      IN  /\ call'[c].at = "work" => objects'[o].state = "pending" /\ txs'[o].end = "open"
          /\ call'[c].at = "after" => objects'[o].state = "committing"
          /\ call'[c].at = "back" => objects'[o].state = "rollingBack"
           Same(c) ==
      /\ call'[c] = call[c]
      /\ call[c].at # "none" =>
           LET o == call[c].object
           IN  objects'[o].state = objects[o].state /\ txs'[o].end = txs[o].end
<1>2. ASSUME NEW c \in Scopes, Same(c) PROVE Fine(c)
  BY <1>1, <1>2 DEF Phases
<1>3. ASSUME \A c \in Scopes : Fine(c) PROVE Phases'
  BY <1>3 DEF Phases
<1>4. ASSUME \A c \in Scopes : call'[c].object = call[c].object
             /\ (call'[c].at # "none" => call[c].at # "none")
      PROVE  Apart'
  BY <1>1, <1>4 DEF Apart
<1>5. ASSUME NEW s \in Scopes, NEW n, NewAttempt(s, n),
             \A c \in Scopes \ {s} : call[c].at # "none" =>
               txs'[call[c].object].end = txs[call[c].object].end
      PROVE  Phases' /\ Apart'
  <2> DEFINE o == Len(objects) + 1
  <2>1. /\ call'[s].at = "work" /\ call'[s].object = o
        /\ objects'[o].state = "pending" /\ txs'[o].end = "open"
        /\ \A j \in 1 .. Len(objects) : objects'[j] = objects[j]
        /\ \A c \in Scopes \ {s} : call'[c] = NoCall \/ call'[c] = call[c]
    BY <1>5 DEF NewAttempt
  <2>2. Fine(s)
    BY <2>1
  <2>3. ASSUME NEW c \in Scopes \ {s} PROVE Fine(c)
    <3>1. CASE call'[c] = NoCall
      BY <3>1 DEF NoCall
    <3>2. CASE call'[c] = call[c]
      <4>1. Same(c)
        BY <1>1, <1>5, <2>1, <3>2
      <4> QED
        BY <1>2, <4>1
    <3> QED
      BY <2>1, <3>1, <3>2
  <2>4. \A c \in Scopes \ {s} : call'[c].at # "none" => call'[c].object \in 1 .. Len(objects)
    BY <1>1, <2>1 DEF NoCall
  <2>5. \A c, d \in Scopes \ {s} : c = d
    BY DEF Scopes
  <2>6. Apart'
    <3> SUFFICES ASSUME NEW c \in Scopes, NEW d \in Scopes, c # d,
                        call'[c].at # "none", call'[d].at # "none"
                 PROVE  call'[c].object # call'[d].object
      BY DEF Apart
    <3> QED
      BY <1>1, <2>1, <2>4, <2>5
  <2> QED
    BY <1>3, <2>2, <2>3, <2>6
<1>6. ASSUME NEW s \in Scopes, Starts(s) PROVE Phases' /\ Apart'
  <2>1. NewAttempt(s, 0) /\ \A j \in 1 .. Len(txs) : txs'[j] = txs[j]
    BY <1>6 DEF Starts
  <2> QED
    BY <1>1, <1>5, <2>1
<1>7. ASSUME NEW s \in Scopes, NEW n \in 0 .. MaxRetries, Retries(s, n) PROVE Phases' /\ Apart'
  <2>1. /\ NewAttempt(s, n) /\ call[s].at = "work"
        /\ \A j \in 1 .. Len(txs) : j # call[s].object => txs'[j] = txs[j]
    BY <1>7 DEF Retries
  <2>2. \A c \in Scopes \ {s} : call[c].at # "none" => call[c].object # call[s].object
    BY <1>1, <2>1 DEF Apart
  <2> QED
    BY <1>1, <1>5, <2>1, <2>2
<1>8. CASE WritesOnly \/ UNCHANGED vars
  <2>1. /\ call' = call /\ objects' = objects
        /\ \A o \in 1 .. Len(objects) : txs'[o].end = txs[o].end
    BY <1>1, <1>8 DEF WritesOnly, vars
  <2> QED
    BY <1>1, <1>2, <1>3, <1>4, <2>1
<1>9. ASSUME NEW o \in 1 .. Len(objects), NEW kind, NEW now, Registers(o, kind, now)
      PROVE  Phases' /\ Apart'
  <2>1. /\ call' = call /\ txs' = txs
        /\ \A j \in 1 .. Len(objects) : objects'[j].state = objects[j].state
    BY <1>9 DEF Registers
  <2> QED
    BY <1>1, <1>2, <1>3, <1>4, <2>1
<1>10. ASSUME NEW s \in Scopes, call[s].at # "none", Fine(s),
              call'[s].object = call[s].object,
              \A c \in Scopes \ {s} : call'[c] = call[c],
              \A j \in 1 .. Len(objects) : j # call[s].object =>
                 objects'[j] = objects[j] /\ txs'[j] = txs[j]
       PROVE  Phases' /\ Apart'
  <2>1. \A c \in Scopes \ {s} : call[c].at # "none" => call[c].object # call[s].object
    BY <1>1, <1>10 DEF Apart
  <2>2. \A c \in Scopes \ {s} : Same(c)
    BY <1>1, <1>10, <2>1
  <2>3. \A c \in Scopes : Fine(c)
    BY <1>2, <1>10, <2>2
  <2> QED
    BY <1>3, <1>4, <1>10, <2>3
<1>11. ASSUME NEW s \in Scopes, Pops(s) PROVE Phases' /\ Apart'
  <2> DEFINE o == call[s].object
  <2>1. /\ call[s].at # "none" /\ o \in 1 .. Len(objects) /\ txs' = txs
        /\ objects'[o].state = objects[o].state
        /\ \A j \in 1 .. Len(objects) : j # o => objects'[j] = objects[j]
        /\ call' = call \/ call' = [call EXCEPT ![s].at = "returned", ![s].result = "err"]
    BY <1>1, <1>11 DEF Pops
  <2>2. /\ call'[s].object = o /\ \A c \in Scopes \ {s} : call'[c] = call[c]
        /\ call'[s] = call[s] \/ call'[s].at = "returned"
    BY <1>1, <2>1 DEF Call
  <2>3. Fine(s)
    BY <1>1, <1>2, <2>1, <2>2
  <2> QED
    BY <1>10, <2>1, <2>2, <2>3
<1>12. ASSUME NEW s \in Scopes, Settles(s) PROVE Phases' /\ Apart'
  <2> DEFINE o == call[s].object
             result == IF call[s].at = "after" THEN "ok" ELSE "err"
  <2>1. /\ call[s].at # "none" /\ txs' = txs
        /\ \A j \in 1 .. Len(objects) : j # o => objects'[j] = objects[j]
        /\ call' = [call EXCEPT ![s].at = "returned", ![s].result = result]
    BY <1>12 DEF Settles
  <2>2. /\ call'[s].object = o /\ \A c \in Scopes \ {s} : call'[c] = call[c]
        /\ call'[s].at = "returned"
    BY <1>1, <2>1 DEF Call
  <2> QED
    BY <1>10, <2>1, <2>2
<1>13. ASSUME NEW s \in Scopes, NEW end \in {"committed"} \cup Ended,
              \/ Finishes(s, "committing", end, "after")
              \/ Finishes(s, "rollingBack", end, "back")
       PROVE  Phases' /\ Apart'
  <2> DEFINE o == call[s].object
  <2>1. /\ call[s].at # "none"
        /\ \A j \in 1 .. Len(objects) : j # o => objects'[j] = objects[j] /\ txs'[j] = txs[j]
    BY <1>13 DEF Finishes, Ends
  <2>2. o \in 1 .. Len(objects) /\ objects[o] \in Obj
    BY <1>1, <2>1, TypedAt
  <2>3. \/ /\ call' = [call EXCEPT ![s].at = "after"]
           /\ objects'[o] = [objects[o] EXCEPT !.state = "committing"]
        \/ /\ call' = [call EXCEPT ![s].at = "back"]
           /\ objects'[o] = [objects[o] EXCEPT !.state = "rollingBack"]
    BY <1>13 DEF Finishes, Ends
  <2>4. /\ call'[s].object = o /\ \A c \in Scopes \ {s} : call'[c] = call[c]
        /\ Fine(s)
    <3>1. /\ call'[s].object = o /\ \A c \in Scopes \ {s} : call'[c] = call[c]
      BY <1>1, <2>3 DEF Call
    <3>2. \/ call'[s].at = "after" /\ objects'[o].state = "committing"
          \/ call'[s].at = "back" /\ objects'[o].state = "rollingBack"
      BY <1>1, <2>2, <2>3 DEF Call, Obj
    <3>3. Fine(s)
      BY <3>1, <3>2
    <3> QED
      BY <3>1, <3>3
  <2> QED
    BY <1>10, <2>1, <2>4
<1> QED
  BY <1>6, <1>7, <1>8, <1>9, <1>11, <1>12, <1>13 DEF Step

LEMMA StepOutcomes ==
  ASSUME Parameters, IInv, Step
  PROVE  Outcomes'
<1>1. /\ Typed /\ Phases /\ Outcomes /\ Len(objects) \in Nat /\ Len(txs) = Len(objects)
      /\ \A c \in Scopes : call[c].at # "none" => call[c].object \in 1 .. Len(objects)
      /\ \A o \in 1 .. Len(objects) : objects[o] \in Obj
  BY TypedAt DEF IInv, Typed
<1>2. \A o \in 1 .. Len(objects) : txs[o].end # "open" => txs'[o].end = txs[o].end
  BY StepKeeps
<1> DEFINE Agrees(o) ==
      /\ objects'[o].state \in {"committing", "committed"} => txs'[o].end = "committed"
      /\ objects'[o].state \in {"rollingBack", "rolledBack"} => txs'[o].end \in Ended
<1>3. ASSUME NEW o \in 1 .. Len(objects), objects'[o].state = objects[o].state
      PROVE  Agrees(o)
  BY <1>1, <1>2, <1>3 DEF Outcomes, Ended
<1>4. ASSUME Len(objects') = Len(objects),
             \A o \in 1 .. Len(objects) : objects'[o].state = objects[o].state
      PROVE  Outcomes'
  BY <1>3, <1>4 DEF Outcomes
<1>5. ASSUME NEW s \in Scopes, NEW n, NewAttempt(s, n) PROVE Outcomes'
  <2> DEFINE o == Len(objects) + 1
  <2>1. /\ Len(objects') = o /\ objects'[o].state = "pending"
        /\ \A j \in 1 .. Len(objects) : objects'[j] = objects[j]
    BY <1>5 DEF NewAttempt
  <2>2. \A j \in 1 .. o : Agrees(j)
    <3> TAKE j \in 1 .. o
    <3>1. CASE j = o
      BY <2>1, <3>1
    <3>2. CASE j # o
      BY <1>1, <1>3, <2>1, <3>2
    <3> QED
      BY <3>1, <3>2
  <2> QED
    BY <2>1, <2>2 DEF Outcomes
<1>6. ASSUME NEW s \in Scopes, call[s].at # "none", Agrees(call[s].object),
             Len(objects') = Len(objects),
             \A j \in 1 .. Len(objects) : j # call[s].object => objects'[j] = objects[j]
      PROVE  Outcomes'
  <2>1. \A j \in 1 .. Len(objects) : Agrees(j)
    BY <1>3, <1>6
  <2> QED
    BY <1>6, <2>1 DEF Outcomes
<1>7. ASSUME NEW s \in Scopes, Settles(s) PROVE Outcomes'
  <2> DEFINE o == call[s].object
             state == IF call[s].at = "after" THEN "committed" ELSE "rolledBack"
  <2>1. /\ call[s].at \in {"after", "back"}
        /\ Len(objects') = Len(objects) /\ txs' = txs
        /\ \A j \in 1 .. Len(objects) : j # o => objects'[j] = objects[j]
        /\ objects'[o] = [objects[o] EXCEPT !.state = state]
    BY <1>7 DEF Settles
  <2>2. o \in 1 .. Len(objects) /\ objects'[o].state = state
    BY <1>1, <2>1 DEF Obj
  <2>3. \/ call[s].at = "after" /\ objects[o].state = "committing" /\ state = "committed"
        \/ call[s].at = "back" /\ objects[o].state = "rollingBack" /\ state = "rolledBack"
    BY <1>1, <2>1 DEF Phases
  <2>4. Agrees(o)
    BY <1>1, <2>1, <2>2, <2>3 DEF Outcomes
  <2> QED
    BY <1>6, <2>1, <2>4
<1>8. ASSUME NEW s \in Scopes, NEW state, NEW end, NEW at, Finishes(s, state, end, at),
             \/ state = "committing" /\ end = "committed"
             \/ state = "rollingBack" /\ end \in Ended
      PROVE  Outcomes'
  <2> DEFINE o == call[s].object
  <2>1. /\ call[s].at # "none" /\ Len(objects') = Len(objects)
        /\ \A j \in 1 .. Len(objects) : j # o => objects'[j] = objects[j]
        /\ objects'[o] = [objects[o] EXCEPT !.state = state] /\ txs'[o].end = end
    BY <1>8 DEF Finishes, Ends
  <2>2. objects'[o].state = state
    BY <1>1, <2>1 DEF Obj
  <2>3. Agrees(o)
    BY <1>8, <2>1, <2>2
  <2> QED
    BY <1>6, <2>1, <2>3
<1>9. ASSUME NEW s \in Scopes, Pops(s) PROVE Outcomes'
  BY <1>4, <1>9 DEF Pops
<1>10. ASSUME NEW o \in 1 .. Len(objects), NEW kind, NEW now, Registers(o, kind, now)
       PROVE  Outcomes'
  BY <1>4, <1>10 DEF Registers
<1>11. CASE WritesOnly \/ UNCHANGED vars
  BY <1>4, <1>11 DEF WritesOnly, vars
<1> QED
  BY <1>5, <1>7, <1>8, <1>9, <1>10, <1>11 DEF Step, Starts, Retries

LEMMA HoldsMore ==
  ASSUME NEW q, NEW hs, NEW more, NEW kind, NEW o, Holds(q, hs, kind, o),
         Len(hs) \in Nat, Len(more) \in Nat, Len(more) >= Len(hs),
         \A h \in 1 .. Len(hs) : more[h] = hs[h]
  PROVE  Holds(q, more, kind, o)
BY DEF Holds

LEMMA HoldsTail ==
  ASSUME NEW q \in Seq(Nat), q # <<>>, NEW hs, NEW kind, NEW o, Holds(q, hs, kind, o)
  PROVE  Holds(Tail(q), hs, kind, o)
<1>1. /\ Len(q) \in Nat /\ Len(Tail(q)) = Len(q) - 1
      /\ \A j \in 1 .. Len(q) - 1 : Tail(q)[j] = q[j + 1]
  BY SeqPop, LenProperties
<1> QED
  BY <1>1 DEF Holds

LEMMA HoldsAppend ==
  ASSUME NEW q \in Seq(Nat), NEW hs, NEW kind, NEW o, Holds(q, hs, kind, o),
         NEW n \in Nat, n \in 1 .. Len(hs), hs[n].kind = kind, hs[n].tx = o
  PROVE  Holds(Append(q, n), hs, kind, o)
<1> DEFINE r == Append(q, n)
<1>1. /\ Len(q) \in Nat /\ Len(r) = Len(q) + 1 /\ r[Len(q) + 1] = n
      /\ \A j \in 1 .. Len(q) : r[j] = q[j]
  BY SeqAdd, LenProperties
<1> HIDE DEF r
<1>2. ASSUME NEW i \in 1 .. Len(r)
      PROVE  r[i] \in 1 .. Len(hs) /\ hs[r[i]].kind = kind /\ hs[r[i]].tx = o
  <2>1. CASE i = Len(q) + 1
    BY <1>1, <2>1
  <2>2. CASE i # Len(q) + 1
    <3>1. i \in 1 .. Len(q)
      BY <1>1, <1>2, <2>2
    <3> QED
      BY <1>1, <3>1 DEF Holds
  <2> QED
    BY <2>1, <2>2
<1> QED
  BY <1>2 DEF Holds, r

LEMMA StepQueued ==
  ASSUME Parameters, IInv, Step
  PROVE  Queued'
<1>1. /\ Typed /\ Queued /\ Len(objects) \in Nat /\ Len(hooks) \in Nat
      /\ \A c \in Scopes : call[c].at # "none" => call[c].object \in 1 .. Len(objects)
      /\ \A o \in 1 .. Len(objects) : objects[o].after \in Seq(Nat) /\ objects[o].back \in Seq(Nat)
  BY TypedAt DEF IInv, Typed, Obj
<1>2. /\ Len(hooks') >= Len(hooks) /\ \A h \in 1 .. Len(hooks) : hooks'[h] = hooks[h]
      /\ Len(hooks') \in Nat
  BY <1>1, StepKeeps, StepTyped, LenProperties DEF Typed
<1>3. ASSUME NEW o \in 1 .. Len(objects)
      PROVE  Holds(objects[o].after, hooks', "after", o) /\ Holds(objects[o].back, hooks', "back", o)
  BY <1>1, <1>2, HoldsMore DEF Queued, Queues
<1>4. ASSUME NEW o \in 1 .. Len(objects'),
             Holds(objects'[o].after, hooks', "after", o), Holds(objects'[o].back, hooks', "back", o)
      PROVE  Queues(o)'
  BY <1>4 DEF Queues
<1>5. ASSUME Len(objects') = Len(objects),
             \A o \in 1 .. Len(objects) : objects'[o].after = objects[o].after
                                       /\ objects'[o].back = objects[o].back
      PROVE  Queued'
  BY <1>3, <1>4, <1>5 DEF Queued
<1>6. ASSUME NEW s \in Scopes, NEW n, NewAttempt(s, n) PROVE Queued'
  <2> DEFINE o == Len(objects) + 1
  <2>1. /\ Len(objects') = o /\ objects'[o].after = <<>> /\ objects'[o].back = <<>>
        /\ \A j \in 1 .. Len(objects) : objects'[j] = objects[j]
    BY <1>6 DEF NewAttempt
  <2>2. \A j \in 1 .. o : Holds(objects'[j].after, hooks', "after", j) /\ Holds(objects'[j].back, hooks', "back", j)
    <3> TAKE j \in 1 .. o
    <3>1. CASE j = o
      BY <2>1, <3>1 DEF Holds
    <3>2. CASE j # o
      BY <1>1, <1>3, <2>1, <3>2
    <3> QED
      BY <3>1, <3>2
  <2> QED
    BY <1>4, <2>1, <2>2 DEF Queued
<1>7. ASSUME NEW s \in Scopes, Pops(s) PROVE Queued'
  <2> DEFINE o == call[s].object
             q == IF call[s].at = "after" THEN objects[o].after ELSE objects[o].back
  <2>1. /\ call[s].at \in {"after", "back"} /\ q # <<>> /\ o \in 1 .. Len(objects)
        /\ Len(objects') = Len(objects)
        /\ IF call[s].at = "after"
           THEN objects'[o].after = Tail(q) /\ objects'[o].back = objects[o].back
           ELSE objects'[o].back = Tail(q) /\ objects'[o].after = objects[o].after
        /\ \A j \in 1 .. Len(objects) : j # o => objects'[j] = objects[j]
    BY <1>1, <1>7 DEF Pops
  <2>2. q \in Seq(Nat)
    BY <1>1, <2>1
  <2>3. ASSUME NEW kind, Holds(q, hooks', kind, o) PROVE Holds(Tail(q), hooks', kind, o)
    BY <2>1, <2>2, <2>3, HoldsTail
  <2>4. Holds(objects'[o].after, hooks', "after", o) /\ Holds(objects'[o].back, hooks', "back", o)
    <3>1. CASE call[s].at = "after"
      BY <1>3, <2>1, <2>3, <3>1
    <3>2. CASE call[s].at # "after"
      BY <1>3, <2>1, <2>3, <3>2
    <3> QED
      BY <3>1, <3>2
  <2>5. \A j \in 1 .. Len(objects) :
           Holds(objects'[j].after, hooks', "after", j) /\ Holds(objects'[j].back, hooks', "back", j)
    BY <1>3, <2>1, <2>4
  <2> QED
    BY <1>4, <2>1, <2>5 DEF Queued
<1>8. ASSUME NEW o \in 1 .. Len(objects), NEW kind, NEW now, Registers(o, kind, now)
      PROVE  Queued'
  <2> DEFINE n == Len(hooks) + 1
  <2>1. /\ Len(objects') = Len(objects) /\ Len(hooks') = n
        /\ hooks'[n].kind = kind /\ hooks'[n].tx = o
        /\ \A j \in 1 .. Len(objects) :
            /\ objects'[j].after = objects[j].after
                 \/ (j = o /\ kind = "after" /\ objects'[j].after = Append(objects[j].after, n))
            /\ objects'[j].back = objects[j].back
                 \/ (j = o /\ kind = "back" /\ objects'[j].back = Append(objects[j].back, n))
    BY <1>8 DEF Registers
  <2>2. ASSUME NEW q \in Seq(Nat), Holds(q, hooks', kind, o) PROVE Holds(Append(q, n), hooks', kind, o)
    <3>1. n \in Nat /\ n \in 1 .. Len(hooks')
      BY <1>1, <2>1
    <3> QED
      BY <2>1, <2>2, <3>1, HoldsAppend
  <2>3. \A j \in 1 .. Len(objects) :
           Holds(objects'[j].after, hooks', "after", j) /\ Holds(objects'[j].back, hooks', "back", j)
    <3> TAKE j \in 1 .. Len(objects)
    <3>1. Holds(objects'[j].after, hooks', "after", j)
      BY <1>1, <1>3, <2>1, <2>2
    <3>2. Holds(objects'[j].back, hooks', "back", j)
      BY <1>1, <1>3, <2>1, <2>2
    <3> QED
      BY <3>1, <3>2
  <2> QED
    BY <1>4, <2>1, <2>3 DEF Queued
<1>9. ASSUME NEW s \in Scopes, NEW state, objects' \in Seq(Obj),
             Len(objects') = Len(objects),
             call[s].at # "none",
             objects'[call[s].object] = [objects[call[s].object] EXCEPT !.state = state],
             \A j \in 1 .. Len(objects) : j # call[s].object => objects'[j] = objects[j]
      PROVE  Queued'
  <2>1. /\ objects'[call[s].object].after = objects[call[s].object].after
        /\ objects'[call[s].object].back = objects[call[s].object].back
    BY <1>1, <1>9, TypedAt DEF Obj
  <2> QED
    BY <1>5, <1>9, <2>1
<1>10. ASSUME NEW s \in Scopes, Settles(s) PROVE Queued'
  <2>1. PICK state : objects'[call[s].object] = [objects[call[s].object] EXCEPT !.state = state]
    BY <1>10 DEF Settles
  <2> QED
    BY <1>9, <1>10, <2>1 DEF Settles
<1>11. ASSUME NEW s \in Scopes, NEW state, NEW end, NEW at, Finishes(s, state, end, at)
       PROVE  Queued'
  BY <1>9, <1>11 DEF Finishes, Ends
<1>12. CASE WritesOnly \/ UNCHANGED vars
  BY <1>5, <1>12 DEF WritesOnly, vars
<1> QED
  BY <1>6, <1>7, <1>8, <1>10, <1>11, <1>12 DEF Step, Starts, Retries

\* The invariant over ran holds for the old hooks, and for what the step adds.
LEMMA StepRanRight ==
  ASSUME Parameters, IInv, Step
  PROVE  RanRight'
<1> DEFINE Right(h) ==
      /\ hooks'[h].kind = "after" => txs'[hooks'[h].tx].end = "committed"
      /\ hooks'[h].kind = "back" => txs'[hooks'[h].tx].end \in Ended
<1>1. /\ Typed /\ Phases /\ Outcomes /\ Queued /\ RanRight
      /\ Len(objects) \in Nat /\ Len(hooks) \in Nat /\ Len(txs) = Len(objects)
      /\ \A c \in Scopes : call[c].at # "none" => call[c].object \in 1 .. Len(objects)
      /\ \A h \in 1 .. Len(hooks) : hooks[h].tx \in 1 .. Len(objects) /\ hooks[h] \in Hook
      /\ ran \subseteq 1 .. Len(hooks)
  BY TypedAt DEF IInv, Typed
<1>2. /\ \A o \in 1 .. Len(objects) : txs[o].end # "open" => txs'[o].end = txs[o].end
      /\ \A h \in 1 .. Len(hooks) : hooks'[h] = hooks[h]
  BY StepKeeps
<1>3. \A h \in ran : Right(h)
  <2> TAKE h \in ran
  <2>1. hooks'[h] = hooks[h] /\ hooks[h].tx \in 1 .. Len(objects)
    BY <1>1, <1>2
  <2>2. /\ hooks[h].kind = "after" => txs[hooks[h].tx].end = "committed"
        /\ hooks[h].kind = "back" => txs[hooks[h].tx].end \in Ended
    BY <1>1 DEF RanRight
  <2> QED
    BY <1>2, <2>1, <2>2 DEF Ended
<1>4. ASSUME ran' = ran PROVE RanRight'
  BY <1>3, <1>4 DEF RanRight
<1>5. ASSUME NEW n, ran' = ran \cup {n}, Right(n) PROVE RanRight'
  BY <1>3, <1>5 DEF RanRight
<1>6. ASSUME NEW s \in Scopes, Pops(s) PROVE RanRight'
  <2> DEFINE o == call[s].object
             q == IF call[s].at = "after" THEN objects[o].after ELSE objects[o].back
             n == q[1]
  <2>1. /\ call[s].at \in {"after", "back"} /\ q # <<>> /\ ran' = ran \cup {n}
        /\ txs' = txs /\ hooks' = hooks
    BY <1>6 DEF Pops
  <2>2. o \in 1 .. Len(objects) /\ objects[o] \in Obj
    BY <1>1, <2>1, TypedAt
  <2>3. q \in Seq(Nat)
    BY <2>2 DEF Obj
  <2>4. 1 \in 1 .. Len(q)
    BY <2>1, <2>3, SeqPop, LenProperties
  <2>5. hooks[n].tx = o /\ hooks[n].kind = IF call[s].at = "after" THEN "after" ELSE "back"
    <3> DEFINE kind == IF call[s].at = "after" THEN "after" ELSE "back"
    <3>1. Holds(q, hooks, kind, o)
      BY <1>1, <2>2 DEF Queued, Queues
    <3> HIDE DEF q, kind
    <3>2. hooks[n].tx = o /\ hooks[n].kind = kind
      BY <2>4, <3>1 DEF Holds
    <3> QED
      BY <3>2 DEF kind
  <2>6. IF call[s].at = "after" THEN txs[o].end = "committed" ELSE txs[o].end \in Ended
    BY <1>1, <2>1, <2>2 DEF Phases, Outcomes
  <2>7. Right(n)
    BY <2>1, <2>5, <2>6
  <2> HIDE DEF n
  <2> QED
    BY <1>5, <2>1, <2>7
<1>7. ASSUME NEW o \in 1 .. Len(objects), NEW kind, NEW now, Registers(o, kind, now),
             \/ kind = "after" /\ now = "committed"
             \/ kind = "back" /\ now = "rolledBack"
      PROVE  RanRight'
  <2> DEFINE n == Len(hooks) + 1
  <2>1. /\ hooks'[n] = [kind |-> kind, tx |-> o] /\ txs' = txs
        /\ ran' = IF objects[o].state = now THEN ran \cup {n} ELSE ran
    BY <1>7 DEF Registers
  <2>2. CASE objects[o].state = now
    <3>1. IF kind = "after" THEN txs[o].end = "committed" ELSE txs[o].end \in Ended
      BY <1>1, <1>7, <2>2 DEF Outcomes
    <3>2. Right(n)
      BY <1>7, <2>1, <3>1
    <3> QED
      BY <1>5, <2>1, <2>2, <3>2
  <2>3. CASE objects[o].state # now
    BY <1>4, <2>1, <2>3
  <2> QED
    BY <2>2, <2>3
<1>8. ASSUME NEW s \in Scopes, NEW state, NEW end, NEW at, Finishes(s, state, end, at)
      PROVE  ran' = ran
  BY <1>8 DEF Finishes, Ends
<1>9. ASSUME NEW s \in Scopes, Settles(s) PROVE ran' = ran
  BY <1>9 DEF Settles
<1>10. ASSUME NEW s \in Scopes, NEW n, NewAttempt(s, n) PROVE ran' = ran
  BY <1>10 DEF NewAttempt
<1>11. CASE WritesOnly \/ UNCHANGED vars
  BY <1>4, <1>11 DEF WritesOnly, vars
<1> QED
  BY <1>4, <1>6, <1>7, <1>8, <1>9, <1>10, <1>11 DEF Step, Starts, Retries

LEMMA StepInv ==
  ASSUME Parameters, IInv, [Next]_vars
  PROVE  IInv'
BY StepIs, StepTyped, StepPhases, StepOutcomes, StepQueued, StepRanRight DEF IInv

LEMMA InvHolds ==
  ASSUME Parameters
  PROVE  Spec => []IInv
<1>1. Init => IInv
  BY InitInv
<1>2. IInv /\ [Next]_vars => IInv'
  BY StepInv
<1> QED
  BY <1>1, <1>2, PTL DEF Spec

---------------------------------------------------------------------------
(* What the result of the outer call rests on                              *)

In(q, h) == \E i \in 1 .. Len(q) : q[i] = h

\* Until its attempt has committed an afterCommit hook waits in the queue or has
\* run; when the object is settled, it has run.
AfterKept ==
  \A h \in 1 .. Len(hooks) : hooks[h].kind = "after" =>
    LET o == hooks[h].tx
    IN  /\ objects[o].state \in {"pending", "committing"} => h \in ran \/ In(objects[o].after, h)
        /\ objects[o].state = "committed" => h \in ran

\* In one physical database only the outer call has transactions, and it leaves
\* aborted ones behind.
Lone ==
  single =>
    /\ call["meta"].at = "none"
    /\ \A o \in 1 .. Len(objects) : o # call["data"].object => txs[o].end = "aborted"

\* The outer call returns ok from a settled commit; an error leaves the object
\* rolled back, or in the phase whose hook threw.
Returned ==
  single /\ call["data"].at = "returned" =>
    LET state == objects[call["data"].object].state
    IN  \/ call["data"].result = "ok" /\ state = "committed"
        \/ call["data"].result = "err" /\ state \in {"committing", "rollingBack", "rolledBack"}

FullInv == IInv /\ AfterKept /\ Lone /\ Returned

LEMMA InTail ==
  ASSUME NEW q \in Seq(Nat), q # <<>>, NEW h, In(q, h)
  PROVE  h = q[1] \/ In(Tail(q), h)
<1>1. /\ Len(q) \in Nat /\ Len(Tail(q)) = Len(q) - 1
      /\ \A j \in 1 .. Len(q) - 1 : Tail(q)[j] = q[j + 1]
  BY SeqPop, LenProperties
<1>2. PICK i \in 1 .. Len(q) : q[i] = h
  BY DEF In
<1>3. CASE i = 1
  BY <1>2, <1>3
<1>4. CASE i # 1
  <2> DEFINE j == i - 1
  <2>1. j \in 1 .. Len(q) - 1 /\ i = j + 1
    BY <1>1, <1>4
  <2> HIDE DEF j
  <2> QED
    BY <1>1, <1>2, <2>1 DEF In
<1> QED
  BY <1>3, <1>4

LEMMA InAppend ==
  ASSUME NEW q \in Seq(Nat), NEW n \in Nat
  PROVE  /\ In(Append(q, n), n)
         /\ \A h : In(q, h) => In(Append(q, n), h)
<1> DEFINE r == Append(q, n)
<1>1. /\ Len(q) \in Nat /\ Len(r) = Len(q) + 1 /\ r[Len(q) + 1] = n
      /\ \A j \in 1 .. Len(q) : r[j] = q[j]
  BY SeqAdd, LenProperties
<1> HIDE DEF r
<1>2. Len(q) + 1 \in 1 .. Len(r) /\ \A j \in 1 .. Len(q) : j \in 1 .. Len(r)
  BY <1>1
<1> QED
  BY <1>1, <1>2 DEF In, r

LEMMA StepAfterKept ==
  ASSUME Parameters, IInv, AfterKept, Step
  PROVE  AfterKept'
<1> DEFINE Waits(h, o) == h \in ran' \/ In(objects'[o].after, h)
           Kept(h) ==
      hooks'[h].kind = "after" =>
        /\ objects'[hooks'[h].tx].state \in {"pending", "committing"} => Waits(h, hooks'[h].tx)
        /\ objects'[hooks'[h].tx].state = "committed" => h \in ran'
<1>1. /\ Typed /\ Phases /\ Len(objects) \in Nat /\ Len(hooks) \in Nat
      /\ \A c \in Scopes : call[c].at # "none" => call[c].object \in 1 .. Len(objects)
      /\ \A o \in 1 .. Len(objects) : objects[o] \in Obj
      /\ \A h \in 1 .. Len(hooks) : hooks[h].tx \in 1 .. Len(objects)
  BY TypedAt DEF IInv, Typed
<1>2. \A h \in 1 .. Len(hooks) : hooks'[h] = hooks[h]
  BY StepKeeps
<1>3. ASSUME NEW h \in 1 .. Len(hooks), ran \subseteq ran',
             objects'[hooks[h].tx].state = objects[hooks[h].tx].state,
             \/ objects'[hooks[h].tx].after = objects[hooks[h].tx].after
             \/ In(objects[hooks[h].tx].after, h) => Waits(h, hooks[h].tx)
      PROVE  Kept(h)
  BY <1>2, <1>3 DEF AfterKept
<1>4. ASSUME Len(hooks') = Len(hooks), \A h \in 1 .. Len(hooks) : Kept(h)
      PROVE  AfterKept'
  BY <1>4, Zenon DEF AfterKept
<1>5. ASSUME UNCHANGED <<hooks, ran>>, \A o \in 1 .. Len(objects) : objects'[o] = objects[o]
      PROVE  AfterKept'
  <2>1. \A h \in 1 .. Len(hooks) : Kept(h)
    BY <1>1, <1>3, <1>5
  <2> QED
    BY <1>4, <1>5, <2>1
<1>6. ASSUME NEW s \in Scopes, NEW n, NewAttempt(s, n) PROVE AfterKept'
  BY <1>5, <1>6 DEF NewAttempt
<1>7. ASSUME NEW s \in Scopes, Pops(s) PROVE AfterKept'
  <2> DEFINE o == call[s].object
             q == IF call[s].at = "after" THEN objects[o].after ELSE objects[o].back
  <2>1. /\ call[s].at \in {"after", "back"} /\ q # <<>> /\ hooks' = hooks
        /\ ran' = ran \cup {q[1]}
        /\ objects'[o].state = objects[o].state
        /\ IF call[s].at = "after" THEN objects'[o].after = Tail(q)
                                   ELSE objects'[o].after = objects[o].after
        /\ \A j \in 1 .. Len(objects) : j # o => objects'[j] = objects[j]
    BY <1>7 DEF Pops
  <2>2. objects[o].after \in Seq(Nat)
    BY <1>1, <2>1 DEF Obj
  <2>3. ASSUME NEW h, In(objects[o].after, h) PROVE Waits(h, o)
    <3>1. CASE call[s].at = "after"
      BY <2>1, <2>2, <2>3, <3>1, InTail
    <3>2. CASE call[s].at # "after"
      BY <2>1, <2>3, <3>2
    <3> QED
      BY <3>1, <3>2
  <2>4. ASSUME NEW h \in 1 .. Len(hooks) PROVE Kept(h)
    <3>1. CASE hooks[h].tx = o
      BY <1>3, <2>1, <2>3, <3>1
    <3>2. CASE hooks[h].tx # o
      BY <1>1, <1>3, <2>1, <3>2
    <3> QED
      BY <3>1, <3>2
  <2> QED
    BY <1>4, <2>1, <2>4
<1>8. ASSUME NEW s \in Scopes, NEW state, UNCHANGED <<hooks, ran>>, call[s].at # "none",
             objects'[call[s].object] = [objects[call[s].object] EXCEPT !.state = state],
             \A j \in 1 .. Len(objects) : j # call[s].object => objects'[j] = objects[j],
             \/ state \in {"rollingBack", "rolledBack"}
             \/ state = "committing" /\ objects[call[s].object].state = "pending"
             \/ /\ state = "committed" /\ objects[call[s].object].state = "committing"
                /\ objects[call[s].object].after = <<>>
      PROVE  AfterKept'
  <2> DEFINE o == call[s].object
  <2>1. o \in 1 .. Len(objects) /\ objects'[o].state = state /\ objects'[o].after = objects[o].after
    BY <1>1, <1>8 DEF Obj
  <2>2. \A h : ~In(<<>>, h)
    BY DEF In
  <2>3. ASSUME NEW h \in 1 .. Len(hooks) PROVE Kept(h)
    <3>1. CASE hooks[h].tx # o
      BY <1>1, <1>3, <1>8, <3>1
    <3>2. CASE hooks[h].tx = o
      <4>1. hooks[h].kind = "after" =>
              /\ objects[o].state \in {"pending", "committing"} => h \in ran \/ In(objects[o].after, h)
              /\ objects[o].state = "committed" => h \in ran
        BY <3>2 DEF AfterKept
      <4>2. hooks' = hooks /\ ran' = ran
        BY <1>8
      <4>3. CASE state \in {"rollingBack", "rolledBack"}
        BY <2>1, <3>2, <4>2, <4>3
      <4>4. CASE state = "committing" /\ objects[o].state = "pending"
        BY <2>1, <3>2, <4>1, <4>2, <4>4
      <4>5. CASE /\ state = "committed" /\ objects[o].state = "committing"
                 /\ objects[o].after = <<>>
        BY <2>1, <2>2, <3>2, <4>1, <4>2, <4>5
      <4> QED
        BY <1>8, <4>3, <4>4, <4>5
    <3> QED
      BY <3>1, <3>2
  <2> QED
    BY <1>4, <1>8, <2>3
<1>9. ASSUME NEW s \in Scopes, Settles(s) PROVE AfterKept'
  <2> DEFINE o == call[s].object
             state == IF call[s].at = "after" THEN "committed" ELSE "rolledBack"
  <2>1. /\ call[s].at \in {"after", "back"} /\ UNCHANGED <<hooks, ran>>
        /\ objects'[o] = [objects[o] EXCEPT !.state = state]
        /\ \A j \in 1 .. Len(objects) : j # o => objects'[j] = objects[j]
        /\ call[s].at = "after" => objects[o].after = <<>>
    BY <1>9 DEF Settles
  <2>2. call[s].at = "after" => objects[o].state = "committing"
    BY <1>1 DEF Phases
  <2> QED
    BY <1>8, <2>1, <2>2
<1>10. ASSUME NEW s \in Scopes, NEW state, NEW end, NEW at, Finishes(s, state, end, at),
              state \in {"committing", "rollingBack"}
       PROVE  AfterKept'
  <2>1. /\ call[s].at = "work" /\ UNCHANGED <<hooks, ran>>
        /\ objects'[call[s].object] = [objects[call[s].object] EXCEPT !.state = state]
        /\ \A j \in 1 .. Len(objects) : j # call[s].object => objects'[j] = objects[j]
    BY <1>10 DEF Finishes, Ends
  <2>2. objects[call[s].object].state = "pending"
    BY <1>1, <2>1 DEF Phases
  <2> QED
    BY <1>8, <1>10, <2>1, <2>2
<1>11. ASSUME NEW o \in 1 .. Len(objects), NEW kind, NEW now, Registers(o, kind, now),
              kind = "after" => now = "committed"
       PROVE  AfterKept'
  <2> DEFINE n == Len(hooks) + 1
  <2>1. /\ Len(hooks') = n /\ hooks'[n] = [kind |-> kind, tx |-> o]
        /\ ran' = IF objects[o].state = now THEN ran \cup {n} ELSE ran
        /\ \A j \in 1 .. Len(objects) :
             /\ objects'[j].state = objects[j].state
             /\ objects'[j].after = objects[j].after
                  \/ objects'[j].after = Append(objects[j].after, n)
        /\ kind = "after" /\ TakesAfter(o) => objects'[o].after = Append(objects[o].after, n)
    BY <1>11 DEF Registers
  <2>2. \A j \in 1 .. Len(objects) : objects[j].after \in Seq(Nat)
    BY <1>1 DEF Obj
  <2>3. n \in Nat
    BY <1>1
  <2>4. ASSUME NEW h \in 1 .. Len(hooks) PROVE Kept(h)
    <3> DEFINE j == hooks[h].tx
    <3>1. j \in 1 .. Len(objects) /\ ran \subseteq ran'
      BY <1>1, <2>1
    <3>2. In(objects[j].after, h) => In(objects'[j].after, h)
      <4>1. \/ objects'[j].after = objects[j].after
            \/ objects'[j].after = Append(objects[j].after, n)
        BY <2>1, <3>1
      <4>2. objects[j].after \in Seq(Nat)
        BY <2>2, <3>1
      <4> HIDE DEF j, n
      <4>3. In(objects[j].after, h) => In(Append(objects[j].after, n), h)
        BY <2>3, <4>2, InAppend
      <4> QED
        BY <4>1, <4>3
    <3> QED
      BY <1>3, <2>1, <3>1, <3>2
  <2>5. Kept(n)
    <3> SUFFICES ASSUME kind = "after"
                 PROVE  /\ objects'[o].state \in {"pending", "committing"} => Waits(n, o)
                        /\ objects'[o].state = "committed" => n \in ran'
      BY <2>1
    <3>1. objects[o].state \in {"pending", "committing"} => In(objects'[o].after, n)
      BY <2>1, <2>2, <2>3, InAppend DEF TakesAfter
    <3> QED
      BY <1>11, <2>1, <3>1
  <2>6. \A h \in 1 .. n : Kept(h)
    <3> TAKE h \in 1 .. n
    <3>1. h = n \/ h \in 1 .. Len(hooks)
      BY <1>1
    <3> HIDE DEF n, Kept
    <3> QED
      BY <2>4, <2>5, <3>1
  <2> QED
    BY <2>1, <2>6 DEF AfterKept
<1>12. CASE WritesOnly \/ UNCHANGED vars
  BY <1>5, <1>12 DEF WritesOnly, vars
<1> QED
  BY <1>6, <1>7, <1>9, <1>10, <1>11, <1>12 DEF Step, Starts, Retries

LEMMA StepLone ==
  ASSUME Parameters, IInv, Lone, Step
  PROVE  Lone'
<1>1. /\ Typed /\ Phases /\ Len(objects) \in Nat /\ Len(txs) = Len(objects)
      /\ \A c \in Scopes : call[c].at # "none" => call[c].object \in 1 .. Len(objects)
      /\ call \in [Scopes -> Call] /\ \A c \in Scopes : call[c] \in Call
      /\ {"data", "meta"} = Scopes /\ "data" # "meta" /\ single' = single
  <2>1. single' = single
    BY DEF Step, Starts, Retries, NewAttempt, WritesOnly, Registers, Pops, Settles, Finishes,
           Ends, vars
  <2> QED
    BY <2>1, TypedAt DEF IInv, Typed, Scopes
<1> SUFFICES ASSUME single
             PROVE  /\ call'["meta"].at = "none"
                    /\ \A o \in 1 .. Len(objects') :
                         o # call'["data"].object => txs'[o].end = "aborted"
  BY <1>1, Zenon DEF Lone
<1>2. /\ call["meta"].at = "none"
      /\ \A o \in 1 .. Len(objects) : o # call["data"].object => txs[o].end = "aborted"
  BY Zenon DEF Lone
<1>3. \A o \in 1 .. Len(objects) : txs[o].end # "open" => txs'[o].end = txs[o].end
  BY StepKeeps
<1>4. ASSUME call'["meta"] = call["meta"], call'["data"].object = call["data"].object,
             Len(objects') = Len(objects)
      PROVE  /\ call'["meta"].at = "none"
             /\ \A o \in 1 .. Len(objects') :
                  o # call'["data"].object => txs'[o].end = "aborted"
  BY <1>2, <1>3, <1>4
<1>5. ASSUME NEW s \in Scopes, call[s].at # "none" PROVE s = "data"
  BY <1>1, <1>2, <1>5
<1>6. ASSUME NEW n, NewAttempt("data", n),
             \A j \in 1 .. Len(objects) : txs'[j].end = "aborted"
      PROVE  /\ call'["meta"].at = "none"
             /\ \A o \in 1 .. Len(objects') :
                  o # call'["data"].object => txs'[o].end = "aborted"
  <2> DEFINE o == Len(objects) + 1
  <2>1. Len(objects') = o /\ call'["data"].object = o
    BY <1>6 DEF NewAttempt
  <2>2. call'["meta"] = NoCall
    BY <1>1, <1>6 DEF NewAttempt
  <2>3. \A j \in 1 .. o : j = o \/ j \in 1 .. Len(objects)
    BY <1>1
  <2> QED
    BY <1>6, <2>1, <2>2, <2>3 DEF NoCall
<1>7. ASSUME NEW s \in Scopes, Starts(s)
      PROVE  /\ call'["meta"].at = "none"
             /\ \A o \in 1 .. Len(objects') :
                  o # call'["data"].object => txs'[o].end = "aborted"
  <2>1. s = "data"
    BY <1>1, <1>7 DEF Starts
  <2>2. NewAttempt("data", 0) /\ call["data"].at = "none"
    BY <1>7, <2>1 DEF Starts
  <2>3. call["data"].object = 0
    BY <1>1, <2>2 DEF Typed
  <2>4. \A j \in 1 .. Len(objects) : txs'[j].end = "aborted"
    BY <1>2, <1>3, <2>3
  <2> QED
    BY <1>6, <2>2, <2>4
<1>8. ASSUME NEW s \in Scopes, NEW n \in 0 .. MaxRetries, Retries(s, n)
      PROVE  /\ call'["meta"].at = "none"
             /\ \A o \in 1 .. Len(objects') :
                  o # call'["data"].object => txs'[o].end = "aborted"
  <2>1. s = "data"
    BY <1>5, <1>8 DEF Retries
  <2>2. NewAttempt("data", n) /\ txs'[call["data"].object].end = "aborted"
    BY <1>8, <2>1 DEF Retries
  <2> QED
    BY <1>2, <1>3, <1>6, <2>2
<1>10. ASSUME NEW s \in Scopes, Pops(s)
       PROVE  /\ call'["meta"] = call["meta"] /\ call'["data"].object = call["data"].object
              /\ Len(objects') = Len(objects)
  <2>1. /\ call[s].at # "none" /\ Len(objects') = Len(objects)
        /\ call' = call \/ call' = [call EXCEPT ![s].at = "returned", ![s].result = "err"]
    BY <1>10 DEF Pops
  <2>2. s = "data"
    BY <1>5, <2>1
  <2> QED
    BY <1>1, <2>1, <2>2 DEF Call
<1>11. ASSUME NEW s \in Scopes, Settles(s)
       PROVE  /\ call'["meta"] = call["meta"] /\ call'["data"].object = call["data"].object
              /\ Len(objects') = Len(objects)
  <2>1. PICK result : /\ call[s].at # "none" /\ Len(objects') = Len(objects)
                      /\ call' = [call EXCEPT ![s].at = "returned", ![s].result = result]
    BY <1>11 DEF Settles
  <2>2. s = "data"
    BY <1>5, <2>1
  <2> QED
    BY <1>1, <2>1, <2>2 DEF Call
<1>12. ASSUME NEW s \in Scopes, NEW state, NEW end, NEW at, Finishes(s, state, end, at)
       PROVE  /\ call'["meta"] = call["meta"] /\ call'["data"].object = call["data"].object
              /\ Len(objects') = Len(objects)
  <2>1. /\ call[s].at # "none" /\ Len(objects') = Len(objects)
        /\ call' = [call EXCEPT ![s].at = at]
    BY <1>12 DEF Finishes, Ends
  <2>2. s = "data"
    BY <1>5, <2>1
  <2> QED
    BY <1>1, <2>1, <2>2 DEF Call
<1>13. ASSUME NEW o \in 1 .. Len(objects), NEW kind, NEW now, Registers(o, kind, now)
       PROVE  call' = call /\ Len(objects') = Len(objects)
  BY <1>13 DEF Registers
<1>14. CASE WritesOnly \/ UNCHANGED vars
  BY <1>4, <1>14 DEF WritesOnly, vars
<1> QED
  BY <1>4, <1>7, <1>8, <1>10, <1>11, <1>12, <1>13, <1>14 DEF Step

LEMMA StepReturned ==
  ASSUME Parameters, IInv, Lone, Returned, Step
  PROVE  Returned'
<1> DEFINE o == call["data"].object
           Told(state) ==
      \/ call'["data"].result = "ok" /\ state = "committed"
      \/ call'["data"].result = "err" /\ state \in {"committing", "rollingBack", "rolledBack"}
<1>1. /\ Typed /\ Phases /\ Len(objects) \in Nat
      /\ \A c \in Scopes : call[c].at # "none" => call[c].object \in 1 .. Len(objects)
      /\ call \in [Scopes -> Call] /\ \A c \in Scopes : call[c] \in Call
      /\ \A c \in 1 .. Len(objects) : objects[c] \in Obj
      /\ {"data", "meta"} = Scopes /\ "data" # "meta" /\ single' = single
  <2>1. single' = single
    BY DEF Step, Starts, Retries, NewAttempt, WritesOnly, Registers, Pops, Settles, Finishes,
           Ends, vars
  <2> QED
    BY <2>1, TypedAt DEF IInv, Typed, Scopes
<1> SUFFICES ASSUME single, call'["data"].at = "returned"
             PROVE  Told(objects'[call'["data"].object].state)
  BY <1>1, Zenon DEF Returned
<1>2. /\ call["meta"].at = "none"
      /\ call["data"].at = "returned" =>
           \/ call["data"].result = "ok" /\ objects[o].state = "committed"
           \/ /\ call["data"].result = "err"
              /\ objects[o].state \in {"committing", "rollingBack", "rolledBack"}
  BY Zenon DEF Lone, Returned
<1>3. ASSUME NEW s \in Scopes, call[s].at # "none" PROVE s = "data"
  BY <1>1, <1>2, <1>3
<1>4. ASSUME call' = call,
             \A j \in 1 .. Len(objects) : objects'[j].state = objects[j].state
      PROVE  Told(objects'[call'["data"].object].state)
  <2>1. o \in 1 .. Len(objects)
    BY <1>1, <1>4
  <2> QED
    BY <1>2, <1>4, <2>1
<1>5. ASSUME NEW s \in Scopes, NEW n, NewAttempt(s, n), call[s].at = "none" \/ call[s].at = "work",
             s = "meta" => call[s].at # "none"
      PROVE  FALSE
  <2>1. s = "data"
    BY <1>1, <1>2, <1>5
  <2> QED
    BY <1>5, <2>1 DEF NewAttempt
<1>6. ASSUME NEW s \in Scopes, Starts(s) PROVE FALSE
  BY <1>1, <1>5, <1>6 DEF Starts
<1>7. ASSUME NEW s \in Scopes, NEW n \in 0 .. MaxRetries, Retries(s, n) PROVE FALSE
  BY <1>5, <1>7 DEF Retries
<1>8. ASSUME NEW s \in Scopes, Pops(s)
      PROVE  Told(objects'[call'["data"].object].state)
  <2>1. s = "data"
    BY <1>3, <1>8 DEF Pops
  <2>2. /\ call["data"].at \in {"after", "back"} /\ objects'[o].state = objects[o].state
        /\ call' = call \/ call' = [call EXCEPT !["data"].at = "returned", !["data"].result = "err"]
    BY <1>8, <2>1 DEF Pops
  <2>3. call'["data"].object = o /\ call'["data"].result = "err"
    BY <1>1, <2>2 DEF Call
  <2>4. objects[o].state \in {"committing", "rollingBack"}
    BY <1>1, <2>2 DEF Phases
  <2> QED
    BY <2>2, <2>3, <2>4
<1>9. ASSUME NEW s \in Scopes, Settles(s)
      PROVE  Told(objects'[call'["data"].object].state)
  <2>1. s = "data"
    BY <1>3, <1>9 DEF Settles
  <2> DEFINE state == IF call["data"].at = "after" THEN "committed" ELSE "rolledBack"
             result == IF call["data"].at = "after" THEN "ok" ELSE "err"
  <2>2. /\ call["data"].at \in {"after", "back"}
        /\ objects'[o] = [objects[o] EXCEPT !.state = state]
        /\ call' = [call EXCEPT !["data"].at = "returned", !["data"].result = result]
    BY <1>9, <2>1 DEF Settles
  <2>3. objects[o] \in Obj
    BY <1>1, <2>2
  <2>4. objects'[o].state = state
    BY <2>2, <2>3 DEF Obj
  <2>5. call'["data"].object = o /\ call'["data"].result = result
    <3> HIDE DEF result
    <3> QED
      BY <1>1, <2>2 DEF Call
  <2> QED
    BY <2>4, <2>5
<1>10. ASSUME NEW s \in Scopes, NEW state, NEW end, NEW at \in {"after", "back"},
              Finishes(s, state, end, at)
       PROVE  FALSE
  <2>1. s = "data"
    BY <1>3, <1>10 DEF Finishes
  <2>2. call' = [call EXCEPT !["data"].at = at]
    BY <1>10, <2>1 DEF Finishes
  <2> QED
    BY <1>1, <2>2 DEF Call
<1>11. ASSUME NEW c \in 1 .. Len(objects), NEW kind, NEW now, Registers(c, kind, now)
       PROVE  Told(objects'[call'["data"].object].state)
  BY <1>4, <1>11 DEF Registers
<1>12. CASE WritesOnly \/ UNCHANGED vars
  BY <1>4, <1>12 DEF WritesOnly, vars
<1> QED
  BY <1>6, <1>7, <1>8, <1>9, <1>10, <1>11, <1>12 DEF Step

LEMMA FullInvHolds ==
  ASSUME Parameters
  PROVE  Spec => []FullInv
<1>1. Init => FullInv
  <2> SUFFICES ASSUME Init PROVE FullInv
    OBVIOUS
  <2>1. AfterKept /\ Lone /\ Returned
    BY DEF Init, AfterKept, Lone, Returned, NoCall, Scopes
  <2> QED
    BY <2>1, InitInv DEF FullInv
<1>2. FullInv /\ [Next]_vars => FullInv'
  BY StepIs, StepInv, StepAfterKept, StepLone, StepReturned DEF FullInv
<1> QED
  BY <1>1, <1>2, PTL DEF Spec

---------------------------------------------------------------------------
(* Theorems                                                                *)

\* The calls, transactions, objects and hooks keep their types, whatever the
\* number of attempts, hooks and failures.
THEOREM TypeCorrect ==
  ASSUME Parameters
  PROVE  Spec => []TypeOK
<1>1. IInv => TypeOK
  <2> SUFFICES ASSUME IInv PROVE TypeOK
    OBVIOUS
  <2>1. Typed /\ Len(objects) = Len(txs)
    BY DEF IInv, Typed
  <2>2. \A s \in Scopes : call[s] \in Call /\ call[s].object \in 0 .. Len(objects)
    BY <2>1, TypedAt DEF Typed
  <2>3. \A o \in 1 .. Len(objects) : objects[o] \in Obj /\ objects[o].tx = o
    BY <2>1, TypedAt DEF Typed
  <2>4. ran \subseteq 1 .. Len(hooks)
    BY <2>1 DEF Typed
  <2> QED
    BY <2>1, <2>2, <2>3, <2>4 DEF TypeOK, Call, Obj
<1> QED
  BY <1>1, InvHolds, PTL

\* A hook runs only with the outcome it was registered for: an afterCommit hook
\* when the attempt it was registered in has committed, an afterRollback hook
\* when it has not, for any number of attempts, hooks and failures.
THEOREM HooksAlwaysFollowTheirAttempt ==
  ASSUME Parameters
  PROVE  Spec => []HooksFollowTheirAttempt
<1>1. IInv => HooksFollowTheirAttempt
  <2> SUFFICES ASSUME IInv, NEW h \in ran
               PROVE  (hooks[h].kind = "after") <=> (txs[hooks[h].tx].end = "committed")
    BY DEF HooksFollowTheirAttempt
  <2>1. hooks[h] \in Hook
    BY TypedAt DEF IInv, Typed
  <2>2. hooks[h].kind \in {"after", "back"}
    BY <2>1 DEF Hook
  <2> QED
    BY <2>2 DEF IInv, RanRight, Ended
<1> QED
  BY <1>1, InvHolds, PTL

\* In one physical database the result tells what happened: after ok exactly the
\* last attempt has committed and its afterCommit hooks ran; after an error
\* nothing has, unless one of those hooks threw.
THEOREM ResultAlwaysTells ==
  ASSUME Parameters
  PROVE  Spec => []ResultTellsWhatHappened
<1>1. FullInv => ResultTellsWhatHappened
  <2> DEFINE o == call["data"].object
  <2> SUFFICES ASSUME FullInv, single, call["data"].at = "returned"
               PROVE  IF call["data"].result = "ok"
                      THEN /\ Committed = {TxOf("data")}
                           /\ \A h \in 1 .. Len(hooks) :
                                hooks[h].kind = "after" /\ hooks[h].tx = TxOf("data") => h \in ran
                      ELSE \A tx \in Committed : HookThrew(tx)
    BY Zenon DEF ResultTellsWhatHappened
  <2>1. /\ Typed /\ Outcomes /\ AfterKept /\ "data" \in Scopes
        /\ o \in 1 .. Len(objects) /\ TxOf("data") = o /\ Len(txs) = Len(objects)
        /\ objects[o].tx = o
    BY TypedAt DEF FullInv, IInv, Typed, Scopes
  <2>2. \A j \in 1 .. Len(objects) : j # o => txs[j].end = "aborted"
    BY Zenon DEF FullInv, Lone
  <2>3. \/ call["data"].result = "ok" /\ objects[o].state = "committed"
        \/ /\ call["data"].result = "err"
           /\ objects[o].state \in {"committing", "rollingBack", "rolledBack"}
    BY Zenon DEF FullInv, Returned
  <2>4. CASE call["data"].result = "ok"
    <3>1. objects[o].state = "committed" /\ txs[o].end = "committed"
      BY <2>1, <2>3, <2>4 DEF Outcomes
    <3>2. Committed = {o}
      BY <2>1, <2>2, <3>1 DEF Committed
    <3> QED
      BY <2>1, <2>4, <3>1, <3>2 DEF AfterKept
  <2>5. CASE call["data"].result # "ok"
    <3> SUFFICES ASSUME NEW tx \in Committed PROVE HookThrew(tx)
      BY <2>5
    <3>1. tx = o /\ txs[o].end = "committed"
      BY <2>1, <2>2 DEF Committed
    <3>2. objects[o].state = "committing"
      BY <2>1, <2>3, <2>5, <3>1 DEF Outcomes, Ended
    <3> QED
      BY <2>1, <3>1, <3>2 DEF HookThrew
  <2> QED
    BY <2>4, <2>5
<1> QED
  BY <1>1, FullInvHolds, PTL
===========================================================================
