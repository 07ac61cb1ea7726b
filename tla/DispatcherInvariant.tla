------------------------ MODULE DispatcherInvariant -------------------------
(***************************************************************************)
(* The inductive invariant of Dispatcher, for any number of clients, calls *)
(* and callbacks, and that every step preserves it: first its conjuncts    *)
(* about the threads and the calls, then those about the lines in which    *)
(* callbacks wait.  The theorems are in DispatcherProofs.                  *)
(***************************************************************************)
EXTENDS Dispatcher, SequenceTheorems, TLAPS

(***************************************************************************)
(* Sequences.                                                              *)
(***************************************************************************)

\* Sequences over a set are sequences over a larger set.
LEMMA SeqMono ==
    ASSUME NEW A, NEW B, A \subseteq B, NEW s \in Seq(A)
    PROVE  s \in Seq(B)
  OBVIOUS

\* A function on 1 .. n is a sequence.
LEMMA FunIsSeq ==
    ASSUME NEW S, NEW n \in Nat, NEW f \in [1..n -> S]
    PROVE  f \in Seq(S) /\ Len(f) = n
  OBVIOUS

(***************************************************************************)
(* Types.                                                                  *)
(***************************************************************************)

Answer == [state : {"pending", "value", "exception", "broken"},
           callbacks : Seq(Callbacks)]
Entry == [window : Calls, mode : Modes, by : Threads \cup {Nobody}]

\* A call that is pushed is the newest, pending and last in the queue.
LEMMA PushStep ==
    ASSUME TypeOK, NEW m \in Modes, PushExternalOrder(m), UNCHANGED log
    PROVE  /\ Calls \subseteq Calls' /\ Callbacks' = Callbacks
           /\ Len(mode) + 1 \in Calls' /\ Len(mode) + 1 \notin Calls
           /\ Calls' = Calls \cup {Len(mode) + 1}
           /\ mode' \in Seq(Modes) /\ Len(mode') = Len(mode) + 1
           /\ mode'[Len(mode) + 1] = m
           /\ \A i \in Calls : mode'[i] = mode[i] /\ promise'[i] = promise[i]
           /\ promise' \in Seq(Answer') /\ Len(promise') = Len(mode')
           /\ promise'[Len(mode) + 1] = Pending
           /\ external_order_queue' \in Seq(Calls' \cup {Null})
           /\ log' \in Seq(Entry')
           /\ elem \in Calls' \cup {Null}
           /\ Len(mode) \in Nat
<1>1. /\ mode \in Seq(Modes) /\ promise \in Seq(Answer) /\ Len(promise) = Len(mode)
      /\ external_order_queue \in Seq(Calls \cup {Null}) /\ log \in Seq(Entry)
      /\ elem \in Calls \cup {Null}
  BY DEF TypeOK, Answer, Entry
<1>2. Len(mode) \in Nat
  BY <1>1
<1>3. Callbacks' = Callbacks
  BY DEF Callbacks
<1>4. /\ mode' \in Seq(Modes) /\ Len(mode') = Len(mode) + 1
      /\ mode'[Len(mode) + 1] = m
      /\ \A i \in 1 .. Len(mode) : mode'[i] = mode[i]
  BY <1>1, AppendProperties DEF PushExternalOrder
<1>5. /\ Calls \subseteq Calls' /\ Calls' = Calls \cup {Len(mode) + 1}
      /\ Len(mode) + 1 \notin Calls
  BY <1>2, <1>4 DEF Calls
<1>6. Pending \in Answer
  BY EmptySeq DEF Pending, Answer
<1>7. /\ promise' \in Seq(Answer) /\ Len(promise') = Len(promise) + 1
      /\ promise'[Len(promise) + 1] = Pending
      /\ \A i \in 1 .. Len(promise) : promise'[i] = promise[i]
  BY <1>1, <1>6, AppendProperties DEF PushExternalOrder
<1>8. Answer' = Answer
  BY <1>3 DEF Answer
<1>9. external_order_queue' \in Seq(Calls' \cup {Null})
  <2>1. external_order_queue \in Seq(Calls' \cup {Null})
    BY <1>1, <1>5, SeqMono
  <2> QED
    BY <1>5, <2>1, AppendProperties DEF PushExternalOrder
<1>10. log' \in Seq(Entry')
  <2>1. Entry \subseteq Entry'
    BY <1>5 DEF Entry
  <2> QED
    BY <1>1, <2>1, SeqMono
<1> QED
  BY <1>1, <1>2, <1>3, <1>4, <1>5, <1>7, <1>8, <1>9, <1>10 DEF Calls

\* A callback that runs is marked in the log, nothing else of it changes.
LEMMA RunStep ==
    ASSUME TypeOK, NEW k \in Callbacks, NEW t \in Threads,
           log' = [log EXCEPT ![k].by = t], UNCHANGED mode
    PROVE  /\ Callbacks' = Callbacks /\ Calls' = Calls
           /\ log' \in Seq(Entry')
           /\ \A n \in Callbacks : /\ log'[n].window = log[n].window
                                   /\ log'[n].mode = log[n].mode
                                   /\ log'[n].by = IF n = k THEN t ELSE log[n].by
<1> DEFINE e == [log[k] EXCEPT !.by = t]
<1>1. log \in Seq(Entry) /\ k \in 1 .. Len(log)
  BY DEF TypeOK, Entry, Callbacks
<1>2. log[k] \in Entry
  BY <1>1, ElementOfSeq
<1>3. e \in Entry /\ e.window = log[k].window /\ e.mode = log[k].mode /\ e.by = t
  BY <1>2 DEF Entry
<1>4. log' = [log EXCEPT ![k] = e]
  OBVIOUS
<1> HIDE DEF e
<1>5. /\ log' \in Seq(Entry) /\ Len(log') = Len(log)
      /\ \A j \in 1 .. Len(log) : log'[j] = IF j = k THEN e ELSE log[j]
  BY <1>1, <1>3, <1>4, ExceptSeq
<1>6. Callbacks' = Callbacks /\ Calls' = Calls
  BY <1>5 DEF Callbacks, Calls
<1>7. Entry' = Entry
  BY <1>6 DEF Entry
<1> QED
  BY <1>3, <1>5, <1>6, <1>7 DEF Callbacks

\* A callback that is produced is the newest in the log.
LEMMA FireStep ==
    ASSUME TypeOK, NEW m \in Modes, elem \in Calls, UNCHANGED mode,
           log' = Append(log, [window |-> elem, mode |-> m, by |-> Nobody])
    PROVE  /\ Callbacks \subseteq Callbacks' /\ Calls' = Calls
           /\ Len(log) + 1 \in Callbacks' /\ Len(log) + 1 \notin Callbacks
           /\ Callbacks' = Callbacks \cup {Len(log) + 1}
           /\ log' \in Seq(Entry')
           /\ \A n \in Callbacks : log'[n] = log[n]
           /\ log'[Len(log) + 1] = [window |-> elem, mode |-> m, by |-> Nobody]
           /\ Len(log) \in Nat
<1> DEFINE e == [window |-> elem, mode |-> m, by |-> Nobody]
<1>1. log \in Seq(Entry)
  BY DEF TypeOK, Entry
<1>2. e \in Entry
  BY DEF Entry
<1> HIDE DEF e
<1>3. /\ log' \in Seq(Entry) /\ Len(log') = Len(log) + 1
      /\ log'[Len(log) + 1] = e
      /\ \A n \in 1 .. Len(log) : log'[n] = log[n]
  BY <1>1, <1>2, AppendProperties DEF e
<1>4. Len(log) \in Nat
  BY <1>1
<1>5. Calls' = Calls
  BY DEF Calls
<1>6. Entry' = Entry
  BY <1>5 DEF Entry
<1> QED
  BY <1>3, <1>4, <1>5, <1>6 DEF Callbacks, e

\* One answer changes.
LEMMA AnswerStep ==
    ASSUME TypeOK, NEW i \in Calls, NEW a \in Answer,
           promise' = [promise EXCEPT ![i] = a], UNCHANGED <<mode, log>>
    PROVE  /\ promise' \in Seq(Answer') /\ Len(promise') = Len(mode')
           /\ \A j \in Calls : promise'[j] = IF j = i THEN a ELSE promise[j]
           /\ Calls' = Calls /\ Callbacks' = Callbacks
<1>1. promise \in Seq(Answer) /\ Len(promise) = Len(mode) /\ i \in 1 .. Len(promise)
  BY DEF TypeOK, Answer, Calls
<1>2. /\ promise' \in Seq(Answer) /\ Len(promise') = Len(promise)
      /\ \A j \in 1 .. Len(promise) : promise'[j] = IF j = i THEN a ELSE promise[j]
  BY <1>1, ExceptSeq
<1>3. Calls' = Calls /\ Callbacks' = Callbacks
  BY DEF Calls, Callbacks
<1>4. Answer' = Answer
  BY <1>3 DEF Answer
<1> QED
  BY <1>1, <1>2, <1>3, <1>4 DEF Calls

\* Some answers break.
LEMMA BreakStep ==
    ASSUME TypeOK, NEW S,
           promise' = [i \in DOMAIN promise |->
                          IF i \in S THEN Broken(i) ELSE promise[i]],
           UNCHANGED <<mode, log>>
    PROVE  /\ promise' \in Seq(Answer') /\ Len(promise') = Len(mode')
           /\ \A i \in Calls :
                  /\ promise'[i].callbacks = promise[i].callbacks
                  /\ promise'[i].state = IF i \in S THEN "broken" ELSE promise[i].state
           /\ Calls' = Calls /\ Callbacks' = Callbacks
<1>1. /\ promise \in Seq(Answer) /\ Len(promise) = Len(mode) /\ Len(promise) \in Nat
      /\ DOMAIN promise = 1 .. Len(promise)
  BY DEF TypeOK, Answer
<1>2. ASSUME NEW i \in 1 .. Len(promise)
      PROVE  /\ promise[i] \in Answer /\ Broken(i) \in Answer
             /\ Broken(i).callbacks = promise[i].callbacks
             /\ Broken(i).state = "broken"
  <2>1. promise[i] \in Answer
    BY <1>1, ElementOfSeq
  <2> QED
    BY <2>1 DEF Answer, Broken
<1>3. promise' \in [1 .. Len(promise) -> Answer]
  BY <1>1, <1>2
<1>4. promise' \in Seq(Answer) /\ Len(promise') = Len(promise)
  BY <1>1, <1>3, FunIsSeq
<1>5. Calls' = Calls /\ Callbacks' = Callbacks
  BY DEF Calls, Callbacks
<1>6. Answer' = Answer
  BY <1>5 DEF Answer
<1> QED
  BY <1>1, <1>2, <1>4, <1>5, <1>6 DEF Calls

(***************************************************************************)
(* The inductive invariant.                                                *)
(***************************************************************************)

\* What the dispatcher holds at each place.
DispatcherState ==
    /\ dispatcher \in {"sleep", "join", "exit"} => elem = Null
    /\ dispatcher \in {"window", "set_value", "set_exception"} =>
           elem \in Calls /\ promise[elem].state = "pending"
    /\ dispatcher = "popped" =>
           \/ elem \in Calls /\ promise[elem].state = "pending"
           \/ elem = Null /\ ~ master_run_flag
    /\ dispatcher # "set_value" => copies = <<>>
    /\ dispatcher = "set_value" /\ mode[elem] = "async" => copies = <<>>
    /\ master_run_flag <=> destructor = "none"

\* What the callback thread holds at each place; Null is the last element of
\* the queue it is in, and comes when the dispatcher has left its loop.
BatchState ==
    /\ pc[AsyncThread] \in {"sleep", "batch", "callback", "get", "run",
                            "notify", "last_notify", "exit"}
    /\ pc[AsyncThread] \in {"callback", "get", "run"} =>
           batch # <<>> /\ Head(batch) # Null
    /\ pc[AsyncThread] \in {"sleep", "notify", "last_notify", "exit"} => batch = <<>>
    /\ pc[AsyncThread] \in {"last_notify", "exit"} =>
           callbacks_async = <<>> /\ dispatcher \in {"join", "exit"}
    /\ \A j \in 1 .. Len(batch) : batch[j] = Null =>
           /\ j = Len(batch) /\ callbacks_async = <<>>
           /\ dispatcher \in {"join", "exit"}
    /\ \A j \in 1 .. Len(callbacks_async) : callbacks_async[j] = Null =>
           j = Len(callbacks_async) /\ dispatcher \in {"join", "exit"}

\* A thread in a synchronous call, and no other, has a call; no two the same.
Callers ==
    /\ \A t \in Threads : call[t] # Null <=> pc[t] \in {"get", "run"}
    /\ \A t \in Threads : call[t] # Null => mode[call[t]] = "sync"
    /\ \A t, u \in Threads : call[t] = call[u] /\ call[t] # Null => t = u
    /\ \A t \in Threads : pc[t] # "run" => todo[t] = <<>>
    /\ \A c \in Clients : pc[c] \in {"idle", "get", "run", "blocked", "woken"}


\* A call in the queue, or popped, has no answer yet; it is there once.
QueueState ==
    \A j \in 1 .. Len(external_order_queue) :
        LET i == external_order_queue[j]
        IN  /\ i = Null => ~ master_run_flag
            /\ i # Null => /\ promise[i].state = "pending"
                           /\ i # elem
                           /\ \A k \in 1 .. Len(external_order_queue) :
                                  external_order_queue[k] = i => k = j

\* A synchronous call without an answer has a thread that waits for it, and
\* so has an answer that still holds its callbacks.
AnswerState ==
    /\ Len(mode) <= MaxCalls
    /\ \A i \in Calls :
           /\ promise[i].state = "pending" /\ mode[i] = "sync" =>
                  \E t \in Threads : call[t] = i /\ pc[t] = "get"
           /\ promise[i].callbacks # <<>> =>
                  /\ promise[i].state = "value"
                  /\ \E t \in Threads : call[t] = i /\ pc[t] = "get"

(***************************************************************************)
(* The places where callbacks wait, and the line of those at each.         *)
(***************************************************************************)

Sync == <<"callbacks_sync", 0>>
Copies == <<"copies", 0>>
Async == <<"callbacks_async", 0>>
Batch == <<"batch", 0>>
AnswerTo(i) == <<"promise", i>>
TodoOf(t) == <<"todo", t>>

Places ==
    {Sync, Copies, Async, Batch}
        \cup {AnswerTo(i) : i \in 1 .. MaxCalls} \cup {TodoOf(t) : t \in Threads}

Line(p) ==
    CASE p[1] = "callbacks_sync" -> callbacks_sync
      [] p[1] = "copies" -> copies
      [] p[1] = "callbacks_async" -> callbacks_async
      [] p[1] = "batch" -> batch
      [] p[1] = "promise" -> IF p[2] \in Calls THEN promise[p[2]].callbacks ELSE <<>>
      [] p[1] = "todo" -> todo[p[2]]

Waits(n, p, j) == j \in 1 .. Len(Line(p)) /\ Line(p)[j] = n

\* A callback waits exactly when it has not been run, and in one place; the
\* way its order came in decides the places that it can pass.
InOnePlace ==
    \A n \in Callbacks :
        /\ log[n].by = Nobody <=> \E p \in Places, j \in Nat : Waits(n, p, j)
        /\ \A p, q \in Places : \A j, k \in Nat :
               Waits(n, p, j) /\ Waits(n, q, k) => p = q /\ j = k
        /\ \A p \in Places, j \in Nat :
               Waits(n, p, j) => (log[n].mode = "async" <=> p \in {Async, Batch})

\* Only the callback thread runs asynchronous callbacks.
Runners ==
    \A n \in Callbacks :
        log[n].mode = "async" => log[n].by \in {Nobody, AsyncThread}

\* Where a callback can wait that was produced in window w of a synchronous
\* call: with the open window, with the answer, or with the thread that took
\* the answer; only those of failed windows can wait elsewhere.
InWindow(w, p) ==
    \/ promise[w].state \in {"exception", "broken"}
    \/ /\ promise[w].state = "pending"
       /\ w = elem
       /\ \/ dispatcher \in {"window", "set_exception"} /\ p = Sync
          \/ dispatcher = "set_value" /\ p = Copies
    \/ /\ promise[w].state = "value"
       /\ \E t \in Threads :
              /\ call[t] = w
              /\ \/ p = AnswerTo(w) /\ pc[t] = "get"
                 \/ p = TodoOf(t)

Windows ==
    \A n \in Callbacks : \A p \in Places, j \in Nat :
        /\ Waits(n, p, j)
        /\ log[n].mode = "sync"
        /\ mode[log[n].window] = "sync"
        => InWindow(log[n].window, p)

\* The flag says that the callback thread has nothing in hand; a wait began
\* when the callbacks that it waits for were in the log.
DoneState ==
    /\ async_callbacks_done => batch = <<>>
    /\ \A c \in Clients : wait_from[c] <= Len(log)

\* Calls are popped in the order in which they were made, so that windows
\* that have produced callbacks are not later than the calls that follow.
QueueOrder ==
    /\ \A j, k \in 1 .. Len(external_order_queue) :
           /\ j < k
           /\ external_order_queue[j] # Null
           /\ external_order_queue[k] # Null
           => external_order_queue[j] < external_order_queue[k]
    /\ \A j \in 1 .. Len(external_order_queue) :
           external_order_queue[j] # Null =>
               /\ elem # Null => elem < external_order_queue[j]
               /\ \A n \in Callbacks : log[n].window < external_order_queue[j]
    /\ elem # Null => \A n \in Callbacks : log[n].window <= elem

\* A call takes no callback of a later window, and runs callbacks only when
\* it has ended with a value.
LateWindows ==
    /\ \A n \in Callbacks : \A i \in Calls, j \in Nat :
           Waits(n, AnswerTo(i), j) => log[n].window <= i
    /\ \A n \in Callbacks : \A t \in Threads, j \in Nat :
           Waits(n, TodoOf(t), j) => log[n].window <= call[t]
    /\ \A t \in Threads : pc[t] = "run" => promise[call[t]].state = "value"

IInv ==
    /\ TypeOK /\ DispatcherState /\ BatchState /\ Callers /\ QueueState
    /\ AnswerState /\ InOnePlace /\ Runners /\ Windows /\ DoneState
    /\ QueueOrder /\ LateWindows

\* Every step preserves TypeOK.
LEMMA TypeStep ==
    ASSUME TypeOK, DispatcherState, BatchState, Callers, [Next]_vars
    PROVE  TypeOK'
<1>1. CASE UNCHANGED vars
  BY <1>1
     DEF vars, TypeOK, Calls, Callbacks, queues, dispatching, threads, Threads
<1>2. ASSUME NEW t \in Threads, SyncCall(t)
      PROVE  TypeOK'
  <2>1. UNCHANGED log /\ PushExternalOrder("sync") /\ "sync" \in Modes
    BY <1>2 DEF SyncCall, Modes
  <2>2. call' = [call EXCEPT ![t] = Len(mode) + 1] /\ pc' = [pc EXCEPT ![t] = "get"]
    BY <1>2 DEF SyncCall
  <2>3. call' \in [Threads -> Calls' \cup {Null}]
    BY <2>1, <2>2, PushStep DEF TypeOK
  <2>4. pc' \in [Threads -> {"idle", "get", "run", "blocked", "woken", "sleep",
                            "batch", "callback", "notify", "last_notify", "exit"}]
    BY <2>2 DEF TypeOK
  <2> QED
    BY <1>2, <2>1, <2>3, <2>4, PushStep
       DEF SyncCall, TypeOK, Answer, Entry, dispatching
<1>3. ASSUME NEW t \in Threads, Get(t)
      PROVE  TypeOK'
  <2>1. t \in Threads /\ call[t] \in Calls
    BY <1>3 DEF Get, Callers, TypeOK
  <2>2. promise[call[t]] \in Answer
    BY <2>1, ElementOfSeq DEF TypeOK, Answer, Calls
  <2>3. Calls' = Calls /\ Callbacks' = Callbacks
    BY <1>3 DEF Get, Calls, Callbacks
  <2>4. pc' \in [Threads -> {"idle", "get", "run", "blocked", "woken", "sleep",
                            "batch", "callback", "notify", "last_notify", "exit"}]
    BY <1>3 DEF Get, Resume, TypeOK
  <2>5. call' \in [Threads -> Calls \cup {Null}]
    BY <1>3 DEF Get, TypeOK
  <2>6. todo' \in [Threads -> Seq(Callbacks)]
    BY <1>3, <2>2 DEF Get, TypeOK, Answer
  <2>7. promise' \in Seq(Answer) /\ Len(promise') = Len(mode)
    <3> DEFINE a == [promise[call[t]] EXCEPT !.callbacks = <<>>]
    <3>1. a \in Answer
      BY <2>2, EmptySeq DEF Answer
    <3>2. \/ promise' = [promise EXCEPT ![call[t]] = a]
          \/ promise' = promise
      BY <1>3 DEF Get
    <3> HIDE DEF a
    <3>3. promise \in Seq(Answer) /\ Len(promise) = Len(mode) /\ call[t] \in 1 .. Len(promise)
      BY <2>1 DEF TypeOK, Answer, Calls
    <3> QED
      BY <3>1, <3>2, <3>3, ExceptSeq
  <2> QED
    BY <1>3, <2>3, <2>4, <2>5, <2>6, <2>7
       DEF Get, TypeOK, Answer, queues, dispatching
<1>4. ASSUME NEW t \in Threads, RunSyncCallback(t)
      PROVE  TypeOK'
  <2>1. todo[t] \in Seq(Callbacks) /\ todo[t] # <<>>
    BY <1>4 DEF RunSyncCallback, TypeOK
  <2>2. Head(todo[t]) \in Callbacks /\ Tail(todo[t]) \in Seq(Callbacks)
    BY <2>1, HeadTailProperties
  <2>3. /\ log' = [log EXCEPT ![Head(todo[t])].by = t] /\ UNCHANGED mode
        /\ todo' = [todo EXCEPT ![t] = Tail(todo[t])]
    BY <1>4 DEF RunSyncCallback
  <2>4. log' \in Seq(Entry') /\ Callbacks' = Callbacks /\ Calls' = Calls
    BY <2>2, <2>3, RunStep
  <2>5. todo' \in [Threads -> Seq(Callbacks)]
    BY <2>2, <2>3 DEF TypeOK
  <2> QED
    BY <1>4, <2>4, <2>5 DEF RunSyncCallback, TypeOK, Entry, queues, dispatching
<1>5. ASSUME NEW t \in Threads, Return(t)
      PROVE  TypeOK'
  <2>1. Calls' = Calls /\ Callbacks' = Callbacks
    BY <1>5 DEF Return, Calls, Callbacks
  <2>2. pc' \in [Threads -> {"idle", "get", "run", "blocked", "woken", "sleep",
                            "batch", "callback", "notify", "last_notify", "exit"}]
    BY <1>5 DEF Return, Resume, TypeOK
  <2>3. call' \in [Threads -> Calls \cup {Null}]
    BY <1>5 DEF Return, TypeOK
  <2> QED
    BY <1>5, <2>1, <2>2, <2>3 DEF Return, TypeOK, queues, dispatching
<1>6. ASSUME NEW c \in Clients, AsyncCall(c)
      PROVE  TypeOK'
  <2>1. UNCHANGED log /\ PushExternalOrder("async") /\ "async" \in Modes
    BY <1>6 DEF AsyncCall, Modes
  <2>2. call' \in [Threads -> Calls' \cup {Null}]
    BY <1>6, <2>1, PushStep DEF AsyncCall, TypeOK, threads
  <2> QED
    BY <1>6, <2>1, <2>2, PushStep
       DEF AsyncCall, TypeOK, Answer, Entry, dispatching, threads
<1>7. ASSUME NEW c \in Clients, BeginWait(c)
      PROVE  TypeOK'
  BY <1>7
     DEF BeginWait, TypeOK, Calls, Callbacks, queues, dispatching, threads,
         Threads
<1>8. ASSUME NEW c \in Clients, SpuriousWakeup(c)
      PROVE  TypeOK'
  BY <1>8
     DEF SpuriousWakeup, TypeOK, Calls, Callbacks, queues, dispatching,
         threads, Threads
<1>9. ASSUME NEW c \in Clients, CheckPredicate(c)
      PROVE  TypeOK'
  BY <1>9
     DEF CheckPredicate, TypeOK, Calls, Callbacks, queues, dispatching,
         threads, Threads
<1>10. CASE Pop
  BY <1>10
     DEF Pop, TypeOK, Calls, Callbacks, queues, dispatching, threads, Threads
<1>11. CASE OpenWindow
  <2>1. Calls' = Calls /\ Callbacks' = Callbacks
    BY <1>11 DEF OpenWindow, Calls, Callbacks
  <2> QED
    BY <1>11, <2>1, OpsAssumption DEF OpenWindow, TypeOK, queues, threads
<1>12. CASE LeaveLoop
  <2>1. /\ promise' = [i \in DOMAIN promise |->
                          IF i \in {elem} THEN Broken(i) ELSE promise[i]]
        /\ UNCHANGED <<mode, log>>
        /\ callbacks_async' = Append(callbacks_async, Null)
    BY <1>12 DEF LeaveLoop
  <2>2. /\ promise' \in Seq(Answer') /\ Len(promise') = Len(mode')
        /\ Calls' = Calls /\ Callbacks' = Callbacks
    BY <2>1, BreakStep
  <2>3. callbacks_async' \in Seq(Callbacks \cup {Null})
    BY <2>1, AppendProperties DEF TypeOK
  <2> QED
    BY <1>12, <2>2, <2>3 DEF LeaveLoop, TypeOK, Answer, threads
<1>13. CASE JoinAsyncThread
  BY <1>13
     DEF JoinAsyncThread, TypeOK, Calls, Callbacks, queues, dispatching,
         threads, Threads
<1>14. ASSUME NEW m \in Modes, Fire(m)
      PROVE  TypeOK'
  <2>1. /\ log' = Append(log, [window |-> elem, mode |-> m, by |-> Nobody])
        /\ UNCHANGED <<mode, promise, copies, todo, batch>>
    BY <1>14 DEF Fire, threads
  <2>2. elem \in Calls
    BY <1>14 DEF Fire, DispatcherState
  <2>3. /\ log' \in Seq(Entry') /\ Calls' = Calls /\ Callbacks \subseteq Callbacks'
        /\ Len(log) + 1 \in Callbacks'
    BY <2>1, <2>2, FireStep
  <2>4. /\ Seq(Callbacks) \subseteq Seq(Callbacks')
        /\ Seq(Callbacks \cup {Null}) \subseteq Seq(Callbacks' \cup {Null})
    BY <2>3, SeqMono
  <2>5. promise' \in Seq(Answer')
    <3>1. Answer \subseteq Answer'
      BY <2>4 DEF Answer
    <3>2. promise \in Seq(Answer) /\ promise' = promise
      BY <2>1 DEF TypeOK, Answer
    <3> QED
      BY <3>1, <3>2, SeqMono
  <2>6. todo' \in [Threads -> Seq(Callbacks')]
    BY <2>1, <2>4 DEF TypeOK
  <2>7. callbacks_sync' \in Seq(Callbacks') /\ callbacks_async' \in Seq(Callbacks' \cup {Null})
    <3>1. /\ callbacks_sync \in Seq(Callbacks')
          /\ callbacks_async \in Seq(Callbacks' \cup {Null})
      BY <2>4 DEF TypeOK
    <3>2. /\ Append(callbacks_sync, Len(log) + 1) \in Seq(Callbacks')
          /\ Append(callbacks_async, Len(log) + 1) \in Seq(Callbacks' \cup {Null})
      BY <2>3, <3>1, AppendProperties
    <3>3. /\ callbacks_sync' \in {callbacks_sync, Append(callbacks_sync, Len(log) + 1)}
          /\ callbacks_async' \in {callbacks_async, Append(callbacks_async, Len(log) + 1)}
      BY <1>14 DEF Fire
    <3> QED
      BY <3>1, <3>2, <3>3
  <2>8. fires' \in 0 .. MaxFires
    BY <1>14, OpsAssumption DEF Fire, TypeOK
  <2>9. copies' \in Seq(Callbacks') /\ batch' \in Seq(Callbacks' \cup {Null})
    BY <2>1, <2>4 DEF TypeOK
  <2> QED
    BY <1>14, <2>1, <2>3, <2>5, <2>6, <2>7, <2>8, <2>9
       DEF Fire, TypeOK, Answer, Entry, threads
<1>15. CASE CloseWindow
  <2>1. Calls' = Calls /\ Callbacks' = Callbacks
    BY <1>15 DEF CloseWindow, Calls, Callbacks
  <2>2. callbacks_sync' \in Seq(Callbacks) /\ copies' \in Seq(Callbacks)
    BY <1>15, EmptySeq DEF CloseWindow, TypeOK
  <2> QED
    BY <1>15, <2>1, <2>2 DEF CloseWindow, TypeOK, threads
<1>16. CASE ThrowInWindow
  BY <1>16
     DEF ThrowInWindow, TypeOK, Calls, Callbacks, queues, dispatching, threads,
         Threads
<1>17. CASE SetValue
  <2> DEFINE a == [state |-> "value", callbacks |-> copies]
  <2>1. promise' = [promise EXCEPT ![elem] = a] /\ UNCHANGED <<mode, log>>
    BY <1>17 DEF SetValue
  <2>2. elem \in Calls /\ a \in Answer
    BY <1>17 DEF SetValue, DispatcherState, TypeOK, Answer
  <2> HIDE DEF a
  <2>3. /\ promise' \in Seq(Answer') /\ Len(promise') = Len(mode')
        /\ Calls' = Calls /\ Callbacks' = Callbacks
    BY <2>1, <2>2, AnswerStep
  <2>4. copies' \in Seq(Callbacks)
    BY <1>17, EmptySeq DEF SetValue
  <2> QED
    BY <1>17, <2>3, <2>4 DEF SetValue, TypeOK, Answer, queues, threads
<1>18. CASE SetException
  <2> DEFINE a == [promise[elem] EXCEPT !.state = "exception"]
  <2>1. promise' = [promise EXCEPT ![elem] = a] /\ UNCHANGED <<mode, log>>
    BY <1>18 DEF SetException
  <2>2. elem \in Calls /\ a \in Answer
    <3>1. elem \in Calls
      BY <1>18 DEF SetException, DispatcherState, TypeOK
    <3>2. promise[elem] \in Answer
      BY <3>1, ElementOfSeq DEF TypeOK, Answer, Calls
    <3> QED
      BY <3>1, <3>2 DEF Answer
  <2> HIDE DEF a
  <2>3. /\ promise' \in Seq(Answer') /\ Len(promise') = Len(mode')
        /\ Calls' = Calls /\ Callbacks' = Callbacks
    BY <2>1, <2>2, AnswerStep
  <2> QED
    BY <1>18, <2>3 DEF SetException, TypeOK, Answer, queues, threads
<1>19. CASE TakeBatch
  <2>1. Calls' = Calls /\ Callbacks' = Callbacks
    BY <1>19 DEF TakeBatch, Calls, Callbacks
  <2>2. /\ callbacks_async' \in Seq(Callbacks \cup {Null})
        /\ batch' \in Seq(Callbacks \cup {Null})
    BY <1>19, EmptySeq DEF TakeBatch, TypeOK
  <2> QED
    BY <1>19, <2>1, <2>2 DEF TakeBatch, TypeOK, dispatching
<1>20. CASE BeginCallback
  BY <1>20
     DEF BeginCallback, TypeOK, Calls, Callbacks, queues, dispatching, threads,
         Threads
<1>21. CASE EndCallback
  <2>1. batch \in Seq(Callbacks \cup {Null}) /\ batch # <<>> /\ Head(batch) # Null
    BY <1>21 DEF EndCallback, TypeOK, BatchState
  <2>2. Head(batch) \in Callbacks /\ Tail(batch) \in Seq(Callbacks \cup {Null})
    BY <2>1, HeadTailProperties
  <2>3. AsyncThread \in Threads
    BY DEF Threads
  <2>4. log' = [log EXCEPT ![Head(batch)].by = AsyncThread] /\ UNCHANGED mode
    BY <1>21 DEF EndCallback
  <2>5. log' \in Seq(Entry') /\ Callbacks' = Callbacks /\ Calls' = Calls
    BY <2>2, <2>3, <2>4, RunStep
  <2> QED
    BY <1>21, <2>2, <2>5 DEF EndCallback, TypeOK, Entry, queues, dispatching
<1>22. CASE BatchDone
  BY <1>22
     DEF BatchDone, TypeOK, Calls, Callbacks, queues, dispatching, threads,
         Threads
<1>23. CASE TakeNull
  <2>1. Calls' = Calls /\ Callbacks' = Callbacks
    BY <1>23 DEF TakeNull, Calls, Callbacks
  <2>2. batch' \in Seq(Callbacks \cup {Null})
    BY <1>23, EmptySeq DEF TakeNull
  <2> QED
    BY <1>23, <2>1, <2>2 DEF TakeNull, TypeOK, queues, dispatching
<1>24. CASE NotifyOne
  BY <1>24
     DEF NotifyOne, TypeOK, Calls, Callbacks, queues, dispatching, threads,
         Threads
<1>25. CASE BeginDestroy
  BY <1>25
     DEF BeginDestroy, TypeOK, Calls, Callbacks, queues, dispatching, threads,
         Threads
<1>26. CASE EmplaceNull
  BY <1>26
     DEF EmplaceNull, TypeOK, Calls, Callbacks, queues, dispatching, threads,
         Threads
<1>27. CASE EndDestroy
  <2> DEFINE S == {i \in DOMAIN promise : promise[i].state = "pending"}
  <2>1. /\ promise' = [i \in DOMAIN promise |-> IF i \in S THEN Broken(i) ELSE promise[i]]
        /\ UNCHANGED <<mode, log>>
    BY <1>27 DEF EndDestroy
  <2> HIDE DEF S
  <2>2. /\ promise' \in Seq(Answer') /\ Len(promise') = Len(mode')
        /\ Calls' = Calls /\ Callbacks' = Callbacks
    BY <2>1, BreakStep
  <2>3. external_order_queue' \in Seq(Calls \cup {Null})
    BY <1>27, EmptySeq DEF EndDestroy
  <2> QED
    BY <1>27, <2>2, <2>3 DEF EndDestroy, TypeOK, Answer, dispatching, threads
<1> QED
  BY <1>1, <1>2, <1>3, <1>4, <1>5, <1>6, <1>7, <1>8, <1>9, <1>10, <1>11,
     <1>12, <1>13, <1>14, <1>15, <1>16, <1>17, <1>18, <1>19, <1>20, <1>21,
     <1>22, <1>23, <1>24, <1>25, <1>26, <1>27
     DEF Next, Client, DispatcherThread, CallbackThread, Destructor, Threads

\* The tables of the threads.
LEMMA ThreadTables ==
    ASSUME TypeOK
    PROVE  /\ DOMAIN pc = Threads /\ DOMAIN call = Threads /\ DOMAIN todo = Threads
           /\ pc = [u \in Threads |-> pc[u]] /\ call = [u \in Threads |-> call[u]]
           /\ todo = [u \in Threads |-> todo[u]]
           /\ \A u \in Threads : call[u] \in Calls \cup {Null} /\ todo[u] \in Seq(Callbacks)
  BY DEF TypeOK

\* Taking an answer empties it of its callbacks.
LEMMA GetStep ==
    ASSUME TypeOK, Callers, NEW t \in Threads, Get(t)
    PROVE  /\ call[t] \in Calls /\ promise[call[t]].state # "pending"
           /\ Calls' = Calls /\ Callbacks' = Callbacks /\ UNCHANGED <<mode, log>>
           /\ \A i \in Calls :
                  /\ promise'[i].state = promise[i].state
                  /\ promise'[i].callbacks =
                        IF i = call[t] /\ promise[i].state = "value"
                        THEN <<>> ELSE promise[i].callbacks
<1>1. /\ promise \in Seq(Answer) /\ Len(promise) = Len(mode)
      /\ call[t] \in Calls /\ call[t] \in 1 .. Len(promise)
  BY DEF Get, Callers, TypeOK, Answer, Calls
<1>2. Calls' = Calls /\ Callbacks' = Callbacks /\ UNCHANGED <<mode, log>>
  BY DEF Get, Calls, Callbacks
<1> DEFINE a == [promise[call[t]] EXCEPT !.callbacks = <<>>]
<1>3. promise[call[t]] \in Answer
  BY <1>1, ElementOfSeq
<1>4. /\ a \in Answer /\ a.callbacks = <<>> /\ a.state = promise[call[t]].state
  BY <1>3, EmptySeq DEF Answer
<1>5. CASE promise[call[t]].state = "value"
  <2>1. promise' = [promise EXCEPT ![call[t]] = a]
    BY <1>5 DEF Get
  <2> HIDE DEF a
  <2>2. \A i \in Calls : promise'[i] = IF i = call[t] THEN a ELSE promise[i]
    BY <1>1, <1>4, <2>1, ExceptSeq DEF Calls
  <2> QED
    BY <1>1, <1>2, <1>4, <1>5, <2>2
<1>6. CASE promise[call[t]].state # "value"
  <2>1. promise' = promise
    BY <1>6 DEF Get
  <2> QED
    BY <1>1, <1>2, <1>6, <2>1 DEF Get
<1> QED
  BY <1>5, <1>6 DEF Get

\* The open window ends with an exception in the place of its answer.
LEMMA ExceptionStep ==
    ASSUME TypeOK, DispatcherState, SetException
    PROVE  /\ elem \in Calls /\ Calls' = Calls /\ Callbacks' = Callbacks
           /\ UNCHANGED <<mode, log>>
           /\ \A i \in Calls :
                  /\ promise'[i].callbacks = promise[i].callbacks
                  /\ promise'[i].state =
                        IF i = elem THEN "exception" ELSE promise[i].state
<1> DEFINE a == [promise[elem] EXCEPT !.state = "exception"]
<1>1. promise' = [promise EXCEPT ![elem] = a] /\ UNCHANGED <<mode, log>>
  BY DEF SetException
<1>2. elem \in Calls
  BY DEF SetException, DispatcherState
<1>3. promise[elem] \in Answer
  BY <1>2, ElementOfSeq DEF TypeOK, Answer, Calls
<1>4. a \in Answer /\ a.state = "exception" /\ a.callbacks = promise[elem].callbacks
  BY <1>3 DEF Answer
<1> HIDE DEF a
<1>5. /\ \A i \in Calls : promise'[i] = IF i = elem THEN a ELSE promise[i]
      /\ Calls' = Calls /\ Callbacks' = Callbacks
  BY <1>1, <1>2, <1>4, AnswerStep
<1> QED
  BY <1>1, <1>2, <1>4, <1>5

\* The open window ends with its callbacks in the answer.
LEMMA ValueStep ==
    ASSUME TypeOK, DispatcherState, SetValue
    PROVE  /\ elem \in Calls /\ Calls' = Calls /\ Callbacks' = Callbacks
           /\ UNCHANGED <<mode, log>>
           /\ \A i \in Calls : promise'[i] =
                  IF i = elem THEN [state |-> "value", callbacks |-> copies]
                  ELSE promise[i]
<1> DEFINE a == [state |-> "value", callbacks |-> copies]
<1>1. promise' = [promise EXCEPT ![elem] = a] /\ UNCHANGED <<mode, log>>
  BY DEF SetValue
<1>2. elem \in Calls /\ a \in Answer
  BY DEF SetValue, DispatcherState, TypeOK, Answer
<1> HIDE DEF a
<1>3. \A i \in Calls : promise'[i] = IF i = elem THEN a ELSE promise[i]
  BY <1>1, <1>2, AnswerStep
<1> QED
  BY <1>1, <1>2, <1>3, AnswerStep DEF a

\* The dispatcher leaves its loop: the call that it has popped breaks.
LEMMA LeaveStep ==
    ASSUME TypeOK, LeaveLoop
    PROVE  /\ Calls' = Calls /\ Callbacks' = Callbacks /\ UNCHANGED <<mode, log>>
           /\ \A i \in Calls :
                  /\ promise'[i].callbacks = promise[i].callbacks
                  /\ promise'[i].state =
                        IF i = elem THEN "broken" ELSE promise[i].state
<1> DEFINE S == {elem}
<1>1. /\ promise' = [i \in DOMAIN promise |-> IF i \in S THEN Broken(i) ELSE promise[i]]
      /\ UNCHANGED <<mode, log>>
  BY DEF LeaveLoop
<1>2. \A i : i \in S <=> i = elem
  OBVIOUS
<1> HIDE DEF S
<1>3. /\ \A i \in Calls :
             /\ promise'[i].callbacks = promise[i].callbacks
             /\ promise'[i].state = IF i \in S THEN "broken" ELSE promise[i].state
      /\ Calls' = Calls /\ Callbacks' = Callbacks
  BY <1>1, BreakStep
<1> QED
  BY <1>1, <1>2, <1>3

\* The book is destroyed: every call that is left breaks.
LEMMA DestroyStep ==
    ASSUME TypeOK, EndDestroy
    PROVE  /\ Calls' = Calls /\ Callbacks' = Callbacks /\ UNCHANGED <<mode, log>>
           /\ \A i \in Calls :
                  /\ promise'[i].callbacks = promise[i].callbacks
                  /\ promise'[i].state = IF promise[i].state = "pending"
                                         THEN "broken" ELSE promise[i].state
<1> DEFINE S == {i \in DOMAIN promise : promise[i].state = "pending"}
<1>1. /\ promise' = [i \in DOMAIN promise |-> IF i \in S THEN Broken(i) ELSE promise[i]]
      /\ UNCHANGED <<mode, log>>
  BY DEF EndDestroy
<1>2. \A i \in Calls : i \in S <=> promise[i].state = "pending"
  BY DEF TypeOK, Calls
<1> HIDE DEF S
<1>3. /\ \A i \in Calls :
             /\ promise'[i].callbacks = promise[i].callbacks
             /\ promise'[i].state = IF i \in S THEN "broken" ELSE promise[i].state
      /\ Calls' = Calls /\ Callbacks' = Callbacks
  BY <1>1, BreakStep
<1> QED
  BY <1>1, <1>2, <1>3

\* Every step preserves DispatcherState.
LEMMA DispatcherStep ==
    ASSUME TypeOK, DispatcherState, QueueState, Callers, [Next]_vars
    PROVE  DispatcherState'
<1>1. CASE UNCHANGED vars
  BY <1>1
     DEF vars, DispatcherState, TypeOK, Calls, queues, dispatching, threads
<1>2. ASSUME NEW t \in Threads, SyncCall(t)
      PROVE  DispatcherState'
  <2>1. UNCHANGED log /\ PushExternalOrder("sync") /\ "sync" \in Modes
    BY <1>2 DEF SyncCall, Modes
  <2> QED
    BY <1>2, <2>1, PushStep
       DEF SyncCall, DispatcherState, TypeOK, Calls, queues, dispatching,
           threads
<1>3. ASSUME NEW t \in Threads, Get(t)
      PROVE  DispatcherState'
  BY <1>3, GetStep
     DEF Get, DispatcherState, TypeOK, Calls, queues, dispatching, threads
<1>4. ASSUME NEW t \in Threads, RunSyncCallback(t)
      PROVE  DispatcherState'
  BY <1>4
     DEF RunSyncCallback, DispatcherState, TypeOK, Calls, queues, dispatching,
         threads
<1>5. ASSUME NEW t \in Threads, Return(t)
      PROVE  DispatcherState'
  BY <1>5
     DEF Return, DispatcherState, TypeOK, Calls, queues, dispatching, threads
<1>6. ASSUME NEW c \in Clients, AsyncCall(c)
      PROVE  DispatcherState'
  <2>1. UNCHANGED log /\ PushExternalOrder("async") /\ "async" \in Modes
    BY <1>6 DEF AsyncCall, Modes
  <2> QED
    BY <1>6, <2>1, PushStep
       DEF AsyncCall, DispatcherState, TypeOK, Calls, queues, dispatching,
           threads
<1>7. ASSUME NEW c \in Clients, BeginWait(c)
      PROVE  DispatcherState'
  BY <1>7
     DEF BeginWait, DispatcherState, TypeOK, Calls, queues, dispatching,
         threads
<1>8. ASSUME NEW c \in Clients, SpuriousWakeup(c)
      PROVE  DispatcherState'
  BY <1>8
     DEF SpuriousWakeup, DispatcherState, TypeOK, Calls, queues, dispatching,
         threads
<1>9. ASSUME NEW c \in Clients, CheckPredicate(c)
      PROVE  DispatcherState'
  BY <1>9
     DEF CheckPredicate, DispatcherState, TypeOK, Calls, queues, dispatching,
         threads
<1>10. CASE Pop
  <2>1. /\ external_order_queue \in Seq(Calls \cup {Null}) /\ external_order_queue # <<>>
        /\ elem' = Head(external_order_queue)
    BY <1>10 DEF Pop, TypeOK
  <2>2. /\ 1 \in 1 .. Len(external_order_queue) /\ elem' = external_order_queue[1]
        /\ external_order_queue[1] \in Calls \cup {Null}
    BY <2>1, ElementOfSeq
  <2>3. elem' = Null => ~ master_run_flag
    BY <2>2 DEF QueueState
  <2>4. elem' # Null => elem' \in Calls /\ promise[elem'].state = "pending"
    BY <2>2 DEF QueueState
  <2> QED
    BY <1>10, <2>3, <2>4 DEF Pop, DispatcherState, Calls
<1>11. CASE OpenWindow
  BY <1>11
     DEF OpenWindow, DispatcherState, TypeOK, Calls, queues, dispatching,
         threads
<1>12. CASE LeaveLoop
  BY <1>12, LeaveStep
     DEF LeaveLoop, DispatcherState, TypeOK, Calls, queues, dispatching,
         threads
<1>13. CASE JoinAsyncThread
  BY <1>13
     DEF JoinAsyncThread, DispatcherState, TypeOK, Calls, queues, dispatching,
         threads
<1>14. ASSUME NEW m \in Modes, Fire(m)
      PROVE  DispatcherState'
  BY <1>14
     DEF Fire, DispatcherState, TypeOK, Calls, queues, dispatching, threads
<1>15. CASE CloseWindow
  BY <1>15
     DEF CloseWindow, DispatcherState, TypeOK, Calls, queues, dispatching,
         threads
<1>16. CASE ThrowInWindow
  BY <1>16
     DEF ThrowInWindow, DispatcherState, TypeOK, Calls, queues, dispatching,
         threads
<1>17. CASE SetValue
  BY <1>17, ValueStep
     DEF SetValue, DispatcherState, TypeOK, Calls, queues, dispatching, threads
<1>18. CASE SetException
  BY <1>18, ExceptionStep
     DEF SetException, DispatcherState, TypeOK, Calls, queues, dispatching,
         threads
<1>19. CASE TakeBatch
  BY <1>19
     DEF TakeBatch, DispatcherState, TypeOK, Calls, queues, dispatching,
         threads
<1>20. CASE BeginCallback
  BY <1>20
     DEF BeginCallback, DispatcherState, TypeOK, Calls, queues, dispatching,
         threads
<1>21. CASE EndCallback
  BY <1>21
     DEF EndCallback, DispatcherState, TypeOK, Calls, queues, dispatching,
         threads
<1>22. CASE BatchDone
  BY <1>22
     DEF BatchDone, DispatcherState, TypeOK, Calls, queues, dispatching,
         threads
<1>23. CASE TakeNull
  BY <1>23
     DEF TakeNull, DispatcherState, TypeOK, Calls, queues, dispatching, threads
<1>24. CASE NotifyOne
  BY <1>24
     DEF NotifyOne, DispatcherState, TypeOK, Calls, queues, dispatching,
         threads
<1>25. CASE BeginDestroy
  BY <1>25
     DEF BeginDestroy, DispatcherState, TypeOK, Calls, queues, dispatching,
         threads
<1>26. CASE EmplaceNull
  BY <1>26
     DEF EmplaceNull, DispatcherState, TypeOK, Calls, queues, dispatching,
         threads
<1>27. CASE EndDestroy
  BY <1>27, DestroyStep
     DEF EndDestroy, DispatcherState, TypeOK, Calls, queues, dispatching,
         threads
<1> QED
  BY <1>1, <1>2, <1>3, <1>4, <1>5, <1>6, <1>7, <1>8, <1>9, <1>10, <1>11,
     <1>12, <1>13, <1>14, <1>15, <1>16, <1>17, <1>18, <1>19, <1>20, <1>21,
     <1>22, <1>23, <1>24, <1>25, <1>26, <1>27
     DEF Next, Client, DispatcherThread, CallbackThread, Destructor, Threads

\* Every step preserves BatchState.
LEMMA BatchStep ==
    ASSUME TypeOK, BatchState, DispatcherState, Callers, [Next]_vars
    PROVE  BatchState'
<1>1. CASE UNCHANGED vars
  BY <1>1
     DEF vars, BatchState, TypeOK, Threads, Blocked, Resume, Calls, queues,
         dispatching, threads
<1>2. ASSUME NEW t \in Threads, SyncCall(t)
      PROVE  BatchState'
  <2>1. UNCHANGED log /\ PushExternalOrder("sync") /\ "sync" \in Modes
    BY <1>2 DEF SyncCall, Modes
  <2>2. \/ pc'[AsyncThread] = pc[AsyncThread]
        \/ pc[AsyncThread] = "callback" /\ pc'[AsyncThread] = "get"
    BY <1>2, ThreadsAssumption DEF SyncCall, TypeOK, Threads
  <2> QED
    BY <1>2, <2>2 DEF SyncCall, BatchState, dispatching
<1>3. ASSUME NEW t \in Threads, Get(t)
      PROVE  BatchState'
  <2>1. \/ pc'[AsyncThread] = pc[AsyncThread]
        \/ pc[AsyncThread] = "get" /\ pc'[AsyncThread] \in {"run", "callback"}
    BY <1>3 DEF Get, TypeOK, Threads, Resume
  <2> QED
    BY <1>3, <2>1 DEF Get, BatchState, queues, dispatching
<1>4. ASSUME NEW t \in Threads, RunSyncCallback(t)
      PROVE  BatchState'
  BY <1>4
     DEF RunSyncCallback, BatchState, TypeOK, Threads, Blocked, Resume, Calls,
         queues, dispatching, threads
<1>5. ASSUME NEW t \in Threads, Return(t)
      PROVE  BatchState'
  BY <1>5
     DEF Return, BatchState, TypeOK, Threads, Blocked, Resume, Calls, queues,
         dispatching, threads
<1>6. ASSUME NEW c \in Clients, AsyncCall(c)
      PROVE  BatchState'
  <2>1. UNCHANGED log /\ PushExternalOrder("async") /\ "async" \in Modes
    BY <1>6 DEF AsyncCall, Modes
  <2> QED
    BY <1>6, <2>1, PushStep
       DEF AsyncCall, BatchState, TypeOK, Calls, queues, dispatching, threads
<1>7. ASSUME NEW c \in Clients, BeginWait(c)
      PROVE  BatchState'
  BY <1>7
     DEF BeginWait, BatchState, TypeOK, Threads, Blocked, Resume, Calls,
         queues, dispatching, threads
<1>8. ASSUME NEW c \in Clients, SpuriousWakeup(c)
      PROVE  BatchState'
  BY <1>8
     DEF SpuriousWakeup, BatchState, TypeOK, Threads, Blocked, Resume, Calls,
         queues, dispatching, threads
<1>9. ASSUME NEW c \in Clients, CheckPredicate(c)
      PROVE  BatchState'
  BY <1>9
     DEF CheckPredicate, BatchState, TypeOK, Threads, Blocked, Resume, Calls,
         queues, dispatching, threads
<1>10. CASE Pop
  BY <1>10
     DEF Pop, BatchState, TypeOK, Threads, Blocked, Resume, Calls, queues,
         dispatching, threads
<1>11. CASE OpenWindow
  BY <1>11
     DEF OpenWindow, BatchState, TypeOK, Threads, Blocked, Resume, Calls,
         queues, dispatching, threads
<1>12. CASE LeaveLoop
  <2>1. /\ callbacks_async \in Seq(Callbacks \cup {Null}) /\ Len(callbacks_async) \in Nat
        /\ callbacks_async' = Append(callbacks_async, Null)
        /\ dispatcher = "popped" /\ dispatcher' = "join" /\ UNCHANGED <<batch, pc>>
    BY <1>12 DEF LeaveLoop, TypeOK, threads
  <2>2. /\ Len(callbacks_async') = Len(callbacks_async) + 1
        /\ \A j \in 1 .. Len(callbacks_async) : callbacks_async'[j] = callbacks_async[j]
    BY <2>1, AppendProperties
  <2> QED
    BY <2>1, <2>2 DEF BatchState
<1>13. CASE JoinAsyncThread
  BY <1>13
     DEF JoinAsyncThread, BatchState, TypeOK, Threads, Blocked, Resume, Calls,
         queues, dispatching, threads
<1>14. ASSUME NEW m \in Modes, Fire(m)
      PROVE  BatchState'
  <2>1. /\ callbacks_async \in Seq(Callbacks \cup {Null}) /\ Len(callbacks_async) \in Nat
        /\ callbacks_async' \in {callbacks_async, Append(callbacks_async, Len(log) + 1)}
        /\ Len(log) \in Nat
        /\ dispatcher = "window" /\ UNCHANGED <<batch, pc, dispatcher>>
    BY <1>14 DEF Fire, TypeOK, threads
  <2>2. ASSUME callbacks_async' = Append(callbacks_async, Len(log) + 1)
        PROVE  /\ Len(callbacks_async') = Len(callbacks_async) + 1
               /\ \A j \in 1 .. Len(callbacks_async) : callbacks_async'[j] = callbacks_async[j]
               /\ callbacks_async'[Len(callbacks_async) + 1] # Null
    BY <2>1, <2>2, AppendProperties DEF Null
  <2> QED
    BY <2>1, <2>2 DEF BatchState
<1>15. CASE CloseWindow
  BY <1>15
     DEF CloseWindow, BatchState, TypeOK, Threads, Blocked, Resume, Calls,
         queues, dispatching, threads
<1>16. CASE ThrowInWindow
  BY <1>16
     DEF ThrowInWindow, BatchState, TypeOK, Threads, Blocked, Resume, Calls,
         queues, dispatching, threads
<1>17. CASE SetValue
  BY <1>17, ValueStep
     DEF SetValue, BatchState, TypeOK, Calls, queues, dispatching, threads
<1>18. CASE SetException
  BY <1>18, ExceptionStep
     DEF SetException, BatchState, TypeOK, Calls, queues, dispatching, threads
<1>19. CASE TakeBatch
  BY <1>19
     DEF TakeBatch, BatchState, TypeOK, Threads, Blocked, Resume, Calls,
         queues, dispatching, threads
<1>20. CASE BeginCallback
  BY <1>20
     DEF BeginCallback, BatchState, TypeOK, Threads, Blocked, Resume, Calls,
         queues, dispatching, threads
<1>21. CASE EndCallback
  <2>1. /\ batch \in Seq(Callbacks \cup {Null}) /\ Len(batch) \in Nat
        /\ batch # <<>> /\ batch' = Tail(batch)
        /\ UNCHANGED <<callbacks_async, dispatcher>>
        /\ pc'[AsyncThread] = "batch"
    BY <1>21 DEF EndCallback, TypeOK, BatchState, queues, dispatching, Threads
  <2>2. /\ Len(batch') = Len(batch) - 1
        /\ \A j \in 1 .. Len(batch') : batch'[j] = batch[j + 1]
    BY <2>1, HeadTailProperties
  <2>3. /\ pc[AsyncThread] = "callback"
        /\ \A j \in 1 .. Len(batch) : batch[j] = Null =>
               /\ j = Len(batch) /\ callbacks_async = <<>>
               /\ dispatcher \in {"join", "exit"}
        /\ \A j \in 1 .. Len(callbacks_async) : callbacks_async[j] = Null =>
               j = Len(callbacks_async) /\ dispatcher \in {"join", "exit"}
    BY <1>21 DEF BatchState, EndCallback
  <2>4. \A j \in 1 .. Len(batch') : batch'[j] = Null =>
               /\ j = Len(batch') /\ callbacks_async = <<>>
               /\ dispatcher \in {"join", "exit"}
    <3>1. ASSUME NEW j \in 1 .. Len(batch'), batch'[j] = Null
          PROVE  /\ j = Len(batch') /\ callbacks_async = <<>>
                 /\ dispatcher \in {"join", "exit"}
      <4>1. j + 1 \in 1 .. Len(batch) /\ j \in Nat
        BY <2>1, <2>2
      <4>2. batch[j + 1] = Null
        BY <2>2, <3>1
      <4>3. j + 1 = Len(batch) /\ callbacks_async = <<>> /\ dispatcher \in {"join", "exit"}
        BY <2>3, <4>1, <4>2
      <4>4. j = Len(batch) - 1
        BY <4>1, <4>3
      <4> QED
        BY <2>2, <4>3, <4>4
    <3> QED
      BY <3>1
  <2> QED
    BY <2>1, <2>3, <2>4 DEF BatchState
<1>22. CASE BatchDone
  BY <1>22
     DEF BatchDone, BatchState, TypeOK, Threads, Blocked, Resume, Calls,
         queues, dispatching, threads
<1>23. CASE TakeNull
  BY <1>23
     DEF TakeNull, BatchState, TypeOK, Threads, Blocked, Resume, Calls, queues,
         dispatching, threads
<1>24. CASE NotifyOne
  BY <1>24
     DEF NotifyOne, BatchState, TypeOK, Threads, Blocked, Resume, Calls,
         queues, dispatching, threads
<1>25. CASE BeginDestroy
  BY <1>25
     DEF BeginDestroy, BatchState, TypeOK, Threads, Blocked, Resume, Calls,
         queues, dispatching, threads
<1>26. CASE EmplaceNull
  BY <1>26
     DEF EmplaceNull, BatchState, TypeOK, Threads, Blocked, Resume, Calls,
         queues, dispatching, threads
<1>27. CASE EndDestroy
  BY <1>27, DestroyStep
     DEF EndDestroy, BatchState, TypeOK, Calls, queues, dispatching, threads
<1> QED
  BY <1>1, <1>2, <1>3, <1>4, <1>5, <1>6, <1>7, <1>8, <1>9, <1>10, <1>11,
     <1>12, <1>13, <1>14, <1>15, <1>16, <1>17, <1>18, <1>19, <1>20, <1>21,
     <1>22, <1>23, <1>24, <1>25, <1>26, <1>27
     DEF Next, Client, DispatcherThread, CallbackThread, Destructor, Threads

\* Every step preserves Callers.
LEMMA CallersStep ==
    ASSUME TypeOK, BatchState, Callers, AnswerState, [Next]_vars
    PROVE  Callers'
<1>1. CASE UNCHANGED vars
  BY <1>1
     DEF vars, Callers, TypeOK, Threads, Blocked, Resume, Calls, queues,
         dispatching, threads
<1>2. ASSUME NEW t \in Threads, SyncCall(t)
      PROVE  Callers'
  <2>1. UNCHANGED log /\ PushExternalOrder("sync") /\ "sync" \in Modes
    BY <1>2 DEF SyncCall, Modes
  <2>2. /\ Calls' = Calls \cup {Len(mode) + 1} /\ Len(mode) + 1 \notin Calls
        /\ mode'[Len(mode) + 1] = "sync" /\ Len(mode) + 1 # Null
        /\ \A i \in Calls : mode'[i] = mode[i]
    BY <2>1, PushStep DEF Null
  <2>3. /\ call' = [call EXCEPT ![t] = Len(mode) + 1] /\ pc' = [pc EXCEPT ![t] = "get"]
        /\ pc[t] \in {"idle", "callback"} /\ todo' = todo
    BY <1>2 DEF SyncCall
  <2>4. /\ call'[t] = Len(mode) + 1 /\ pc'[t] = "get"
        /\ \A u \in Threads : u # t => call'[u] = call[u] /\ pc'[u] = pc[u]
    BY <2>3, ThreadTables
  <2>5. /\ \A u \in Threads : call[u] \in Calls \cup {Null}
        /\ call[t] = Null /\ t \in Threads
    BY <1>2, <2>3, ThreadTables DEF Callers
  <2> DEFINE i == Len(mode) + 1
  <2> HIDE DEF i
  <2>6. /\ i # Null /\ i \notin Calls /\ mode'[i] = "sync" /\ call'[t] = i
    BY <2>2, <2>4 DEF i
  <2>7. /\ \A u \in Threads : call'[u] # Null <=> pc'[u] \in {"get", "run"}
        /\ \A u \in Threads : pc'[u] # "run" => todo'[u] = <<>>
    BY <2>3, <2>4, <2>6 DEF Callers
  <2>8. \A c \in Clients : pc'[c] \in {"idle", "get", "run", "blocked", "woken"}
    BY <2>4 DEF Callers, Threads
  <2>9. \A u \in Threads : call'[u] # Null => mode'[call'[u]] = "sync"
    <3>1. ASSUME NEW u \in Threads, u # t, call'[u] # Null
          PROVE  mode'[call'[u]] = "sync"
      <4>1. call[u] \in Calls /\ call'[u] = call[u] /\ mode[call[u]] = "sync"
        BY <2>4, <2>5, <3>1 DEF Callers
      <4> QED
        BY <2>2, <4>1
    <3> QED
      BY <2>6, <3>1
  <2>10. \A u, v \in Threads : call'[u] = call'[v] /\ call'[u] # Null => u = v
    <3>1. \A u \in Threads : u # t => call'[u] # i
      BY <2>4, <2>5, <2>6
    <3> QED
      BY <2>4, <2>6, <3>1 DEF Callers
  <2> QED
    BY <2>7, <2>8, <2>9, <2>10 DEF Callers
<1>3. ASSUME NEW t \in Threads, Get(t)
      PROVE  Callers'
  <2>1. /\ pc[t] = "get" /\ UNCHANGED mode
        /\ \/ /\ pc' = [pc EXCEPT ![t] = "run"] /\ call' = call
              /\ todo' = [todo EXCEPT ![t] = promise[call[t]].callbacks]
           \/ /\ pc' = [pc EXCEPT ![t] = Resume(t)] /\ todo' = todo
              /\ call' = [call EXCEPT ![t] = Null]
    BY <1>3 DEF Get
  <2>2. Resume(t) = IF t \in Clients THEN "idle" ELSE "callback"
    BY ThreadsAssumption DEF Resume, Threads
  <2> QED
    BY <2>1, <2>2, ThreadTables DEF Callers, Threads
<1>4. ASSUME NEW t \in Threads, RunSyncCallback(t)
      PROVE  Callers'
  BY <1>4
     DEF RunSyncCallback, Callers, TypeOK, Threads, Blocked, Resume, Calls,
         queues, dispatching, threads
<1>5. ASSUME NEW t \in Threads, Return(t)
      PROVE  Callers'
  <2>1. /\ pc[t] = "run" /\ todo[t] = <<>> /\ UNCHANGED <<mode, todo>>
        /\ pc' = [pc EXCEPT ![t] = Resume(t)]
        /\ call' = [call EXCEPT ![t] = Null]
    BY <1>5 DEF Return
  <2>2. Resume(t) = IF t \in Clients THEN "idle" ELSE "callback"
    BY ThreadsAssumption DEF Resume, Threads
  <2> QED
    BY <2>1, <2>2 DEF Callers, TypeOK, Threads
<1>6. ASSUME NEW c \in Clients, AsyncCall(c)
      PROVE  Callers'
  <2>1. UNCHANGED log /\ PushExternalOrder("async") /\ "async" \in Modes
    BY <1>6 DEF AsyncCall, Modes
  <2>2. /\ \A i \in Calls : mode'[i] = mode[i]
        /\ UNCHANGED <<pc, call, todo>>
    BY <1>6, <2>1, PushStep DEF AsyncCall, threads
  <2> QED
    BY <2>2, ThreadTables DEF Callers
<1>7. ASSUME NEW c \in Clients, BeginWait(c)
      PROVE  Callers'
  BY <1>7
     DEF BeginWait, Callers, TypeOK, Threads, Blocked, Resume, Calls, queues,
         dispatching, threads
<1>8. ASSUME NEW c \in Clients, SpuriousWakeup(c)
      PROVE  Callers'
  BY <1>8
     DEF SpuriousWakeup, Callers, TypeOK, Threads, Blocked, Resume, Calls,
         queues, dispatching, threads
<1>9. ASSUME NEW c \in Clients, CheckPredicate(c)
      PROVE  Callers'
  BY <1>9
     DEF CheckPredicate, Callers, TypeOK, Threads, Blocked, Resume, Calls,
         queues, dispatching, threads
<1>10. CASE Pop
  BY <1>10
     DEF Pop, Callers, TypeOK, Threads, Blocked, Resume, Calls, queues,
         dispatching, threads
<1>11. CASE OpenWindow
  BY <1>11
     DEF OpenWindow, Callers, TypeOK, Threads, Blocked, Resume, Calls, queues,
         dispatching, threads
<1>12. CASE LeaveLoop
  BY <1>12, LeaveStep
     DEF LeaveLoop, Callers, TypeOK, Calls, queues, dispatching, threads
<1>13. CASE JoinAsyncThread
  BY <1>13
     DEF JoinAsyncThread, Callers, TypeOK, Threads, Blocked, Resume, Calls,
         queues, dispatching, threads
<1>14. ASSUME NEW m \in Modes, Fire(m)
      PROVE  Callers'
  BY <1>14
     DEF Fire, Callers, TypeOK, Threads, Blocked, Resume, Calls, queues,
         dispatching, threads
<1>15. CASE CloseWindow
  BY <1>15
     DEF CloseWindow, Callers, TypeOK, Threads, Blocked, Resume, Calls, queues,
         dispatching, threads
<1>16. CASE ThrowInWindow
  BY <1>16
     DEF ThrowInWindow, Callers, TypeOK, Threads, Blocked, Resume, Calls,
         queues, dispatching, threads
<1>17. CASE SetValue
  BY <1>17, ValueStep
     DEF SetValue, Callers, TypeOK, Calls, queues, dispatching, threads
<1>18. CASE SetException
  BY <1>18, ExceptionStep
     DEF SetException, Callers, TypeOK, Calls, queues, dispatching, threads
<1>19. CASE TakeBatch
  BY <1>19
     DEF TakeBatch, Callers, TypeOK, Threads, Blocked, Resume, Calls, queues,
         dispatching, threads
<1>20. CASE BeginCallback
  BY <1>20
     DEF BeginCallback, Callers, TypeOK, Threads, Blocked, Resume, Calls,
         queues, dispatching, threads
<1>21. CASE EndCallback
  BY <1>21
     DEF EndCallback, Callers, TypeOK, Threads, Blocked, Resume, Calls, queues,
         dispatching, threads
<1>22. CASE BatchDone
  BY <1>22
     DEF BatchDone, Callers, TypeOK, Threads, Blocked, Resume, Calls, queues,
         dispatching, threads
<1>23. CASE TakeNull
  BY <1>23
     DEF TakeNull, Callers, TypeOK, Threads, Blocked, Resume, Calls, queues,
         dispatching, threads
<1>24. CASE NotifyOne
  BY <1>24
     DEF NotifyOne, Callers, TypeOK, Threads, Blocked, Resume, Calls, queues,
         dispatching, threads
<1>25. CASE BeginDestroy
  BY <1>25
     DEF BeginDestroy, Callers, TypeOK, Threads, Blocked, Resume, Calls,
         queues, dispatching, threads
<1>26. CASE EmplaceNull
  BY <1>26
     DEF EmplaceNull, Callers, TypeOK, Threads, Blocked, Resume, Calls, queues,
         dispatching, threads
<1>27. CASE EndDestroy
  BY <1>27, DestroyStep
     DEF EndDestroy, Callers, TypeOK, Calls, queues, dispatching, threads
<1> QED
  BY <1>1, <1>2, <1>3, <1>4, <1>5, <1>6, <1>7, <1>8, <1>9, <1>10, <1>11,
     <1>12, <1>13, <1>14, <1>15, <1>16, <1>17, <1>18, <1>19, <1>20, <1>21,
     <1>22, <1>23, <1>24, <1>25, <1>26, <1>27
     DEF Next, Client, DispatcherThread, CallbackThread, Destructor, Threads

\* Every step preserves QueueState.
LEMMA QueueStep ==
    ASSUME TypeOK, DispatcherState, QueueState, Callers, [Next]_vars
    PROVE  QueueState'
<1>1. CASE UNCHANGED vars
  BY <1>1 DEF vars, QueueState, TypeOK, Calls, queues, dispatching, threads
<1>2. ASSUME NEW t \in Threads, SyncCall(t)
      PROVE  QueueState'
  <2>1. UNCHANGED log /\ PushExternalOrder("sync") /\ "sync" \in Modes
    BY <1>2 DEF SyncCall, Modes
  <2>2. /\ external_order_queue \in Seq(Calls \cup {Null})
        /\ Len(external_order_queue) \in Nat
        /\ external_order_queue' = Append(external_order_queue, Len(mode) + 1)
        /\ UNCHANGED <<elem, master_run_flag>> /\ elem \in Calls \cup {Null}
    BY <1>2 DEF SyncCall, PushExternalOrder, TypeOK, dispatching
  <2>3. /\ Len(mode) + 1 \notin Calls /\ Len(mode) + 1 # Null
        /\ promise'[Len(mode) + 1].state = "pending"
        /\ \A i \in Calls : promise'[i] = promise[i]
    BY <2>1, PushStep DEF Null, Pending
  <2>4. /\ Len(external_order_queue') = Len(external_order_queue) + 1
        /\ external_order_queue'[Len(external_order_queue) + 1] = Len(mode) + 1
        /\ \A j \in 1 .. Len(external_order_queue) :
               /\ external_order_queue'[j] = external_order_queue[j]
               /\ external_order_queue[j] \in Calls \cup {Null}
    BY <2>2, <2>3, AppendProperties, ElementOfSeq
  <2> QED
    BY <2>2, <2>3, <2>4 DEF QueueState
<1>3. ASSUME NEW t \in Threads, Get(t)
      PROVE  QueueState'
  <2>1. /\ external_order_queue \in Seq(Calls \cup {Null})
        /\ UNCHANGED <<external_order_queue, master_run_flag, elem>>
    BY <1>3 DEF Get, TypeOK, queues, dispatching
  <2>2. \A j \in 1 .. Len(external_order_queue) : external_order_queue[j] \in Calls \cup {Null}
    BY <2>1, ElementOfSeq
  <2>3. \A i \in Calls : promise'[i].state = promise[i].state
    BY <1>3, GetStep
  <2> QED
    BY <2>1, <2>2, <2>3 DEF QueueState
<1>4. ASSUME NEW t \in Threads, RunSyncCallback(t)
      PROVE  QueueState'
  BY <1>4
     DEF RunSyncCallback, QueueState, TypeOK, Calls, queues, dispatching,
         threads
<1>5. ASSUME NEW t \in Threads, Return(t)
      PROVE  QueueState'
  BY <1>5 DEF Return, QueueState, TypeOK, Calls, queues, dispatching, threads
<1>6. ASSUME NEW c \in Clients, AsyncCall(c)
      PROVE  QueueState'
  <2>1. UNCHANGED log /\ PushExternalOrder("async") /\ "async" \in Modes
    BY <1>6 DEF AsyncCall, Modes
  <2>2. /\ external_order_queue \in Seq(Calls \cup {Null})
        /\ Len(external_order_queue) \in Nat
        /\ external_order_queue' = Append(external_order_queue, Len(mode) + 1)
        /\ UNCHANGED <<elem, master_run_flag>> /\ elem \in Calls \cup {Null}
    BY <1>6 DEF AsyncCall, PushExternalOrder, TypeOK, dispatching
  <2>3. /\ Len(mode) + 1 \notin Calls /\ Len(mode) + 1 # Null
        /\ promise'[Len(mode) + 1].state = "pending"
        /\ \A i \in Calls : promise'[i] = promise[i]
    BY <2>1, PushStep DEF Null, Pending
  <2>4. /\ Len(external_order_queue') = Len(external_order_queue) + 1
        /\ external_order_queue'[Len(external_order_queue) + 1] = Len(mode) + 1
        /\ \A j \in 1 .. Len(external_order_queue) :
               /\ external_order_queue'[j] = external_order_queue[j]
               /\ external_order_queue[j] \in Calls \cup {Null}
    BY <2>2, <2>3, AppendProperties, ElementOfSeq
  <2> QED
    BY <2>2, <2>3, <2>4 DEF QueueState
<1>7. ASSUME NEW c \in Clients, BeginWait(c)
      PROVE  QueueState'
  BY <1>7
     DEF BeginWait, QueueState, TypeOK, Calls, queues, dispatching, threads
<1>8. ASSUME NEW c \in Clients, SpuriousWakeup(c)
      PROVE  QueueState'
  BY <1>8
     DEF SpuriousWakeup, QueueState, TypeOK, Calls, queues, dispatching,
         threads
<1>9. ASSUME NEW c \in Clients, CheckPredicate(c)
      PROVE  QueueState'
  BY <1>9
     DEF CheckPredicate, QueueState, TypeOK, Calls, queues, dispatching,
         threads
<1>10. CASE Pop
  BY <1>10 DEF Pop, QueueState, TypeOK, Calls, queues, dispatching, threads
<1>11. CASE OpenWindow
  BY <1>11
     DEF OpenWindow, QueueState, TypeOK, Calls, queues, dispatching, threads
<1>12. CASE LeaveLoop
  BY <1>12, LeaveStep
     DEF LeaveLoop, QueueState, TypeOK, Calls, queues, dispatching, threads
<1>13. CASE JoinAsyncThread
  BY <1>13
     DEF JoinAsyncThread, QueueState, TypeOK, Calls, queues, dispatching,
         threads
<1>14. ASSUME NEW m \in Modes, Fire(m)
      PROVE  QueueState'
  BY <1>14 DEF Fire, QueueState, TypeOK, Calls, queues, dispatching, threads
<1>15. CASE CloseWindow
  BY <1>15
     DEF CloseWindow, QueueState, TypeOK, Calls, queues, dispatching, threads
<1>16. CASE ThrowInWindow
  BY <1>16
     DEF ThrowInWindow, QueueState, TypeOK, Calls, queues, dispatching, threads
<1>17. CASE SetValue
  <2>1. /\ external_order_queue \in Seq(Calls \cup {Null}) /\ elem' = Null
        /\ UNCHANGED <<external_order_queue, master_run_flag>>
    BY <1>17 DEF SetValue, TypeOK, queues
  <2>2. \A j \in 1 .. Len(external_order_queue) : external_order_queue[j] \in Calls \cup {Null}
    BY <2>1, ElementOfSeq
  <2>3. \A i \in Calls : i # elem => promise'[i] = promise[i]
    BY <1>17, ValueStep
  <2> QED
    BY <2>1, <2>2, <2>3 DEF QueueState
<1>18. CASE SetException
  BY <1>18, ExceptionStep
     DEF SetException, QueueState, TypeOK, Calls, queues, dispatching, threads
<1>19. CASE TakeBatch
  BY <1>19
     DEF TakeBatch, QueueState, TypeOK, Calls, queues, dispatching, threads
<1>20. CASE BeginCallback
  BY <1>20
     DEF BeginCallback, QueueState, TypeOK, Calls, queues, dispatching, threads
<1>21. CASE EndCallback
  BY <1>21
     DEF EndCallback, QueueState, TypeOK, Calls, queues, dispatching, threads
<1>22. CASE BatchDone
  BY <1>22
     DEF BatchDone, QueueState, TypeOK, Calls, queues, dispatching, threads
<1>23. CASE TakeNull
  BY <1>23
     DEF TakeNull, QueueState, TypeOK, Calls, queues, dispatching, threads
<1>24. CASE NotifyOne
  BY <1>24
     DEF NotifyOne, QueueState, TypeOK, Calls, queues, dispatching, threads
<1>25. CASE BeginDestroy
  BY <1>25
     DEF BeginDestroy, QueueState, TypeOK, Calls, queues, dispatching, threads
<1>26. CASE EmplaceNull
  <2>1. /\ external_order_queue \in Seq(Calls \cup {Null})
        /\ Len(external_order_queue) \in Nat
        /\ external_order_queue' = Append(external_order_queue, Null)
        /\ UNCHANGED <<elem, master_run_flag, promise>> /\ ~ master_run_flag
    BY <1>26 DEF EmplaceNull, DispatcherState, TypeOK, dispatching
  <2>2. /\ Len(external_order_queue') = Len(external_order_queue) + 1
        /\ external_order_queue'[Len(external_order_queue) + 1] = Null
        /\ \A j \in 1 .. Len(external_order_queue) :
               external_order_queue'[j] = external_order_queue[j]
    BY <2>1, AppendProperties DEF Null
  <2> QED
    BY <2>1, <2>2 DEF QueueState
<1>27. CASE EndDestroy
  BY <1>27, DestroyStep
     DEF EndDestroy, QueueState, TypeOK, Calls, queues, dispatching, threads
<1> QED
  BY <1>1, <1>2, <1>3, <1>4, <1>5, <1>6, <1>7, <1>8, <1>9, <1>10, <1>11,
     <1>12, <1>13, <1>14, <1>15, <1>16, <1>17, <1>18, <1>19, <1>20, <1>21,
     <1>22, <1>23, <1>24, <1>25, <1>26, <1>27
     DEF Next, Client, DispatcherThread, CallbackThread, Destructor, Threads

\* Every step preserves AnswerState.
LEMMA AnswerStateStep ==
    ASSUME TypeOK, DispatcherState, AnswerState, BatchState, Callers,
           [Next]_vars
    PROVE  AnswerState'
<1>1. CASE UNCHANGED vars
  BY <1>1
     DEF vars, AnswerState, TypeOK, Threads, Blocked, Resume, Calls, queues,
         dispatching, threads
<1>2. ASSUME NEW t \in Threads, SyncCall(t)
      PROVE  AnswerState'
  <2>1. UNCHANGED log /\ PushExternalOrder("sync") /\ "sync" \in Modes
    BY <1>2 DEF SyncCall, Modes
  <2>2. /\ Calls' = Calls \cup {Len(mode) + 1} /\ Len(mode) + 1 \notin Calls
        /\ Len(mode') = Len(mode) + 1 /\ Len(mode) \in Nat
        /\ mode'[Len(mode) + 1] = "sync"
        /\ promise'[Len(mode) + 1] = Pending
        /\ \A i \in Calls : mode'[i] = mode[i] /\ promise'[i] = promise[i]
    BY <2>1, PushStep
  <2>3. Len(mode) < MaxCalls /\ MaxCalls \in Nat
    BY <2>1, OpsAssumption DEF PushExternalOrder
  <2>4. \A u \in Threads : pc[u] = "get" => pc'[u] = "get" /\ call'[u] = call[u]
    BY <1>2 DEF SyncCall, TypeOK, threads
  <2>5. t \in Threads /\ call'[t] = Len(mode) + 1 /\ pc'[t] = "get"
    BY <1>2 DEF SyncCall, TypeOK
  <2> QED
    BY <2>2, <2>3, <2>4, <2>5 DEF AnswerState, Pending
<1>3. ASSUME NEW t \in Threads, Get(t)
      PROVE  AnswerState'
  <2>1. /\ Calls' = Calls /\ UNCHANGED mode /\ promise[call[t]].state # "pending"
        /\ \A i \in Calls :
               /\ promise'[i].state = promise[i].state
               /\ promise'[i].callbacks =
                     IF i = call[t] /\ promise[i].state = "value"
                     THEN <<>> ELSE promise[i].callbacks
    BY <1>3, GetStep
  <2>2. \A u \in Threads : u # t => pc'[u] = pc[u] /\ call'[u] = call[u]
    BY <1>3 DEF Get, TypeOK
  <2>3. \A i \in Calls : i = call[t] => promise'[i].callbacks = <<>>
    BY <2>1 DEF AnswerState
  <2>4. ASSUME NEW i \in Calls, i # call[t]
        PROVE  (\E u \in Threads : call[u] = i /\ pc[u] = "get") =>
               (\E u \in Threads : call'[u] = i /\ pc'[u] = "get")
    BY <2>2, <2>4
  <2> QED
    BY <2>1, <2>3, <2>4 DEF AnswerState
<1>4. ASSUME NEW t \in Threads, RunSyncCallback(t)
      PROVE  AnswerState'
  BY <1>4
     DEF RunSyncCallback, AnswerState, TypeOK, Threads, Blocked, Resume, Calls,
         queues, dispatching, threads
<1>5. ASSUME NEW t \in Threads, Return(t)
      PROVE  AnswerState'
  BY <1>5
     DEF Return, AnswerState, TypeOK, Threads, Blocked, Resume, Calls, queues,
         dispatching, threads
<1>6. ASSUME NEW c \in Clients, AsyncCall(c)
      PROVE  AnswerState'
  <2>1. UNCHANGED log /\ PushExternalOrder("async") /\ "async" \in Modes
    BY <1>6 DEF AsyncCall, Modes
  <2>2. /\ Calls' = Calls \cup {Len(mode) + 1} /\ Len(mode) + 1 \notin Calls
        /\ Len(mode') = Len(mode) + 1 /\ Len(mode) \in Nat
        /\ mode'[Len(mode) + 1] = "async"
        /\ promise'[Len(mode) + 1] = Pending
        /\ \A i \in Calls : mode'[i] = mode[i] /\ promise'[i] = promise[i]
    BY <2>1, PushStep
  <2>3. Len(mode) < MaxCalls /\ MaxCalls \in Nat
    BY <2>1, OpsAssumption DEF PushExternalOrder
  <2>4. \A u \in Threads : pc[u] = "get" => pc'[u] = "get" /\ call'[u] = call[u]
    BY <1>6 DEF AsyncCall, TypeOK, threads
  <2>5. "async" # "sync"
    OBVIOUS
  <2> QED
    BY <2>2, <2>3, <2>4, <2>5 DEF AnswerState, Pending
<1>7. ASSUME NEW c \in Clients, BeginWait(c)
      PROVE  AnswerState'
  BY <1>7
     DEF BeginWait, AnswerState, TypeOK, Threads, Blocked, Resume, Calls,
         queues, dispatching, threads
<1>8. ASSUME NEW c \in Clients, SpuriousWakeup(c)
      PROVE  AnswerState'
  BY <1>8
     DEF SpuriousWakeup, AnswerState, TypeOK, Threads, Blocked, Resume, Calls,
         queues, dispatching, threads
<1>9. ASSUME NEW c \in Clients, CheckPredicate(c)
      PROVE  AnswerState'
  BY <1>9
     DEF CheckPredicate, AnswerState, TypeOK, Threads, Blocked, Resume, Calls,
         queues, dispatching, threads
<1>10. CASE Pop
  BY <1>10
     DEF Pop, AnswerState, TypeOK, Threads, Blocked, Resume, Calls, queues,
         dispatching, threads
<1>11. CASE OpenWindow
  BY <1>11
     DEF OpenWindow, AnswerState, TypeOK, Threads, Blocked, Resume, Calls,
         queues, dispatching, threads
<1>12. CASE LeaveLoop
  <2>1. UNCHANGED <<mode, pc, call>>
    BY <1>12 DEF LeaveLoop, threads
  <2>2. elem \in Calls => promise[elem].state = "pending"
    BY <1>12 DEF LeaveLoop, DispatcherState, TypeOK, Calls, Null
  <2>3. \A i \in Calls : /\ promise'[i].callbacks = promise[i].callbacks
                          /\ promise'[i].state =
                                IF i = elem THEN "broken" ELSE promise[i].state
    BY <1>12, LeaveStep
  <2> QED
    BY <2>1, <2>2, <2>3, LeaveStep, <1>12 DEF AnswerState
<1>13. CASE JoinAsyncThread
  BY <1>13
     DEF JoinAsyncThread, AnswerState, TypeOK, Threads, Blocked, Resume, Calls,
         queues, dispatching, threads
<1>14. ASSUME NEW m \in Modes, Fire(m)
      PROVE  AnswerState'
  BY <1>14
     DEF Fire, AnswerState, TypeOK, Threads, Blocked, Resume, Calls, queues,
         dispatching, threads
<1>15. CASE CloseWindow
  BY <1>15
     DEF CloseWindow, AnswerState, TypeOK, Threads, Blocked, Resume, Calls,
         queues, dispatching, threads
<1>16. CASE ThrowInWindow
  BY <1>16
     DEF ThrowInWindow, AnswerState, TypeOK, Threads, Blocked, Resume, Calls,
         queues, dispatching, threads
<1>17. CASE SetValue
  <2>1. /\ UNCHANGED <<mode, pc, call>> /\ elem \in Calls /\ Calls' = Calls
        /\ \A i \in Calls : promise'[i] =
               IF i = elem THEN [state |-> "value", callbacks |-> copies] ELSE promise[i]
    BY <1>17, ValueStep DEF SetValue, threads
  <2>2. mode[elem] \in Modes
    BY <2>1, ElementOfSeq DEF TypeOK, Calls
  <2>3. copies # <<>> => \E t \in Threads : call[t] = elem /\ pc[t] = "get"
    BY <1>17, <2>1, <2>2 DEF SetValue, DispatcherState, AnswerState, Modes
  <2> QED
    BY <2>1, <2>3 DEF AnswerState
<1>18. CASE SetException
  <2>1. /\ UNCHANGED <<mode, pc, call>> /\ elem \in Calls /\ Calls' = Calls
        /\ \A i \in Calls : /\ promise'[i].callbacks = promise[i].callbacks
                             /\ promise'[i].state =
                                   IF i = elem THEN "exception" ELSE promise[i].state
    BY <1>18, ExceptionStep DEF SetException, threads
  <2>2. promise[elem].state = "pending"
    BY <1>18 DEF SetException, DispatcherState
  <2> QED
    BY <2>1, <2>2 DEF AnswerState
<1>19. CASE TakeBatch
  BY <1>19
     DEF TakeBatch, AnswerState, TypeOK, Threads, Blocked, Resume, Calls,
         queues, dispatching, threads
<1>20. CASE BeginCallback
  BY <1>20
     DEF BeginCallback, AnswerState, TypeOK, Threads, Blocked, Resume, Calls,
         queues, dispatching, threads
<1>21. CASE EndCallback
  BY <1>21
     DEF EndCallback, AnswerState, TypeOK, Threads, Blocked, Resume, Calls,
         queues, dispatching, threads
<1>22. CASE BatchDone
  BY <1>22
     DEF BatchDone, AnswerState, TypeOK, Threads, Blocked, Resume, Calls,
         queues, dispatching, threads
<1>23. CASE TakeNull
  BY <1>23
     DEF TakeNull, AnswerState, TypeOK, Threads, Blocked, Resume, Calls,
         queues, dispatching, threads
<1>24. CASE NotifyOne
  BY <1>24
     DEF NotifyOne, AnswerState, TypeOK, Threads, Blocked, Resume, Calls,
         queues, dispatching, threads
<1>25. CASE BeginDestroy
  BY <1>25
     DEF BeginDestroy, AnswerState, TypeOK, Threads, Blocked, Resume, Calls,
         queues, dispatching, threads
<1>26. CASE EmplaceNull
  BY <1>26
     DEF EmplaceNull, AnswerState, TypeOK, Threads, Blocked, Resume, Calls,
         queues, dispatching, threads
<1>27. CASE EndDestroy
  <2>1. /\ UNCHANGED <<mode, pc, call>> /\ Calls' = Calls
        /\ \A i \in Calls : /\ promise'[i].callbacks = promise[i].callbacks
                             /\ promise'[i].state = IF promise[i].state = "pending"
                                                    THEN "broken" ELSE promise[i].state
    BY <1>27, DestroyStep DEF EndDestroy, threads
  <2> QED
    BY <2>1 DEF AnswerState
<1> QED
  BY <1>1, <1>2, <1>3, <1>4, <1>5, <1>6, <1>7, <1>8, <1>9, <1>10, <1>11,
     <1>12, <1>13, <1>14, <1>15, <1>16, <1>17, <1>18, <1>19, <1>20, <1>21,
     <1>22, <1>23, <1>24, <1>25, <1>26, <1>27
     DEF Next, Client, DispatcherThread, CallbackThread, Destructor, Threads

(***************************************************************************)
(* The lines: how callbacks move between the places where they wait.       *)
(* Every step of Dispatcher preserves that a callback that has not been    *)
(* run waits in one place, and where the callbacks of a window can be.     *)
(***************************************************************************)

\* The places are different places.
LEMMA PlacesDiffer ==
    /\ {Sync, Copies, Async, Batch} \subseteq Places
    /\ Sync # Copies /\ Sync # Async /\ Sync # Batch
    /\ Copies # Async /\ Copies # Batch /\ Async # Batch
    /\ \A t : TodoOf(t) \notin {Sync, Copies, Async, Batch}
    /\ \A i : AnswerTo(i) \notin {Sync, Copies, Async, Batch}
    /\ \A i, t : AnswerTo(i) # TodoOf(t)
    /\ \A i, k : AnswerTo(i) = AnswerTo(k) => i = k
    /\ \A t, u : TodoOf(t) = TodoOf(u) => t = u
    /\ \A t \in Threads : TodoOf(t) \in Places
    /\ \A i \in 1 .. MaxCalls : AnswerTo(i) \in Places
    /\ \A p \in Places :
           \/ p \in {Sync, Copies, Async, Batch}
           \/ \E i \in 1 .. MaxCalls : p = AnswerTo(i)
           \/ \E t \in Threads : p = TodoOf(t)
  BY DEF Places, Sync, Copies, Async, Batch, AnswerTo, TodoOf

\* The line at each place.
LEMMA LineAt ==
    /\ Line(Sync) = callbacks_sync /\ Line(Copies) = copies
    /\ Line(Async) = callbacks_async /\ Line(Batch) = batch
    /\ \A i \in Calls : Line(AnswerTo(i)) = promise[i].callbacks
    /\ \A i : i \notin Calls => Line(AnswerTo(i)) = <<>>
    /\ \A t : Line(TodoOf(t)) = todo[t]
<1>1. /\ Line(Sync) = callbacks_sync /\ Line(Copies) = copies
      /\ Line(Async) = callbacks_async /\ Line(Batch) = batch
  BY DEF Line, Sync, Copies, Async, Batch
<1>2. /\ \A i \in Calls : Line(AnswerTo(i)) = promise[i].callbacks
      /\ \A i : i \notin Calls => Line(AnswerTo(i)) = <<>>
      /\ \A t : Line(TodoOf(t)) = todo[t]
  BY DEF Line, AnswerTo, TodoOf
<1> QED
  BY <1>1, <1>2

\* The line at each place in the next state.
LEMMA LineAtNext ==
    /\ Line(Sync)' = callbacks_sync' /\ Line(Copies)' = copies'
    /\ Line(Async)' = callbacks_async' /\ Line(Batch)' = batch'
    /\ \A i \in Calls' : Line(AnswerTo(i))' = promise'[i].callbacks
    /\ \A i : i \notin Calls' => Line(AnswerTo(i))' = <<>>
    /\ \A t : Line(TodoOf(t))' = todo'[t]
<1>1. /\ Line(Sync)' = callbacks_sync' /\ Line(Copies)' = copies'
      /\ Line(Async)' = callbacks_async' /\ Line(Batch)' = batch'
  BY DEF Line, Sync, Copies, Async, Batch
<1>2. /\ \A i \in Calls' : Line(AnswerTo(i))' = promise'[i].callbacks
      /\ \A i : i \notin Calls' => Line(AnswerTo(i))' = <<>>
      /\ \A t : Line(TodoOf(t))' = todo'[t]
  BY DEF Line, AnswerTo, TodoOf
<1> QED
  BY <1>1, <1>2

\* A line is a sequence of callbacks, and of Null in two of the places.
LEMMA LineType ==
    ASSUME TypeOK, NEW p \in Places
    PROVE  Line(p) \in Seq(Callbacks \cup {Null})
<1>1. \A s \in Seq(Callbacks) : s \in Seq(Callbacks \cup {Null})
  BY SeqMono
<1>2. CASE p \in {Sync, Copies, Async, Batch}
  BY <1>1, <1>2, LineAt DEF TypeOK
<1>3. ASSUME NEW i \in 1 .. MaxCalls, p = AnswerTo(i)
      PROVE  Line(p) \in Seq(Callbacks \cup {Null})
  <2>1. CASE i \in Calls
    <3>1. promise[i] \in Answer
      BY <2>1, ElementOfSeq DEF TypeOK, Answer, Calls
    <3>2. promise[i].callbacks \in Seq(Callbacks)
      BY <3>1 DEF Answer
    <3> QED
      BY <1>1, <1>3, <2>1, <3>2, LineAt
  <2>2. CASE i \notin Calls
    BY <1>3, <2>2, LineAt, EmptySeq
  <2> QED
    BY <2>1, <2>2
<1>4. ASSUME NEW t \in Threads, p = TodoOf(t)
      PROVE  Line(p) \in Seq(Callbacks \cup {Null})
  BY <1>1, <1>4, LineAt DEF TypeOK
<1> QED
  BY <1>2, <1>3, <1>4, PlacesDiffer

\* What the lines are after a step that leaves all but a set of them alone.
LEMMA OtherLines ==
    ASSUME NEW Moved,
           Sync \in Moved \/ UNCHANGED callbacks_sync,
           Copies \in Moved \/ UNCHANGED copies,
           Async \in Moved \/ UNCHANGED callbacks_async,
           Batch \in Moved \/ UNCHANGED batch,
           \A t \in Threads : TodoOf(t) \in Moved \/ todo'[t] = todo[t],
           Calls \subseteq Calls',
           \A i \in Calls : \/ AnswerTo(i) \in Moved
                            \/ promise'[i].callbacks = promise[i].callbacks,
           \A i \in Calls' : i \notin Calls => promise'[i].callbacks = <<>>
    PROVE  \A p \in Places : p \notin Moved => Line(p)' = Line(p)
<1> SUFFICES ASSUME NEW p \in Places, p \notin Moved
             PROVE  Line(p)' = Line(p)
  OBVIOUS
<1>1. CASE p \in {Sync, Copies, Async, Batch}
  BY <1>1, LineAt, LineAtNext
<1>2. ASSUME NEW i \in 1 .. MaxCalls, p = AnswerTo(i)
      PROVE  Line(p)' = Line(p)
  BY <1>2, LineAt, LineAtNext
<1>3. ASSUME NEW t \in Threads, p = TodoOf(t)
      PROVE  Line(p)' = Line(p)
  BY <1>3, LineAt, LineAtNext
<1> QED
  BY <1>1, <1>2, <1>3, PlacesDiffer

\* Nobody moves when no line changes.
LEMMA StillWaits ==
    ASSUME UNCHANGED <<callbacks_sync, copies, callbacks_async, batch, todo>>,
           Calls \subseteq Calls',
           \A i \in Calls : promise'[i].callbacks = promise[i].callbacks,
           \A i \in Calls' : i \notin Calls => promise'[i].callbacks = <<>>
    PROVE  \A n, j : \A p \in Places : Waits(n, p, j)' <=> Waits(n, p, j)
<1> DEFINE Moved == {}
<1>1. \A p \in Places : p \notin Moved => Line(p)' = Line(p)
  BY OtherLines
<1> QED
  BY <1>1 DEF Waits

\* A line moves to a place where none waits.
LEMMA MoveWaits ==
    ASSUME NEW a \in Places, NEW b \in Places, a # b,
           Line(b) = <<>>, Line(a)' = <<>>, Line(b)' = Line(a),
           \A p \in Places : p \notin {a, b} => Line(p)' = Line(p)
    PROVE  \A n, j : \A p \in Places :
               Waits(n, p, j)' <=> IF p = b THEN Waits(n, a, j)
                                   ELSE p # a /\ Waits(n, p, j)
  BY DEF Waits

\* The first of a line leaves it.
LEMMA HeadWaits ==
    ASSUME NEW a \in Places, TypeOK, Line(a) # <<>>, Line(a)' = Tail(Line(a)),
           \A p \in Places : p # a => Line(p)' = Line(p)
    PROVE  /\ \A n : \A j \in Nat, p \in Places :
                  Waits(n, p, j)' <=> IF p = a THEN j # 0 /\ Waits(n, a, j + 1)
                                      ELSE Waits(n, p, j)
           /\ Waits(Head(Line(a)), a, 1)
<1>1. Line(a) \in Seq(Callbacks \cup {Null})
  BY LineType
<1>2. /\ Len(Line(a)') = Len(Line(a)) - 1 /\ Len(Line(a)) \in Nat
      /\ \A j \in 1 .. Len(Line(a)') : Line(a)'[j] = Line(a)[j + 1]
      /\ Head(Line(a)) = Line(a)[1] /\ Len(Line(a)) # 0
  BY <1>1, HeadTailProperties
<1>3. \A n : \A j \in Nat : Waits(n, a, j)' <=> j # 0 /\ Waits(n, a, j + 1)
  BY <1>2 DEF Waits
<1>4. \A n : \A j \in Nat, p \in Places : p # a => (Waits(n, p, j)' <=> Waits(n, p, j))
  BY DEF Waits
<1>5. Waits(Head(Line(a)), a, 1)
  BY <1>2 DEF Waits
<1> QED
  BY <1>3, <1>4, <1>5

\* A callback, or Null, joins a line.
LEMMA LastWaits ==
    ASSUME NEW a \in Places, NEW k, TypeOK, Line(a)' = Append(Line(a), k),
           \A p \in Places : p # a => Line(p)' = Line(p)
    PROVE  /\ \A n, j : \A p \in Places :
                  Waits(n, p, j)' <=> \/ Waits(n, p, j)
                                      \/ p = a /\ n = k /\ j = Len(Line(a)) + 1
           /\ Len(Line(a)) \in Nat
<1>1. Line(a) \in Seq(Callbacks \cup {Null})
  BY LineType
<1>2. /\ Len(Line(a)') = Len(Line(a)) + 1 /\ Len(Line(a)) \in Nat
      /\ \A j \in 1 .. Len(Line(a)) : Line(a)'[j] = Line(a)[j]
      /\ Line(a)'[Len(Line(a)) + 1] = k
  BY <1>1, AppendProperties
<1>3. \A n, j : Waits(n, a, j)' <=> Waits(n, a, j) \/ (n = k /\ j = Len(Line(a)) + 1)
  BY <1>2 DEF Waits
<1>4. \A n, j : \A p \in Places : p # a => (Waits(n, p, j)' <=> Waits(n, p, j))
  BY DEF Waits
<1> QED
  BY <1>2, <1>3, <1>4

(***************************************************************************)
(* What the steps do to the lines.                                         *)
(***************************************************************************)

Stay == \A n \in Callbacks : \A p \in Places, j \in Nat : Waits(n, p, j)' <=> Waits(n, p, j)

Move(a, b) ==
    \A n \in Callbacks : \A p \in Places, j \in Nat :
        Waits(n, p, j)' <=> IF p = b THEN Waits(n, a, j)
                            ELSE p # a /\ Waits(n, p, j)

Leave(a) ==
    \A n \in Callbacks : \A p \in Places, j \in Nat :
        Waits(n, p, j)' <=> IF p = a THEN j # 0 /\ Waits(n, a, j + 1)
                            ELSE Waits(n, p, j)

\* No callback waits at index 0 of a line.
LEMMA NotAtZero ==
    ASSUME NEW n, NEW p
    PROVE  ~ Waits(n, p, 0) /\ (\A j : Waits(n, p, j) => j \in Nat)
  BY DEF Waits

\* InOnePlace stays when nobody moves.
LEMMA StayInOnePlace ==
    ASSUME InOnePlace, Stay, UNCHANGED log
    PROVE  InOnePlace'
  BY DEF InOnePlace, Stay, Callbacks

\* It stays when a line moves to a place where none waits.
LEMMA MoveInOnePlace ==
    ASSUME InOnePlace, NEW a \in Places, NEW b \in Places, a # b, Move(a, b),
           \A n : \A j : ~ Waits(n, b, j),
           a \in {Async, Batch} <=> b \in {Async, Batch},
           UNCHANGED log
    PROVE  InOnePlace'
<1>1. Callbacks' = Callbacks
  BY DEF Callbacks
<1> SUFFICES ASSUME NEW n \in Callbacks
             PROVE  /\ log[n].by = Nobody <=> \E p \in Places, j \in Nat : Waits(n, p, j)'
                    /\ \A p, q \in Places : \A j, k \in Nat :
                           Waits(n, p, j)' /\ Waits(n, q, k)' => p = q /\ j = k
                    /\ \A p \in Places, j \in Nat :
                           Waits(n, p, j)' => (log[n].mode = "async" <=> p \in {Async, Batch})
  BY <1>1 DEF InOnePlace
<1>2. \A p \in Places, j \in Nat :
          Waits(n, p, j)' <=> IF p = b THEN Waits(n, a, j)
                              ELSE p # a /\ Waits(n, p, j)
  BY DEF Move
<1>3. (\E p \in Places, j \in Nat : Waits(n, p, j)')
          <=> (\E p \in Places, j \in Nat : Waits(n, p, j))
  <2>1. ASSUME NEW p \in Places, NEW j \in Nat, Waits(n, p, j)
        PROVE  \E q \in Places, k \in Nat : Waits(n, q, k)'
    <3>1. CASE p = a
      BY <1>2, <2>1, <3>1
    <3>2. CASE p # a
      BY <1>2, <2>1, <3>2
    <3> QED
      BY <3>1, <3>2
  <2>2. ASSUME NEW p \in Places, NEW j \in Nat, Waits(n, p, j)'
        PROVE  \E q \in Places, k \in Nat : Waits(n, q, k)
    <3>1. CASE p = b
      BY <1>2, <2>2, <3>1
    <3>2. CASE p # b
      BY <1>2, <2>2, <3>2
    <3> QED
      BY <3>1, <3>2
  <2> QED
    BY <2>1, <2>2
<1>4. log[n].by = Nobody <=> \E p \in Places, j \in Nat : Waits(n, p, j)'
  BY <1>3 DEF InOnePlace
<1>5. \A p, q \in Places : \A j, k \in Nat :
          Waits(n, p, j)' /\ Waits(n, q, k)' => p = q /\ j = k
  BY <1>2 DEF InOnePlace
<1>6. \A p \in Places, j \in Nat :
          Waits(n, p, j)' => (log[n].mode = "async" <=> p \in {Async, Batch})
  BY <1>2 DEF InOnePlace
<1> QED
  BY <1>4, <1>5, <1>6

\* It stays when the first of a line leaves it and is run.
LEMMA LeaveInOnePlace ==
    ASSUME TypeOK, InOnePlace, NEW a \in Places, NEW k \in Callbacks, NEW t \in
           Threads,
           Leave(a), Waits(k, a, 1), UNCHANGED mode,
           log' = [log EXCEPT ![k].by = t]
    PROVE  InOnePlace'
<1>1. /\ Callbacks' = Callbacks
      /\ \A n \in Callbacks : /\ log'[n].mode = log[n].mode
                              /\ log'[n].by = IF n = k THEN t ELSE log[n].by
  BY RunStep
<1>2. t # Nobody
  BY ThreadsAssumption DEF Threads, Nobody
<1> SUFFICES ASSUME NEW n \in Callbacks
             PROVE  /\ log'[n].by = Nobody <=> \E p \in Places, j \in Nat : Waits(n, p, j)'
                    /\ \A p, q \in Places : \A j, l \in Nat :
                           Waits(n, p, j)' /\ Waits(n, q, l)' => p = q /\ j = l
                    /\ \A p \in Places, j \in Nat :
                           Waits(n, p, j)' => (log'[n].mode = "async" <=> p \in {Async, Batch})
  BY <1>1 DEF InOnePlace
<1>3. \A p \in Places, j \in Nat :
          Waits(n, p, j)' <=> IF p = a THEN j # 0 /\ Waits(n, a, j + 1)
                              ELSE Waits(n, p, j)
  BY DEF Leave
<1>4. /\ log[n].by = Nobody <=> \E p \in Places, j \in Nat : Waits(n, p, j)
      /\ \A p, q \in Places : \A j, l \in Nat :
             Waits(n, p, j) /\ Waits(n, q, l) => p = q /\ j = l
      /\ \A p \in Places, j \in Nat :
             Waits(n, p, j) => (log[n].mode = "async" <=> p \in {Async, Batch})
  BY DEF InOnePlace
<1>5. \A p, q \in Places : \A j, l \in Nat :
          Waits(n, p, j)' /\ Waits(n, q, l)' => p = q /\ j = l
  <2> SUFFICES ASSUME NEW p \in Places, NEW q \in Places, NEW j \in Nat, NEW l \in Nat,
                      Waits(n, p, j)', Waits(n, q, l)'
               PROVE  p = q /\ j = l
    OBVIOUS
  <2>1. CASE p = a /\ q = a
    <3>1. Waits(n, a, j + 1) /\ Waits(n, a, l + 1)
      BY <1>3, <2>1
    <3>2. j + 1 = l + 1
      BY <1>4, <3>1
    <3> QED
      BY <2>1, <3>2
  <2>2. CASE p = a /\ q # a
    BY <1>3, <1>4, <2>2
  <2>3. CASE p # a /\ q = a
    BY <1>3, <1>4, <2>3
  <2>4. CASE p # a /\ q # a
    BY <1>3, <1>4, <2>4
  <2> QED
    BY <2>1, <2>2, <2>3, <2>4
<1>6. \A p \in Places, j \in Nat :
          Waits(n, p, j)' => (log'[n].mode = "async" <=> p \in {Async, Batch})
  <2> SUFFICES ASSUME NEW p \in Places, NEW j \in Nat, Waits(n, p, j)'
               PROVE  log'[n].mode = "async" <=> p \in {Async, Batch}
    OBVIOUS
  <2>1. CASE p = a
    BY <1>1, <1>3, <1>4, <2>1
  <2>2. CASE p # a
    BY <1>1, <1>3, <1>4, <2>2
  <2> QED
    BY <2>1, <2>2
<1>7. CASE n = k
  <2>1. log'[n].by # Nobody
    BY <1>1, <1>2, <1>7
  <2>2. ASSUME NEW p \in Places, NEW j \in Nat, Waits(n, p, j)'
        PROVE  FALSE
    <3>1. CASE p = a
      <4>1. j # 0 /\ Waits(n, a, j + 1)
        BY <1>3, <2>2, <3>1
      <4>2. j + 1 = 1
        BY <1>4, <1>7, <4>1
      <4> QED
        BY <4>1, <4>2
    <3>2. CASE p # a
      BY <1>3, <1>4, <1>7, <2>2, <3>2
    <3> QED
      BY <3>1, <3>2
  <2> QED
    BY <1>5, <1>6, <2>1, <2>2
<1>8. CASE n # k
  <2>1. log'[n].by = log[n].by
    BY <1>1, <1>8
  <2>2. ASSUME NEW p \in Places, NEW j \in Nat, Waits(n, p, j)
        PROVE  \E q \in Places, l \in Nat : Waits(n, q, l)'
    <3>1. CASE p = a
      <4>1. j # 0
        BY <2>2, NotAtZero
      <4>2. j # 1
        BY <1>8, <2>2, <3>1 DEF Waits
      <4>3. j - 1 \in Nat /\ j - 1 # 0 /\ (j - 1) + 1 = j
        BY <4>1, <4>2
      <4>4. Waits(n, a, j - 1)'
        BY <1>3, <2>2, <3>1, <4>3
      <4> QED
        BY <4>3, <4>4
    <3>2. CASE p # a
      BY <1>3, <2>2, <3>2
    <3> QED
      BY <3>1, <3>2
  <2>3. ASSUME NEW p \in Places, NEW j \in Nat, Waits(n, p, j)'
        PROVE  \E q \in Places, l \in Nat : Waits(n, q, l)
    <3>1. CASE p = a
      <4>1. Waits(n, a, j + 1) /\ j + 1 \in Nat
        BY <1>3, <2>3, <3>1
      <4> QED
        BY <4>1
    <3>2. CASE p # a
      BY <1>3, <2>3, <3>2
    <3> QED
      BY <3>1, <3>2
  <2> QED
    BY <1>4, <1>5, <1>6, <2>1, <2>2, <2>3
<1> QED
  BY <1>7, <1>8

\* Null is no callback.
LEMMA NullIsNone ==
    Null \notin Callbacks
  BY DEF Null, Callbacks

\* Where no line changes.
LEMMA StayStep ==
    ASSUME UNCHANGED <<callbacks_sync, copies, callbacks_async, batch, todo>>,
           Calls \subseteq Calls',
           \A i \in Calls : promise'[i].callbacks = promise[i].callbacks,
           \A i \in Calls' : i \notin Calls => promise'[i].callbacks = <<>>
    PROVE  Stay
  BY StillWaits DEF Stay

\* A thread takes the callbacks of its answer.
LEMMA GetMoves ==
    ASSUME TypeOK, Callers, AnswerState, NEW t \in Threads, Get(t),
           promise[call[t]].state = "value"
    PROVE  /\ AnswerTo(call[t]) \in Places /\ TodoOf(t) \in Places
           /\ AnswerTo(call[t]) # TodoOf(t)
           /\ \A n, j : ~ Waits(n, TodoOf(t), j)
           /\ Move(AnswerTo(call[t]), TodoOf(t))
<1> SUFFICES ASSUME NEW c, c = call[t]
             PROVE  /\ AnswerTo(c) \in Places /\ TodoOf(t) \in Places
                    /\ AnswerTo(c) # TodoOf(t)
                    /\ \A n, j : ~ Waits(n, TodoOf(t), j)
                    /\ Move(AnswerTo(c), TodoOf(t))
  OBVIOUS
<1> DEFINE a == AnswerTo(c)
           b == TodoOf(t)
<1>1. /\ c \in Calls /\ Calls' = Calls
      /\ \A i \in Calls : promise'[i].callbacks =
             IF i = c THEN <<>> ELSE promise[i].callbacks
  BY GetStep
<1>2. a \in Places /\ b \in Places /\ a # b
  <2>1. c \in 1 .. MaxCalls
    BY <1>1, OpsAssumption DEF AnswerState, Calls, TypeOK
  <2> QED
    BY <2>1, PlacesDiffer
<1>3. /\ UNCHANGED <<callbacks_sync, copies, callbacks_async, batch>>
      /\ pc[t] = "get" /\ todo' = [todo EXCEPT ![t] = promise[c].callbacks]
  BY DEF Get, queues, dispatching
<1>4. \A u \in Threads : todo'[u] = IF u = t THEN promise[c].callbacks ELSE todo[u]
  BY <1>3, ThreadTables
<1>5. Line(b) = <<>> /\ Line(a)' = <<>> /\ Line(b)' = Line(a)
  <2>1. todo[t] = <<>>
    BY <1>3 DEF Callers
  <2> QED
    BY <1>1, <1>4, <2>1, LineAt, LineAtNext
<1>6. \A p \in Places : p \notin {a, b} => Line(p)' = Line(p)
  <2> DEFINE Moved == {a, b}
  <2>1. \A u \in Threads : TodoOf(u) \in Moved \/ todo'[u] = todo[u]
    BY <1>4
  <2>2. \A i \in Calls : AnswerTo(i) \in Moved \/ promise'[i].callbacks = promise[i].callbacks
    BY <1>1
  <2> HIDE DEF Moved
  <2>3. \A p \in Places : p \notin Moved => Line(p)' = Line(p)
    BY <1>1, <1>3, <2>1, <2>2, OtherLines
  <2> QED
    BY <2>3 DEF Moved
<1>7. \A n, j : ~ Waits(n, b, j)
  BY <1>5 DEF Waits
<1> HIDE DEF a, b
<1>8. Move(a, b)
  BY <1>2, <1>5, <1>6, MoveWaits DEF Move
<1> QED
  BY <1>2, <1>7, <1>8 DEF a, b

\* It runs the first of them.
LEMMA RunMoves ==
    ASSUME TypeOK, NEW t \in Threads, RunSyncCallback(t)
    PROVE  /\ TodoOf(t) \in Places
           /\ Waits(Head(todo[t]), TodoOf(t), 1) /\ Head(todo[t]) \in Callbacks
           /\ Leave(TodoOf(t))
<1> DEFINE a == TodoOf(t)
<1>1. /\ UNCHANGED <<callbacks_sync, copies, callbacks_async, batch, promise, mode>>
      /\ todo' = [todo EXCEPT ![t] = Tail(todo[t])] /\ todo[t] # <<>>
  BY DEF RunSyncCallback, queues, dispatching
<1>2. \A u \in Threads : todo'[u] = IF u = t THEN Tail(todo[t]) ELSE todo[u]
  BY <1>1, ThreadTables
<1>3. a \in Places
  BY PlacesDiffer
<1>4. Line(a) = todo[t] /\ Line(a)' = Tail(todo[t])
  BY <1>2, LineAt, LineAtNext
<1>5. Calls' = Calls
  BY <1>1 DEF Calls
<1>6. \A p \in Places : p # a => Line(p)' = Line(p)
  <2> DEFINE Moved == {a}
  <2>1. \A u \in Threads : TodoOf(u) \in Moved \/ todo'[u] = todo[u]
    BY <1>2
  <2> HIDE DEF Moved
  <2>2. \A p \in Places : p \notin Moved => Line(p)' = Line(p)
    BY <1>1, <1>5, <2>1, OtherLines
  <2> QED
    BY <2>2 DEF Moved
<1>7. Head(todo[t]) \in Callbacks
  BY <1>1, ThreadTables, HeadTailProperties
<1> HIDE DEF a
<1>8. Waits(Head(todo[t]), a, 1) /\ Leave(a)
  BY <1>1, <1>3, <1>4, <1>6, HeadWaits DEF Leave
<1> QED
  BY <1>3, <1>7, <1>8 DEF a

\* A synchronous window takes the callbacks there are.
LEMMA CloseMoves ==
    ASSUME TypeOK, DispatcherState, CloseWindow, mode[elem] = "sync"
    PROVE  /\ \A n, j : ~ Waits(n, Copies, j)
           /\ Move(Sync, Copies)
<1>1. /\ UNCHANGED <<callbacks_async, batch, todo, promise, mode>>
      /\ callbacks_sync' = <<>> /\ copies' = callbacks_sync /\ copies = <<>>
  BY DEF CloseWindow, DispatcherState, threads
<1>2. Calls' = Calls
  BY <1>1 DEF Calls
<1>3. Line(Copies) = <<>> /\ Line(Sync)' = <<>> /\ Line(Copies)' = Line(Sync)
  BY <1>1, LineAt, LineAtNext
<1>4. \A p \in Places : p \notin {Sync, Copies} => Line(p)' = Line(p)
  <2> DEFINE Moved == {Sync, Copies}
  <2>1. Sync \in Moved /\ Copies \in Moved
    OBVIOUS
  <2> HIDE DEF Moved
  <2>2. \A p \in Places : p \notin Moved => Line(p)' = Line(p)
    BY <1>1, <1>2, <2>1, OtherLines
  <2> QED
    BY <2>2 DEF Moved
<1>5. Move(Sync, Copies)
  BY <1>3, <1>4, PlacesDiffer, MoveWaits DEF Move
<1> QED
  BY <1>3, <1>5 DEF Waits

\* They go with the answer.
LEMMA ValueMoves ==
    ASSUME TypeOK, DispatcherState, AnswerState, SetValue
    PROVE  /\ AnswerTo(elem) \in Places
           /\ \A n, j : ~ Waits(n, AnswerTo(elem), j)
           /\ Move(Copies, AnswerTo(elem))
<1> SUFFICES ASSUME NEW e, e = elem
             PROVE  /\ AnswerTo(e) \in Places
                    /\ \A n, j : ~ Waits(n, AnswerTo(e), j)
                    /\ Move(Copies, AnswerTo(e))
  OBVIOUS
<1> DEFINE b == AnswerTo(e)
<1>1. /\ e \in Calls /\ Calls' = Calls
      /\ \A i \in Calls : promise'[i] =
             IF i = e THEN [state |-> "value", callbacks |-> copies] ELSE promise[i]
  BY ValueStep
<1>2. b \in Places /\ Copies # b
  <2>1. e \in 1 .. MaxCalls
    BY <1>1, OpsAssumption DEF AnswerState, Calls, TypeOK
  <2> QED
    BY <2>1, PlacesDiffer
<1>3. /\ UNCHANGED <<callbacks_sync, callbacks_async, batch, todo>>
      /\ copies' = <<>> /\ promise[e].state = "pending"
  BY DEF SetValue, DispatcherState, queues, threads
<1>4. promise[e].callbacks = <<>>
  BY <1>1, <1>3 DEF AnswerState
<1>5. Line(b) = <<>> /\ Line(Copies)' = <<>> /\ Line(b)' = Line(Copies)
  BY <1>1, <1>3, <1>4, LineAt, LineAtNext
<1>6. \A p \in Places : p \notin {Copies, b} => Line(p)' = Line(p)
  <2> DEFINE Moved == {Copies, b}
  <2>1. Copies \in Moved
    OBVIOUS
  <2>2. \A i \in Calls : AnswerTo(i) \in Moved \/ promise'[i].callbacks = promise[i].callbacks
    BY <1>1
  <2> HIDE DEF Moved
  <2>3. \A p \in Places : p \notin Moved => Line(p)' = Line(p)
    BY <1>1, <1>3, <2>1, <2>2, OtherLines
  <2> QED
    BY <2>3 DEF Moved
<1>7. \A n, j : ~ Waits(n, b, j)
  BY <1>5 DEF Waits
<1> HIDE DEF b
<1>8. Move(Copies, b)
  BY <1>2, <1>5, <1>6, PlacesDiffer, MoveWaits DEF Move
<1> QED
  BY <1>2, <1>7, <1>8 DEF b

\* The callback thread takes the callbacks of its queue.
LEMMA BatchMoves ==
    ASSUME TypeOK, BatchState, TakeBatch
    PROVE  /\ \A n, j : ~ Waits(n, Batch, j)
           /\ Move(Async, Batch)
<1>1. /\ UNCHANGED <<callbacks_sync, copies, todo, promise, mode>>
      /\ callbacks_async' = <<>> /\ batch' = callbacks_async /\ batch = <<>>
  BY DEF TakeBatch, BatchState, dispatching
<1>2. Calls' = Calls
  BY <1>1 DEF Calls
<1>3. Line(Batch) = <<>> /\ Line(Async)' = <<>> /\ Line(Batch)' = Line(Async)
  BY <1>1, LineAt, LineAtNext
<1>4. \A p \in Places : p \notin {Async, Batch} => Line(p)' = Line(p)
  <2> DEFINE Moved == {Async, Batch}
  <2>1. Async \in Moved /\ Batch \in Moved
    OBVIOUS
  <2> HIDE DEF Moved
  <2>2. \A p \in Places : p \notin Moved => Line(p)' = Line(p)
    BY <1>1, <1>2, <2>1, OtherLines
  <2> QED
    BY <2>2 DEF Moved
<1>5. Move(Async, Batch)
  BY <1>3, <1>4, PlacesDiffer, MoveWaits DEF Move
<1> QED
  BY <1>3, <1>5 DEF Waits

\* It runs the first of them.
LEMMA CallbackMoves ==
    ASSUME TypeOK, BatchState, EndCallback
    PROVE  /\ Waits(Head(batch), Batch, 1) /\ Head(batch) \in Callbacks
           /\ Leave(Batch)
<1>1. /\ UNCHANGED <<callbacks_sync, callbacks_async, copies, todo, promise, mode>>
      /\ batch' = Tail(batch) /\ batch # <<>> /\ Head(batch) # Null
  BY DEF EndCallback, BatchState, queues, dispatching
<1>2. Calls' = Calls
  BY <1>1 DEF Calls
<1>3. Line(Batch) = batch /\ Line(Batch)' = Tail(batch)
  BY <1>1, LineAt, LineAtNext
<1>4. \A p \in Places : p # Batch => Line(p)' = Line(p)
  <2> DEFINE Moved == {Batch}
  <2>1. Batch \in Moved
    OBVIOUS
  <2> HIDE DEF Moved
  <2>2. \A p \in Places : p \notin Moved => Line(p)' = Line(p)
    BY <1>1, <1>2, <2>1, OtherLines
  <2> QED
    BY <2>2 DEF Moved
<1>5. Head(batch) \in Callbacks
  BY <1>1, HeadTailProperties DEF TypeOK
<1>6. Waits(Head(batch), Batch, 1) /\ Leave(Batch)
  BY <1>1, <1>3, <1>4, PlacesDiffer, HeadWaits DEF Leave
<1> QED
  BY <1>5, <1>6

\* Null joins a line and is no callback.
LEMMA LeaveLoopStays ==
    ASSUME TypeOK, LeaveLoop
    PROVE  Stay
<1>1. /\ UNCHANGED <<callbacks_sync, copies, batch, todo>>
      /\ callbacks_async' = Append(callbacks_async, Null)
  BY DEF LeaveLoop, threads
<1>2. /\ Calls' = Calls
      /\ \A i \in Calls : promise'[i].callbacks = promise[i].callbacks
  BY LeaveStep
<1>3. Line(Async)' = Append(Line(Async), Null)
  BY <1>1, LineAt, LineAtNext
<1>4. \A p \in Places : p # Async => Line(p)' = Line(p)
  <2> DEFINE Moved == {Async}
  <2>1. Async \in Moved
    OBVIOUS
  <2> HIDE DEF Moved
  <2>2. \A p \in Places : p \notin Moved => Line(p)' = Line(p)
    BY <1>1, <1>2, <2>1, OtherLines
  <2> QED
    BY <2>2 DEF Moved
<1>5. \A n, j : \A p \in Places :
          Waits(n, p, j)' <=> \/ Waits(n, p, j)
                              \/ p = Async /\ n = Null /\ j = Len(Line(Async)) + 1
  BY <1>3, <1>4, PlacesDiffer, LastWaits
<1> QED
  BY <1>5, NullIsNone DEF Stay

\* Null is alone when it is the first of the batch.
LEMMA TakeNullStays ==
    ASSUME TypeOK, BatchState, TakeNull
    PROVE  Stay
<1>1. /\ UNCHANGED <<callbacks_sync, callbacks_async, copies, todo, promise, mode>>
      /\ batch' = <<>> /\ batch # <<>> /\ Head(batch) = Null
  BY DEF TakeNull, queues, dispatching
<1>2. Calls' = Calls
  BY <1>1 DEF Calls
<1>3. batch \in Seq(Callbacks \cup {Null})
  BY DEF TypeOK
<1>4. Len(batch) \in Nat /\ Len(batch) # 0 /\ batch[1] = Null
  BY <1>1, <1>3
<1>5. 1 \in 1 .. Len(batch)
  BY <1>4
<1>6. Len(batch) = 1
  BY <1>4, <1>5 DEF BatchState
<1>7. \A p \in Places : p # Batch => Line(p)' = Line(p)
  <2> DEFINE Moved == {Batch}
  <2>1. Batch \in Moved
    OBVIOUS
  <2> HIDE DEF Moved
  <2>2. \A p \in Places : p \notin Moved => Line(p)' = Line(p)
    BY <1>1, <1>2, <2>1, OtherLines
  <2> QED
    BY <2>2 DEF Moved
<1>8. Line(Batch) = batch /\ Line(Batch)' = <<>>
  BY <1>1, LineAt, LineAtNext
<1>9. \A n \in Callbacks : \A j \in Nat : ~ Waits(n, Batch, j) /\ ~ Waits(n, Batch, j)'
  <2>1. ASSUME NEW n \in Callbacks, NEW j \in Nat
        PROVE  ~ Waits(n, Batch, j)
    BY <1>4, <1>6, <1>8, NullIsNone DEF Waits
  <2>2. ASSUME NEW n \in Callbacks, NEW j \in Nat
        PROVE  ~ Waits(n, Batch, j)'
    BY <1>8 DEF Waits
  <2> QED
    BY <2>1, <2>2
<1>10. \A n \in Callbacks : \A p \in Places, j \in Nat :
           p # Batch => (Waits(n, p, j)' <=> Waits(n, p, j))
  BY <1>7 DEF Waits
<1> QED
  BY <1>9, <1>10 DEF Stay

\* The line that a new callback of mode m joins.
Entrance(m) == IF m = "sync" THEN Sync ELSE Async

\* A callback that is produced joins its line.
LEMMA FireMoves ==
    ASSUME TypeOK, DispatcherState, NEW m \in Modes, Fire(m)
    PROVE  LET a == Entrance(m)
           IN  /\ a \in Places
               /\ \A n, j : \A p \in Places :
                      Waits(n, p, j)' <=> \/ Waits(n, p, j)
                                          \/ /\ p = a /\ n = Len(log) + 1
                                             /\ j = Len(Line(a)) + 1
               /\ Len(Line(a)) \in Nat
<1> DEFINE a == Entrance(m)
<1>1. /\ UNCHANGED <<copies, batch, todo, promise, mode>>
      /\ m = "sync" => /\ callbacks_sync' = Append(callbacks_sync, Len(log) + 1)
                       /\ UNCHANGED callbacks_async
      /\ m # "sync" => /\ callbacks_async' = Append(callbacks_async, Len(log) + 1)
                       /\ UNCHANGED callbacks_sync
  BY DEF Fire, threads
<1>2. Calls' = Calls
  BY <1>1 DEF Calls
<1>3. a \in Places /\ (m = "sync" => a = Sync) /\ (m # "sync" => a = Async)
  BY PlacesDiffer DEF Entrance
<1>4. Line(a)' = Append(Line(a), Len(log) + 1)
  BY <1>1, <1>3, LineAt, LineAtNext
<1> HIDE DEF a
<1>5. \A p \in Places : p # a => Line(p)' = Line(p)
  <2> DEFINE Moved == {a}
  <2>1. /\ Sync \in Moved \/ UNCHANGED callbacks_sync
        /\ Async \in Moved \/ UNCHANGED callbacks_async
    BY <1>1, <1>3
  <2> HIDE DEF Moved
  <2>2. \A p \in Places : p \notin Moved => Line(p)' = Line(p)
    BY <1>1, <1>2, <2>1, OtherLines
  <2> QED
    BY <2>2 DEF Moved
<1>6. /\ \A n, j : \A p \in Places :
             Waits(n, p, j)' <=> \/ Waits(n, p, j)
                                 \/ /\ p = a /\ n = Len(log) + 1
                                    /\ j = Len(Line(a)) + 1
      /\ Len(Line(a)) \in Nat
  BY <1>3, <1>4, <1>5, LastWaits
<1> QED
  BY <1>3, <1>6 DEF a

\* Only callbacks of the log wait.
LEMMA WaitersInLog ==
    ASSUME TypeOK, NEW p \in Places, NEW n, NEW j, Waits(n, p, j)
    PROVE  n \in Callbacks \cup {Null}
<1>1. Line(p) \in Seq(Callbacks \cup {Null}) /\ j \in 1 .. Len(Line(p))
  BY LineType DEF Waits
<1> QED
  BY <1>1, ElementOfSeq DEF Waits

\* Nobody moves in a step that leaves the lines alone.
LEMMA UnchangedStay ==
    ASSUME UNCHANGED <<callbacks_sync, copies, callbacks_async, batch, todo,
                       promise, mode>>
    PROVE  Stay
<1>1. Calls' = Calls
  BY DEF Calls
<1> QED
  BY <1>1, StayStep

\* Nobody moves when a call is pushed: its answer is empty.
LEMMA PushStays ==
    ASSUME TypeOK, NEW m \in Modes, PushExternalOrder(m),
           UNCHANGED <<callbacks_sync, copies, callbacks_async, batch, todo, log>>
    PROVE  Stay
<1>1. /\ Calls' = Calls \cup {Len(mode) + 1}
      /\ promise'[Len(mode) + 1] = Pending
      /\ \A i \in Calls : promise'[i] = promise[i]
  BY PushStep
<1> QED
  BY <1>1, StayStep DEF Pending

\* InOnePlace stays when a callback is produced.
LEMMA FireInOnePlace ==
    ASSUME TypeOK, DispatcherState, InOnePlace, NEW m \in Modes, Fire(m)
    PROVE  InOnePlace'
<1> DEFINE a == Entrance(m)
           k == Len(log) + 1
           last == Len(Line(a)) + 1
<1>1. /\ log' = Append(log, [window |-> elem, mode |-> m, by |-> Nobody])
      /\ UNCHANGED mode /\ elem \in Calls
  BY DEF Fire, DispatcherState
<1>2. /\ Callbacks' = Callbacks \cup {k} /\ k \notin Callbacks
      /\ \A n \in Callbacks : log'[n] = log[n]
      /\ log'[k].by = Nobody /\ log'[k].mode = m /\ k # Null
  <2>1. /\ Callbacks' = Callbacks \cup {k} /\ k \notin Callbacks /\ Len(log) \in Nat
        /\ \A n \in Callbacks : log'[n] = log[n]
        /\ log'[k] = [window |-> elem, mode |-> m, by |-> Nobody]
    BY <1>1, FireStep
  <2> QED
    BY <2>1 DEF Null
<1>3. /\ a \in Places /\ last \in Nat
      /\ \A n, j : \A p \in Places :
             Waits(n, p, j)' <=> \/ Waits(n, p, j)
                                 \/ p = a /\ n = k /\ j = last
  BY FireMoves
<1>4. m = "async" <=> a \in {Async, Batch}
  BY PlacesDiffer DEF Entrance, Modes
<1>5. \A p \in Places : \A j : ~ Waits(k, p, j)
  BY <1>2, WaitersInLog
<1> HIDE DEF a, k, last
<1> SUFFICES ASSUME NEW n \in Callbacks'
             PROVE  /\ log'[n].by = Nobody <=> \E p \in Places, j \in Nat : Waits(n, p, j)'
                    /\ \A p, q \in Places : \A j, l \in Nat :
                           Waits(n, p, j)' /\ Waits(n, q, l)' => p = q /\ j = l
                    /\ \A p \in Places, j \in Nat :
                           Waits(n, p, j)' => (log'[n].mode = "async" <=> p \in {Async, Batch})
  BY DEF InOnePlace
<1>6. CASE n = k
  <2>1. \A p \in Places, j \in Nat : Waits(n, p, j)' <=> p = a /\ j = last
    BY <1>3, <1>5, <1>6
  <2>2. log'[n].by = Nobody /\ \E p \in Places, j \in Nat : Waits(n, p, j)'
    BY <1>2, <1>3, <1>6, <2>1
  <2> QED
    BY <1>2, <1>4, <1>6, <2>1, <2>2
<1>7. CASE n # k
  <2>1. n \in Callbacks /\ log'[n] = log[n]
    BY <1>2, <1>7
  <2>2. \A p \in Places, j \in Nat : Waits(n, p, j)' <=> Waits(n, p, j)
    BY <1>3, <1>7
  <2> QED
    BY <2>1, <2>2 DEF InOnePlace
<1> QED
  BY <1>6, <1>7

\* Every step preserves InOnePlace.
LEMMA InOnePlaceStep ==
    ASSUME TypeOK, DispatcherState, BatchState, Callers, AnswerState,
           InOnePlace, [Next]_vars
    PROVE  InOnePlace'
<1>1. CASE UNCHANGED vars
  <2>1. UNCHANGED <<callbacks_sync, copies, callbacks_async, batch, todo,
                    promise, mode, log>>
    BY <1>1 DEF vars, queues, dispatching, threads
  <2> QED
    BY <2>1, UnchangedStay, StayInOnePlace
<1>2. ASSUME NEW t \in Threads, SyncCall(t)
      PROVE  InOnePlace'
  <2>1. /\ PushExternalOrder("sync") /\ "sync" \in Modes
        /\ UNCHANGED <<callbacks_sync, copies, callbacks_async, batch, todo, log>>
    BY <1>2 DEF SyncCall, Modes, dispatching, threads
  <2> QED
    BY <2>1, PushStays, StayInOnePlace
<1>3. ASSUME NEW t \in Threads, Get(t)
      PROVE  InOnePlace'
  <2>1. UNCHANGED log
    BY <1>3 DEF Get
  <2>2. CASE promise[call[t]].state = "value"
    <3>1. PICK c : c = call[t]
      OBVIOUS
    <3>2. /\ AnswerTo(c) \in Places /\ TodoOf(t) \in Places
          /\ AnswerTo(c) # TodoOf(t)
          /\ \A n, j : ~ Waits(n, TodoOf(t), j)
          /\ Move(AnswerTo(c), TodoOf(t))
      BY <1>3, <2>2, <3>1, GetMoves
    <3>3. AnswerTo(c) \notin {Async, Batch} /\ TodoOf(t) \notin {Async, Batch}
      BY PlacesDiffer
    <3> QED
      BY <2>1, <3>2, <3>3, MoveInOnePlace
  <2>3. CASE promise[call[t]].state # "value"
    <3>1. UNCHANGED <<callbacks_sync, copies, callbacks_async, batch, todo, promise, mode>>
      BY <1>3, <2>3 DEF Get, queues, dispatching
    <3> QED
      BY <2>1, <3>1, UnchangedStay, StayInOnePlace
  <2> QED
    BY <2>2, <2>3
<1>4. ASSUME NEW t \in Threads, RunSyncCallback(t)
      PROVE  InOnePlace'
  <2>1. log' = [log EXCEPT ![Head(todo[t])].by = t] /\ UNCHANGED mode
    BY <1>4 DEF RunSyncCallback
  <2>2. PICK k : k = Head(todo[t])
    OBVIOUS
  <2>3. /\ TodoOf(t) \in Places /\ k \in Callbacks
        /\ Waits(k, TodoOf(t), 1) /\ Leave(TodoOf(t))
    BY <1>4, <2>2, RunMoves
  <2> QED
    BY <2>1, <2>2, <2>3, LeaveInOnePlace
<1>5. ASSUME NEW t \in Threads, Return(t)
      PROVE  InOnePlace'
  <2>1. UNCHANGED <<callbacks_sync, copies, callbacks_async, batch, todo,
                    promise, mode, log>>
    BY <1>5 DEF Return, queues, dispatching, threads
  <2> QED
    BY <2>1, UnchangedStay, StayInOnePlace
<1>6. ASSUME NEW c \in Clients, AsyncCall(c)
      PROVE  InOnePlace'
  <2>1. /\ PushExternalOrder("async") /\ "async" \in Modes
        /\ UNCHANGED <<callbacks_sync, copies, callbacks_async, batch, todo, log>>
    BY <1>6 DEF AsyncCall, Modes, dispatching, threads
  <2> QED
    BY <2>1, PushStays, StayInOnePlace
<1>7. ASSUME NEW c \in Clients, BeginWait(c)
      PROVE  InOnePlace'
  <2>1. UNCHANGED <<callbacks_sync, copies, callbacks_async, batch, todo,
                    promise, mode, log>>
    BY <1>7 DEF BeginWait, queues, dispatching, threads
  <2> QED
    BY <2>1, UnchangedStay, StayInOnePlace
<1>8. ASSUME NEW c \in Clients, SpuriousWakeup(c)
      PROVE  InOnePlace'
  <2>1. UNCHANGED <<callbacks_sync, copies, callbacks_async, batch, todo,
                    promise, mode, log>>
    BY <1>8 DEF SpuriousWakeup, queues, dispatching, threads
  <2> QED
    BY <2>1, UnchangedStay, StayInOnePlace
<1>9. ASSUME NEW c \in Clients, CheckPredicate(c)
      PROVE  InOnePlace'
  <2>1. UNCHANGED <<callbacks_sync, copies, callbacks_async, batch, todo,
                    promise, mode, log>>
    BY <1>9 DEF CheckPredicate, queues, dispatching, threads
  <2> QED
    BY <2>1, UnchangedStay, StayInOnePlace
<1>10. CASE Pop
  <2>1. UNCHANGED <<callbacks_sync, copies, callbacks_async, batch, todo,
                    promise, mode, log>>
    BY <1>10 DEF Pop, queues, dispatching, threads
  <2> QED
    BY <2>1, UnchangedStay, StayInOnePlace
<1>11. CASE OpenWindow
  <2>1. UNCHANGED <<callbacks_sync, copies, callbacks_async, batch, todo,
                    promise, mode, log>>
    BY <1>11 DEF OpenWindow, queues, dispatching, threads
  <2> QED
    BY <2>1, UnchangedStay, StayInOnePlace
<1>12. CASE LeaveLoop
  <2>1. UNCHANGED log
    BY <1>12 DEF LeaveLoop
  <2> QED
    BY <1>12, <2>1, LeaveLoopStays, StayInOnePlace
<1>13. CASE JoinAsyncThread
  <2>1. UNCHANGED <<callbacks_sync, copies, callbacks_async, batch, todo,
                    promise, mode, log>>
    BY <1>13 DEF JoinAsyncThread, queues, dispatching, threads
  <2> QED
    BY <2>1, UnchangedStay, StayInOnePlace
<1>14. ASSUME NEW m \in Modes, Fire(m)
      PROVE  InOnePlace'
  BY <1>14, FireInOnePlace
<1>15. CASE CloseWindow
  <2>1. UNCHANGED log
    BY <1>15 DEF CloseWindow
  <2>2. CASE mode[elem] = "sync"
    <3>1. (\A n, j : ~ Waits(n, Copies, j)) /\ Move(Sync, Copies)
      BY <1>15, <2>2, CloseMoves
    <3> QED
      BY <2>1, <3>1, PlacesDiffer, MoveInOnePlace
  <2>3. CASE mode[elem] # "sync"
    <3>1. UNCHANGED <<callbacks_sync, copies, callbacks_async, batch, todo, promise, mode>>
      BY <1>15, <2>3 DEF CloseWindow, threads
    <3> QED
      BY <2>1, <3>1, UnchangedStay, StayInOnePlace
  <2> QED
    BY <2>2, <2>3
<1>16. CASE ThrowInWindow
  <2>1. UNCHANGED <<callbacks_sync, copies, callbacks_async, batch, todo,
                    promise, mode, log>>
    BY <1>16 DEF ThrowInWindow, queues, dispatching, threads
  <2> QED
    BY <2>1, UnchangedStay, StayInOnePlace
<1>17. CASE SetValue
  <2>1. UNCHANGED log
    BY <1>17 DEF SetValue
  <2>2. PICK e : e = elem
    OBVIOUS
  <2>3. /\ AnswerTo(e) \in Places /\ \A n, j : ~ Waits(n, AnswerTo(e), j)
        /\ Move(Copies, AnswerTo(e))
    BY <1>17, <2>2, ValueMoves
  <2>4. /\ Copies \in Places /\ Copies # AnswerTo(e)
        /\ Copies \notin {Async, Batch} /\ AnswerTo(e) \notin {Async, Batch}
    BY PlacesDiffer
  <2> QED
    BY <2>1, <2>3, <2>4, MoveInOnePlace
<1>18. CASE SetException
  <2>1. UNCHANGED <<callbacks_sync, copies, callbacks_async, batch, todo, log>>
    BY <1>18 DEF SetException, queues, threads
  <2> QED
    BY <1>18, <2>1, ExceptionStep, StayStep, StayInOnePlace
<1>19. CASE TakeBatch
  <2>1. UNCHANGED log
    BY <1>19 DEF TakeBatch
  <2>2. (\A n, j : ~ Waits(n, Batch, j)) /\ Move(Async, Batch)
    BY <1>19, BatchMoves
  <2> QED
    BY <2>1, <2>2, PlacesDiffer, MoveInOnePlace
<1>20. CASE BeginCallback
  <2>1. UNCHANGED <<callbacks_sync, copies, callbacks_async, batch, todo,
                    promise, mode, log>>
    BY <1>20 DEF BeginCallback, queues, dispatching, threads
  <2> QED
    BY <2>1, UnchangedStay, StayInOnePlace
<1>21. CASE EndCallback
  <2>1. log' = [log EXCEPT ![Head(batch)].by = AsyncThread] /\ UNCHANGED mode
    BY <1>21 DEF EndCallback
  <2>2. PICK k : k = Head(batch)
    OBVIOUS
  <2>3. k \in Callbacks /\ Waits(k, Batch, 1) /\ Leave(Batch)
    BY <1>21, <2>2, CallbackMoves
  <2>4. AsyncThread \in Threads
    BY DEF Threads
  <2> QED
    BY <2>1, <2>2, <2>3, <2>4, PlacesDiffer, LeaveInOnePlace
<1>22. CASE BatchDone
  <2>1. UNCHANGED <<callbacks_sync, copies, callbacks_async, batch, todo,
                    promise, mode, log>>
    BY <1>22 DEF BatchDone, queues, dispatching, threads
  <2> QED
    BY <2>1, UnchangedStay, StayInOnePlace
<1>23. CASE TakeNull
  <2>1. UNCHANGED log
    BY <1>23 DEF TakeNull
  <2> QED
    BY <1>23, <2>1, TakeNullStays, StayInOnePlace
<1>24. CASE NotifyOne
  <2>1. UNCHANGED <<callbacks_sync, copies, callbacks_async, batch, todo,
                    promise, mode, log>>
    BY <1>24 DEF NotifyOne, queues, dispatching, threads
  <2> QED
    BY <2>1, UnchangedStay, StayInOnePlace
<1>25. CASE BeginDestroy
  <2>1. UNCHANGED <<callbacks_sync, copies, callbacks_async, batch, todo,
                    promise, mode, log>>
    BY <1>25 DEF BeginDestroy, queues, dispatching, threads
  <2> QED
    BY <2>1, UnchangedStay, StayInOnePlace
<1>26. CASE EmplaceNull
  <2>1. UNCHANGED <<callbacks_sync, copies, callbacks_async, batch, todo,
                    promise, mode, log>>
    BY <1>26 DEF EmplaceNull, queues, dispatching, threads
  <2> QED
    BY <2>1, UnchangedStay, StayInOnePlace
<1>27. CASE EndDestroy
  <2>1. UNCHANGED <<callbacks_sync, copies, callbacks_async, batch, todo, log>>
    BY <1>27 DEF EndDestroy, dispatching, threads
  <2> QED
    BY <1>27, <2>1, DestroyStep, StayStep, StayInOnePlace
<1> QED
  BY <1>1, <1>2, <1>3, <1>4, <1>5, <1>6, <1>7, <1>8, <1>9, <1>10, <1>11,
     <1>12, <1>13, <1>14, <1>15, <1>16, <1>17, <1>18, <1>19, <1>20, <1>21,
     <1>22, <1>23, <1>24, <1>25, <1>26, <1>27
     DEF Next, Client, DispatcherThread, CallbackThread, Destructor, Threads

\* Every step preserves Runners.
LEMMA RunnersStep ==
    ASSUME TypeOK, DispatcherState, BatchState, InOnePlace, Runners,
           [Next]_vars
    PROVE  Runners'
<1>1. CASE UNCHANGED vars
  BY <1>1 DEF vars, Runners, Callbacks
<1>2. ASSUME NEW t \in Threads, SyncCall(t)
      PROVE  Runners'
  BY <1>2 DEF SyncCall, Runners, Callbacks
<1>3. ASSUME NEW t \in Threads, Get(t)
      PROVE  Runners'
  BY <1>3 DEF Get, Runners, Callbacks
<1>4. ASSUME NEW t \in Threads, RunSyncCallback(t)
      PROVE  Runners'
  <2>1. log' = [log EXCEPT ![Head(todo[t])].by = t] /\ UNCHANGED mode
    BY <1>4 DEF RunSyncCallback
  <2>2. PICK k : k = Head(todo[t])
    OBVIOUS
  <2>3. TodoOf(t) \in Places /\ k \in Callbacks /\ Waits(k, TodoOf(t), 1)
    BY <1>4, <2>2, RunMoves
  <2>4. log[k].mode # "async"
    BY <2>3, PlacesDiffer DEF InOnePlace
  <2>5. /\ Callbacks' = Callbacks
        /\ \A n \in Callbacks : /\ log'[n].mode = log[n].mode
                                /\ log'[n].by = IF n = k THEN t ELSE log[n].by
    BY <2>1, <2>2, <2>3, RunStep
  <2> QED
    BY <2>4, <2>5 DEF Runners
<1>5. ASSUME NEW t \in Threads, Return(t)
      PROVE  Runners'
  BY <1>5 DEF Return, Runners, Callbacks
<1>6. ASSUME NEW c \in Clients, AsyncCall(c)
      PROVE  Runners'
  BY <1>6 DEF AsyncCall, Runners, Callbacks
<1>7. ASSUME NEW c \in Clients, BeginWait(c)
      PROVE  Runners'
  BY <1>7 DEF BeginWait, Runners, Callbacks
<1>8. ASSUME NEW c \in Clients, SpuriousWakeup(c)
      PROVE  Runners'
  BY <1>8 DEF SpuriousWakeup, Runners, Callbacks
<1>9. ASSUME NEW c \in Clients, CheckPredicate(c)
      PROVE  Runners'
  BY <1>9 DEF CheckPredicate, Runners, Callbacks
<1>10. CASE Pop
  BY <1>10 DEF Pop, Runners, Callbacks
<1>11. CASE OpenWindow
  BY <1>11 DEF OpenWindow, Runners, Callbacks
<1>12. CASE LeaveLoop
  BY <1>12 DEF LeaveLoop, Runners, Callbacks
<1>13. CASE JoinAsyncThread
  BY <1>13 DEF JoinAsyncThread, Runners, Callbacks
<1>14. ASSUME NEW m \in Modes, Fire(m)
      PROVE  Runners'
  <2>1. /\ log' = Append(log, [window |-> elem, mode |-> m, by |-> Nobody])
        /\ UNCHANGED mode /\ elem \in Calls
    BY <1>14 DEF Fire, DispatcherState
  <2>2. /\ Callbacks' = Callbacks \cup {Len(log) + 1}
        /\ \A n \in Callbacks : log'[n] = log[n]
        /\ log'[Len(log) + 1] = [window |-> elem, mode |-> m, by |-> Nobody]
    BY <2>1, FireStep
  <2> QED
    BY <2>2 DEF Runners
<1>15. CASE CloseWindow
  BY <1>15 DEF CloseWindow, Runners, Callbacks
<1>16. CASE ThrowInWindow
  BY <1>16 DEF ThrowInWindow, Runners, Callbacks
<1>17. CASE SetValue
  BY <1>17 DEF SetValue, Runners, Callbacks
<1>18. CASE SetException
  BY <1>18 DEF SetException, Runners, Callbacks
<1>19. CASE TakeBatch
  BY <1>19 DEF TakeBatch, Runners, Callbacks
<1>20. CASE BeginCallback
  BY <1>20 DEF BeginCallback, Runners, Callbacks
<1>21. CASE EndCallback
  <2>1. log' = [log EXCEPT ![Head(batch)].by = AsyncThread] /\ UNCHANGED mode
    BY <1>21 DEF EndCallback
  <2>2. PICK k : k = Head(batch)
    OBVIOUS
  <2>3. k \in Callbacks /\ AsyncThread \in Threads
    BY <1>21, <2>2, CallbackMoves DEF Threads
  <2>4. /\ Callbacks' = Callbacks
        /\ \A n \in Callbacks :
               /\ log'[n].mode = log[n].mode
               /\ log'[n].by = IF n = k THEN AsyncThread ELSE log[n].by
    BY <2>1, <2>2, <2>3, RunStep
  <2> QED
    BY <2>4 DEF Runners
<1>22. CASE BatchDone
  BY <1>22 DEF BatchDone, Runners, Callbacks
<1>23. CASE TakeNull
  BY <1>23 DEF TakeNull, Runners, Callbacks
<1>24. CASE NotifyOne
  BY <1>24 DEF NotifyOne, Runners, Callbacks
<1>25. CASE BeginDestroy
  BY <1>25 DEF BeginDestroy, Runners, Callbacks
<1>26. CASE EmplaceNull
  BY <1>26 DEF EmplaceNull, Runners, Callbacks
<1>27. CASE EndDestroy
  BY <1>27 DEF EndDestroy, Runners, Callbacks
<1> QED
  BY <1>1, <1>2, <1>3, <1>4, <1>5, <1>6, <1>7, <1>8, <1>9, <1>10, <1>11,
     <1>12, <1>13, <1>14, <1>15, <1>16, <1>17, <1>18, <1>19, <1>20, <1>21,
     <1>22, <1>23, <1>24, <1>25, <1>26, <1>27
     DEF Next, Client, DispatcherThread, CallbackThread, Destructor, Threads

\* The windows of callbacks stay as they are when each callback waits where
\* its window lets it, given that it did before.
LEMMA KeepWindows ==
    ASSUME TypeOK, Windows, Callbacks' = Callbacks,
           \A n \in Callbacks : /\ log'[n].window = log[n].window
                                /\ log'[n].mode = log[n].mode,
           \A i \in Calls : mode'[i] = mode[i],
           \A n \in Callbacks, w \in Calls : \A p \in Places, j \in Nat :
               /\ Waits(n, p, j)'
               /\ log[n].mode = "sync" /\ mode[w] = "sync"
               => \E q \in Places, k \in Nat :
                      Waits(n, q, k) /\ (InWindow(w, q) => InWindow(w, p)')
    PROVE  Windows'
<1> SUFFICES ASSUME NEW n \in Callbacks, NEW p \in Places, NEW j \in Nat,
                    Waits(n, p, j)', log'[n].mode = "sync",
                    NEW w, w = log'[n].window, mode'[w] = "sync"
             PROVE  InWindow(w, p)'
  BY DEF Windows
<1>1. w = log[n].window
  OBVIOUS
<1>2. log[n] \in Entry
  BY ElementOfSeq DEF TypeOK, Entry, Callbacks
<1>3. w \in Calls /\ log'[n].window = w /\ log[n].mode = "sync" /\ mode[w] = "sync"
  BY <1>1, <1>2 DEF Entry
<1>4. PICK q \in Places, k \in Nat : Waits(n, q, k) /\ (InWindow(w, q) => InWindow(w, p)')
  BY <1>3
<1>5. InWindow(w, q)
  BY <1>1, <1>3, <1>4 DEF Windows
<1> QED
  BY <1>4, <1>5

\* Where a callback may wait stays when its answer stays, or fails, its
\* window stays open and its caller stays in the call.
LEMMA KeepInWindow ==
    ASSUME NEW w, NEW p,
           \/ promise'[w].state = promise[w].state
           \/ promise'[w].state \in {"exception", "broken"},
           dispatcher \in {"window", "set_value", "set_exception"} /\ w = elem =>
               \/ /\ elem' = elem
                  /\ dispatcher' = dispatcher
               \/ elem' = elem /\ dispatcher = "window" /\ dispatcher' = "set_exception"
               \/ promise'[w].state \in {"exception", "broken"},
           \A u \in Threads : call[u] = w =>
               call'[u] = call[u] /\ (pc[u] = "get" => pc'[u] = "get")
    PROVE  InWindow(w, p) => InWindow(w, p)'
<1>1. CASE promise[w].state = "value"
  BY <1>1 DEF InWindow
<1>2. CASE promise[w].state = "pending"
  BY <1>2 DEF InWindow
<1>3. CASE promise[w].state \in {"exception", "broken"}
  BY <1>3 DEF InWindow
<1> QED
  BY <1>1, <1>2, <1>3 DEF InWindow

\* Windows stays when nobody moves and no caller leaves its call.
LEMMA StayWindows ==
    ASSUME TypeOK, Windows, Stay, UNCHANGED log,
           \A i \in Calls : mode'[i] = mode[i],
           \A i \in Calls : \/ promise'[i].state = promise[i].state
                            \/ promise'[i].state \in {"exception", "broken"},
           dispatcher \in {"window", "set_value", "set_exception"} =>
               \/ /\ elem' = elem
                  /\ dispatcher' = dispatcher
               \/ elem' = elem /\ dispatcher = "window" /\ dispatcher' = "set_exception"
               \/ promise'[elem].state \in {"exception", "broken"},
           \A u \in Threads : call[u] \in Calls =>
               call'[u] = call[u] /\ (pc[u] = "get" => pc'[u] = "get")
    PROVE  Windows'
<1>1. Callbacks' = Callbacks
  BY DEF Callbacks
<1>2. ASSUME NEW n \in Callbacks, NEW w \in Calls, NEW p \in Places, NEW j \in Nat,
             Waits(n, p, j)'
      PROVE  Waits(n, p, j) /\ (InWindow(w, p) => InWindow(w, p)')
  <2>1. Waits(n, p, j)
    BY <1>2 DEF Stay
  <2>2. InWindow(w, p) => InWindow(w, p)'
    BY KeepInWindow
  <2> QED
    BY <2>1, <2>2
<1> QED
  BY <1>1, <1>2, KeepWindows

\* It stays when a thread takes its answer.
LEMMA GetWindows ==
    ASSUME TypeOK, Callers, AnswerState, Windows, NEW t \in Threads, Get(t)
    PROVE  Windows'
<1>1. PICK c : c = call[t]
  OBVIOUS
<1>2. /\ c \in Calls /\ promise[c].state # "pending" /\ Callbacks' = Callbacks
      /\ UNCHANGED <<mode, log, elem, dispatcher>>
      /\ \A i \in Calls : promise'[i].state = promise[i].state
  BY <1>1, GetStep DEF Get, dispatching
<1>3. \A u \in Threads : u # t => call'[u] = call[u] /\ pc'[u] = pc[u]
  BY ThreadTables DEF Get
<1>4. \A u \in Threads : call[u] = c => u = t
  BY <1>1, <1>2 DEF Callers, Calls, Null
<1>5. ASSUME NEW w \in Calls, w # c, NEW p
      PROVE  InWindow(w, p) => InWindow(w, p)'
  <2>1. \A u \in Threads : call[u] = w => call'[u] = call[u] /\ (pc[u] = "get" => pc'[u] = "get")
    BY <1>1, <1>3, <1>5
  <2> QED
    BY <1>2, <2>1, KeepInWindow
<1>6. CASE promise[c].state = "value"
  <2>1. /\ AnswerTo(c) \in Places /\ TodoOf(t) \in Places
        /\ Move(AnswerTo(c), TodoOf(t))
    BY <1>1, <1>6, GetMoves
  <2>2. UNCHANGED call /\ pc[t] = "get"
    BY <1>1, <1>6 DEF Get
  <2>3. InWindow(c, TodoOf(t))'
    BY <1>1, <1>2, <1>6, <2>2 DEF InWindow
  <2>4. ASSUME NEW n \in Callbacks, NEW w \in Calls, NEW p \in Places, NEW j \in Nat,
               Waits(n, p, j)'
        PROVE  \E q \in Places, k \in Nat :
                   Waits(n, q, k) /\ (InWindow(w, q) => InWindow(w, p)')
    <3>1. CASE p = TodoOf(t)
      <4>1. Waits(n, AnswerTo(c), j)
        BY <2>1, <2>4, <3>1 DEF Move
      <4>2. CASE w = c
        BY <2>1, <2>3, <3>1, <4>1, <4>2
      <4>3. CASE w # c
        <5>1. InWindow(w, AnswerTo(c)) => promise[w].state \in {"exception", "broken"}
          BY <4>3, PlacesDiffer DEF InWindow
        <5>2. promise[w].state \in {"exception", "broken"} => InWindow(w, p)'
          BY <1>2 DEF InWindow
        <5> QED
          BY <2>1, <4>1, <5>1, <5>2
      <4> QED
        BY <4>2, <4>3
    <3>2. CASE p # TodoOf(t)
      <4>1. p # AnswerTo(c) /\ Waits(n, p, j)
        BY <2>1, <2>4, <3>2 DEF Move
      <4>2. CASE w = c
        <5>1. ~ InWindow(w, p)
          BY <1>4, <1>6, <3>2, <4>1, <4>2 DEF InWindow
        <5> QED
          BY <4>1, <5>1
      <4>3. CASE w # c
        BY <1>5, <4>1, <4>3
      <4> QED
        BY <4>2, <4>3
    <3> QED
      BY <3>1, <3>2
  <2> QED
    BY <1>2, <2>4, KeepWindows
<1>7. CASE promise[c].state # "value"
  <2>1. UNCHANGED <<callbacks_sync, copies, callbacks_async, batch, todo, promise, mode>>
    BY <1>1, <1>7 DEF Get, queues, dispatching
  <2>2. Stay
    BY <2>1, UnchangedStay
  <2>3. ASSUME NEW n \in Callbacks, NEW w \in Calls, NEW p \in Places, NEW j \in Nat,
               Waits(n, p, j)'
        PROVE  Waits(n, p, j) /\ (InWindow(w, p) => InWindow(w, p)')
    <3>1. Waits(n, p, j)
      BY <2>2, <2>3 DEF Stay
    <3>2. CASE w = c
      BY <1>2, <1>7, <3>1, <3>2 DEF InWindow
    <3>3. CASE w # c
      BY <1>5, <3>1, <3>3
    <3> QED
      BY <3>2, <3>3
  <2> QED
    BY <1>2, <2>3, KeepWindows
<1> QED
  BY <1>6, <1>7

\* It stays when a call returns, which has nothing left to run.
LEMMA ReturnWindows ==
    ASSUME TypeOK, Callers, Windows, NEW t \in Threads, Return(t)
    PROVE  Windows'
<1>1. /\ UNCHANGED <<callbacks_sync, copies, callbacks_async, batch, todo, promise,
                     mode, log, elem, dispatcher>>
      /\ pc[t] = "run" /\ todo[t] = <<>>
  BY DEF Return, queues, dispatching
<1>2. Callbacks' = Callbacks /\ Stay
  BY <1>1, UnchangedStay DEF Callbacks
<1>3. \A u \in Threads : u # t => call'[u] = call[u] /\ pc'[u] = pc[u]
  BY ThreadTables DEF Return
<1>4. ASSUME NEW n \in Callbacks, NEW w \in Calls, NEW p \in Places, NEW j \in Nat,
             Waits(n, p, j)'
      PROVE  Waits(n, p, j) /\ (InWindow(w, p) => InWindow(w, p)')
  <2>1. Waits(n, p, j)
    BY <1>2, <1>4 DEF Stay
  <2>2. p # TodoOf(t)
    BY <1>1, <2>1, LineAt DEF Waits
  <2>3. CASE promise[w].state = "value"
    BY <1>1, <1>3, <2>1, <2>2, <2>3 DEF InWindow
  <2>4. CASE promise[w].state # "value"
    BY <1>1, <2>1, <2>4 DEF InWindow
  <2> QED
    BY <2>3, <2>4
<1> QED
  BY <1>1, <1>2, <1>4, KeepWindows

\* It stays when the first of a line leaves it.
LEMMA LeaveWindows ==
    ASSUME TypeOK, Windows, NEW a \in Places, Leave(a), Callbacks' = Callbacks,
           \A n \in Callbacks : /\ log'[n].window = log[n].window
                                /\ log'[n].mode = log[n].mode,
           UNCHANGED <<promise, mode, elem, dispatcher, call>>,
           \A u \in Threads : pc[u] = "get" => pc'[u] = "get"
    PROVE  Windows'
<1>1. ASSUME NEW n \in Callbacks, NEW w \in Calls, NEW p \in Places, NEW j \in Nat,
             Waits(n, p, j)'
      PROVE  \E q \in Places, k \in Nat :
                 Waits(n, q, k) /\ (InWindow(w, q) => InWindow(w, p)')
  <2>1. InWindow(w, p) => InWindow(w, p)'
    BY KeepInWindow
  <2>2. CASE p = a
    <3>1. Waits(n, p, j + 1) /\ j + 1 \in Nat
      BY <1>1, <2>2 DEF Leave
    <3> QED
      BY <2>1, <3>1
  <2>3. CASE p # a
    <3>1. Waits(n, p, j)
      BY <1>1, <2>3 DEF Leave
    <3> QED
      BY <2>1, <3>1
  <2> QED
    BY <2>2, <2>3
<1> QED
  BY <1>1, KeepWindows

\* It stays when a window closes.
LEMMA CloseWindows ==
    ASSUME TypeOK, DispatcherState, Windows, CloseWindow
    PROVE  Windows'
<1>1. /\ UNCHANGED <<promise, mode, log, elem, call, pc>>
      /\ dispatcher = "window" /\ dispatcher' = "set_value"
  BY DEF CloseWindow, threads
<1>2. Callbacks' = Callbacks
  BY <1>1 DEF Callbacks
<1>3. ASSUME NEW w \in Calls, mode[w] = "sync", NEW p, NEW q,
             mode[elem] = "sync" => (IF p = Copies THEN q = Sync ELSE p # Sync /\ q = p),
             mode[elem] # "sync" => q = p
      PROVE  InWindow(w, q) => InWindow(w, p)'
  <2>1. CASE promise[w].state = "pending"
    BY <1>1, <1>3, <2>1, PlacesDiffer DEF InWindow
  <2>2. CASE promise[w].state = "value"
    BY <1>1, <1>3, <2>2, PlacesDiffer DEF InWindow
  <2>3. CASE promise[w].state \in {"exception", "broken"}
    BY <1>1, <2>3 DEF InWindow
  <2> QED
    BY <2>1, <2>2, <2>3 DEF InWindow
<1>4. CASE mode[elem] = "sync"
  <2>1. Move(Sync, Copies)
    BY <1>4, CloseMoves
  <2>2. ASSUME NEW n \in Callbacks, NEW w \in Calls, NEW p \in Places, NEW j \in Nat,
               Waits(n, p, j)', mode[w] = "sync"
        PROVE  \E q \in Places, k \in Nat :
                   Waits(n, q, k) /\ (InWindow(w, q) => InWindow(w, p)')
    <3>1. CASE p = Copies
      <4>1. Waits(n, Sync, j) /\ Sync \in Places
        BY <2>1, <2>2, <3>1, PlacesDiffer DEF Move
      <4>2. InWindow(w, Sync) => InWindow(w, p)'
        BY <1>3, <1>4, <2>2, <3>1
      <4> QED
        BY <4>1, <4>2
    <3>2. CASE p # Copies
      <4>1. Waits(n, p, j) /\ p # Sync
        BY <2>1, <2>2, <3>2 DEF Move
      <4>2. InWindow(w, p) => InWindow(w, p)'
        BY <1>3, <1>4, <2>2, <3>2, <4>1
      <4> QED
        BY <4>1, <4>2
    <3> QED
      BY <3>1, <3>2
  <2> QED
    BY <1>1, <1>2, <2>2, KeepWindows
<1>5. CASE mode[elem] # "sync"
  <2>1. UNCHANGED <<callbacks_sync, copies, callbacks_async, batch, todo, promise, mode>>
    BY <1>5 DEF CloseWindow, threads
  <2>2. Stay
    BY <2>1, UnchangedStay
  <2>3. ASSUME NEW n \in Callbacks, NEW w \in Calls, NEW p \in Places, NEW j \in Nat,
               Waits(n, p, j)', mode[w] = "sync"
        PROVE  Waits(n, p, j) /\ (InWindow(w, p) => InWindow(w, p)')
    <3>1. InWindow(w, p) => InWindow(w, p)'
      BY <1>3, <1>5, <2>3
    <3> QED
      BY <2>2, <2>3, <3>1 DEF Stay
  <2> QED
    BY <1>1, <1>2, <2>3, KeepWindows
<1> QED
  BY <1>4, <1>5

\* It stays when a window has its answer.
LEMMA ValueWindows ==
    ASSUME TypeOK, DispatcherState, AnswerState, Windows, SetValue
    PROVE  Windows'
<1>1. PICK e : e = elem
  OBVIOUS
<1>2. /\ e \in Calls /\ Callbacks' = Callbacks /\ UNCHANGED <<mode, log, call, pc>>
      /\ \A i \in Calls : promise'[i] =
             IF i = e THEN [state |-> "value", callbacks |-> copies] ELSE promise[i]
      /\ dispatcher = "set_value" /\ promise[e].state = "pending"
  BY <1>1, ValueStep DEF SetValue, DispatcherState, threads
<1>3. /\ AnswerTo(e) \in Places /\ Move(Copies, AnswerTo(e))
      /\ Copies \in Places /\ Copies # AnswerTo(e)
  BY <1>1, ValueMoves, PlacesDiffer
<1>4. ASSUME NEW w \in Calls, w # e, NEW p
      PROVE  InWindow(w, p) => InWindow(w, p)'
  <2>1. promise'[w] = promise[w]
    BY <1>2, <1>4
  <2> QED
    BY <1>1, <1>2, <1>4, <2>1, KeepInWindow
<1>5. mode[e] = "sync" => InWindow(e, AnswerTo(e))'
  BY <1>2 DEF InWindow, AnswerState
<1>6. ASSUME NEW n \in Callbacks, NEW w \in Calls, NEW p \in Places, NEW j \in Nat,
             Waits(n, p, j)', mode[w] = "sync"
      PROVE  \E q \in Places, k \in Nat :
                 Waits(n, q, k) /\ (InWindow(w, q) => InWindow(w, p)')
  <2>1. CASE p = AnswerTo(e)
    <3>1. Waits(n, Copies, j)
      BY <1>3, <1>6, <2>1 DEF Move
    <3>2. CASE w = e
      BY <1>3, <1>5, <1>6, <2>1, <3>1, <3>2
    <3>3. CASE w # e
      <4>1. InWindow(w, Copies) => promise[w].state \in {"exception", "broken"}
        BY <1>1, <3>3, PlacesDiffer DEF InWindow
      <4>2. promise[w].state \in {"exception", "broken"} => InWindow(w, p)'
        BY <1>2, <3>3 DEF InWindow
      <4> QED
        BY <1>3, <3>1, <4>1, <4>2
    <3> QED
      BY <3>2, <3>3
  <2>2. CASE p # AnswerTo(e)
    <3>1. Waits(n, p, j) /\ p # Copies
      BY <1>3, <1>6, <2>2 DEF Move
    <3>2. CASE w = e
      <4>1. ~ InWindow(w, p)
        BY <1>2, <3>1, <3>2 DEF InWindow
      <4> QED
        BY <3>1, <4>1
    <3>3. CASE w # e
      BY <1>4, <3>1, <3>3
    <3> QED
      BY <3>2, <3>3
  <2> QED
    BY <2>1, <2>2
<1> QED
  BY <1>2, <1>6, KeepWindows

\* It stays when the callback thread takes its queue.
LEMMA BatchWindows ==
    ASSUME TypeOK, BatchState, InOnePlace, Windows, TakeBatch
    PROVE  Windows'
<1>1. /\ UNCHANGED <<promise, mode, log, elem, dispatcher, call>>
      /\ pc[AsyncThread] = "sleep"
      /\ pc' = [pc EXCEPT ![AsyncThread] = "batch"]
  BY DEF TakeBatch, dispatching
<1>2. Callbacks' = Callbacks
  BY <1>1 DEF Callbacks
<1>3. \A u \in Threads : pc[u] = "get" => pc'[u] = "get"
  BY <1>1, ThreadTables
<1>4. ASSUME NEW n \in Callbacks, NEW w \in Calls, NEW p \in Places, NEW j \in Nat,
             Waits(n, p, j)', log[n].mode = "sync"
      PROVE  Waits(n, p, j) /\ (InWindow(w, p) => InWindow(w, p)')
  <2>1. Move(Async, Batch)
    BY BatchMoves
  <2>2. CASE p = Batch
    <3>1. Waits(n, Async, j)
      BY <1>4, <2>1, <2>2 DEF Move
    <3>2. log[n].mode = "async"
      BY <3>1, PlacesDiffer DEF InOnePlace
    <3> QED
      BY <1>4, <3>2
  <2>3. CASE p # Batch
    <3>1. Waits(n, p, j)
      BY <1>4, <2>1, <2>3 DEF Move
    <3>2. InWindow(w, p) => InWindow(w, p)'
      BY <1>1, <1>3, KeepInWindow
    <3> QED
      BY <3>1, <3>2
  <2> QED
    BY <2>2, <2>3
<1> QED
  BY <1>1, <1>2, <1>4, KeepWindows

\* It stays when a callback is produced.
LEMMA FireWindows ==
    ASSUME TypeOK, DispatcherState, Windows, NEW m \in Modes, Fire(m)
    PROVE  Windows'
<1>1. PICK e : e = elem
  OBVIOUS
<1>2. PICK k : k = Len(log) + 1
  OBVIOUS
<1>3. /\ log' = Append(log, [window |-> elem, mode |-> m, by |-> Nobody])
      /\ UNCHANGED <<mode, promise, elem, dispatcher, call, pc>> /\ elem \in Calls
      /\ dispatcher = "window" /\ promise[e].state = "pending"
  BY <1>1 DEF Fire, DispatcherState, threads
<1>4. /\ Callbacks' = Callbacks \cup {k} /\ k \notin Callbacks
      /\ \A n \in Callbacks : log'[n] = log[n]
      /\ log'[k] = [window |-> elem, mode |-> m, by |-> Nobody]
  BY <1>2, <1>3, FireStep
<1>5. PICK a \in Places : a = Entrance(m)
  BY FireMoves
<1>6. \A n, j : \A p \in Places :
          Waits(n, p, j)' => Waits(n, p, j) \/ (p = a /\ n = k)
  BY <1>2, <1>5, FireMoves
<1>7. \A p \in Places : \A j : ~ Waits(k, p, j)
  BY <1>2, <1>4, WaitersInLog DEF Null
<1>8. \A w, p : InWindow(w, p)' <=> InWindow(w, p)
  BY <1>3 DEF InWindow
<1> SUFFICES ASSUME NEW n \in Callbacks', NEW p \in Places, NEW j \in Nat,
                    Waits(n, p, j)', log'[n].mode = "sync",
                    NEW w, w = log'[n].window, mode'[w] = "sync"
             PROVE  InWindow(w, p)'
  BY DEF Windows
<1>9. InWindow(w, p)
  <2>1. CASE n = k
    <3>1. w = e /\ m = "sync" /\ p = a
      BY <1>1, <1>4, <1>6, <1>7, <2>1
    <3>2. p = Sync
      BY <1>5, <3>1 DEF Entrance
    <3> QED
      BY <1>1, <1>3, <3>1, <3>2 DEF InWindow
  <2>2. CASE n # k
    <3>1. n \in Callbacks /\ log'[n] = log[n] /\ Waits(n, p, j)
      BY <1>4, <1>6, <2>2
    <3> QED
      BY <1>3, <3>1 DEF Windows
  <2> QED
    BY <2>1, <2>2
<1> QED
  BY <1>8, <1>9

\* Every step preserves Windows.
LEMMA WindowsStep ==
    ASSUME TypeOK, DispatcherState, BatchState, Callers, AnswerState,
           InOnePlace, Windows, [Next]_vars
    PROVE  Windows'
<1>1. CASE UNCHANGED vars
  <2>1. UNCHANGED <<callbacks_sync, copies, callbacks_async, batch, todo,
                    promise, mode, log, call, pc, elem, dispatcher>>
    BY <1>1 DEF vars, queues, dispatching, threads
  <2> QED
    BY <2>1, UnchangedStay, StayWindows
<1>2. ASSUME NEW t \in Threads, SyncCall(t)
      PROVE  Windows'
  <2>1. /\ PushExternalOrder("sync") /\ "sync" \in Modes
        /\ UNCHANGED <<callbacks_sync, copies, callbacks_async, batch, todo, log,
                       elem, dispatcher>>
    BY <1>2 DEF SyncCall, Modes, dispatching, threads
  <2>2. Stay
    BY <2>1, PushStays
  <2>3. \A i \in Calls : mode'[i] = mode[i] /\ promise'[i] = promise[i]
    BY <2>1, PushStep
  <2>4. \A u \in Threads : call[u] \in Calls =>
            call'[u] = call[u] /\ (pc[u] = "get" => pc'[u] = "get")
    <3>1. call[t] = Null
      BY <1>2 DEF SyncCall, Callers
    <3> QED
      BY <1>2, <3>1, ThreadTables DEF SyncCall, Calls, Null
  <2> QED
    BY <2>1, <2>2, <2>3, <2>4, StayWindows
<1>3. ASSUME NEW t \in Threads, Get(t)
      PROVE  Windows'
  BY <1>3, GetWindows
<1>4. ASSUME NEW t \in Threads, RunSyncCallback(t)
      PROVE  Windows'
  <2>1. /\ log' = [log EXCEPT ![Head(todo[t])].by = t]
        /\ UNCHANGED <<promise, mode, elem, dispatcher, call, pc>>
    BY <1>4 DEF RunSyncCallback, dispatching
  <2>2. PICK k : k = Head(todo[t])
    OBVIOUS
  <2>3. TodoOf(t) \in Places /\ k \in Callbacks /\ Leave(TodoOf(t))
    BY <1>4, <2>2, RunMoves
  <2>4. /\ Callbacks' = Callbacks
        /\ \A n \in Callbacks : /\ log'[n].window = log[n].window
                                /\ log'[n].mode = log[n].mode
    BY <2>1, <2>2, <2>3, RunStep
  <2> QED
    BY <2>1, <2>3, <2>4, LeaveWindows
<1>5. ASSUME NEW t \in Threads, Return(t)
      PROVE  Windows'
  BY <1>5, ReturnWindows
<1>6. ASSUME NEW c \in Clients, AsyncCall(c)
      PROVE  Windows'
  <2>1. /\ PushExternalOrder("async") /\ "async" \in Modes
        /\ UNCHANGED <<callbacks_sync, copies, callbacks_async, batch, todo, log,
                       elem, dispatcher>>
    BY <1>6 DEF AsyncCall, Modes, dispatching, threads
  <2>2. Stay
    BY <2>1, PushStays
  <2>3. \A i \in Calls : mode'[i] = mode[i] /\ promise'[i] = promise[i]
    BY <2>1, PushStep
  <2>4. \A u \in Threads : call[u] \in Calls =>
            call'[u] = call[u] /\ (pc[u] = "get" => pc'[u] = "get")
    BY <1>6 DEF AsyncCall, threads
  <2> QED
    BY <2>1, <2>2, <2>3, <2>4, StayWindows
<1>7. ASSUME NEW c \in Clients, BeginWait(c)
      PROVE  Windows'
  <2>1. UNCHANGED <<callbacks_sync, copies, callbacks_async, batch, todo,
                    promise, mode, log>>
    BY <1>7 DEF BeginWait, queues, dispatching, threads
  <2>2. Stay
    BY <2>1, UnchangedStay
  <2>3. \A u \in Threads : call'[u] = call[u] /\ (pc[u] = "get" => pc'[u] = "get")
    BY <1>7, ThreadTables DEF BeginWait, threads, Blocked, Threads
  <2>4. dispatcher \in {"window", "set_value", "set_exception"} =>
            /\ elem' = elem
            /\ dispatcher' \in {dispatcher, "set_exception"}
            /\ dispatcher' = dispatcher \/ dispatcher = "window"
    BY <1>7 DEF BeginWait, dispatching
  <2> QED
    BY <2>1, <2>2, <2>3, <2>4, StayWindows
<1>8. ASSUME NEW c \in Clients, SpuriousWakeup(c)
      PROVE  Windows'
  <2>1. UNCHANGED <<callbacks_sync, copies, callbacks_async, batch, todo,
                    promise, mode, log>>
    BY <1>8 DEF SpuriousWakeup, queues, dispatching, threads
  <2>2. Stay
    BY <2>1, UnchangedStay
  <2>3. \A u \in Threads : call'[u] = call[u] /\ (pc[u] = "get" => pc'[u] = "get")
    BY <1>8, ThreadTables DEF SpuriousWakeup, threads, Blocked, Threads
  <2>4. dispatcher \in {"window", "set_value", "set_exception"} =>
            /\ elem' = elem
            /\ dispatcher' \in {dispatcher, "set_exception"}
            /\ dispatcher' = dispatcher \/ dispatcher = "window"
    BY <1>8 DEF SpuriousWakeup, dispatching
  <2> QED
    BY <2>1, <2>2, <2>3, <2>4, StayWindows
<1>9. ASSUME NEW c \in Clients, CheckPredicate(c)
      PROVE  Windows'
  <2>1. UNCHANGED <<callbacks_sync, copies, callbacks_async, batch, todo,
                    promise, mode, log>>
    BY <1>9 DEF CheckPredicate, queues, dispatching, threads
  <2>2. Stay
    BY <2>1, UnchangedStay
  <2>3. \A u \in Threads : call'[u] = call[u] /\ (pc[u] = "get" => pc'[u] = "get")
    BY <1>9, ThreadTables DEF CheckPredicate, threads, Blocked, Threads
  <2>4. dispatcher \in {"window", "set_value", "set_exception"} =>
            /\ elem' = elem
            /\ dispatcher' \in {dispatcher, "set_exception"}
            /\ dispatcher' = dispatcher \/ dispatcher = "window"
    BY <1>9 DEF CheckPredicate, dispatching
  <2> QED
    BY <2>1, <2>2, <2>3, <2>4, StayWindows
<1>10. CASE Pop
  <2>1. UNCHANGED <<callbacks_sync, copies, callbacks_async, batch, todo,
                    promise, mode, log>>
    BY <1>10 DEF Pop, queues, dispatching, threads
  <2>2. Stay
    BY <2>1, UnchangedStay
  <2>3. \A u \in Threads : call'[u] = call[u] /\ (pc[u] = "get" => pc'[u] = "get")
    BY <1>10, ThreadTables DEF Pop, threads, Blocked, Threads
  <2>4. dispatcher \in {"window", "set_value", "set_exception"} =>
            /\ elem' = elem
            /\ dispatcher' \in {dispatcher, "set_exception"}
            /\ dispatcher' = dispatcher \/ dispatcher = "window"
    BY <1>10 DEF Pop, dispatching
  <2> QED
    BY <2>1, <2>2, <2>3, <2>4, StayWindows
<1>11. CASE OpenWindow
  <2>1. UNCHANGED <<callbacks_sync, copies, callbacks_async, batch, todo,
                    promise, mode, log>>
    BY <1>11 DEF OpenWindow, queues, dispatching, threads
  <2>2. Stay
    BY <2>1, UnchangedStay
  <2>3. \A u \in Threads : call'[u] = call[u] /\ (pc[u] = "get" => pc'[u] = "get")
    BY <1>11, ThreadTables DEF OpenWindow, threads, Blocked, Threads
  <2>4. dispatcher \in {"window", "set_value", "set_exception"} =>
            /\ elem' = elem
            /\ dispatcher' \in {dispatcher, "set_exception"}
            /\ dispatcher' = dispatcher \/ dispatcher = "window"
    BY <1>11 DEF OpenWindow, dispatching
  <2> QED
    BY <2>1, <2>2, <2>3, <2>4, StayWindows
<1>12. CASE LeaveLoop
  <2>1. /\ UNCHANGED <<mode, log, call, pc>> /\ dispatcher = "popped"
    BY <1>12 DEF LeaveLoop, threads
  <2>2. \A i \in Calls : promise'[i].state = IF i = elem THEN "broken" ELSE promise[i].state
    BY <1>12, LeaveStep
  <2> QED
    BY <1>12, <2>1, <2>2, LeaveLoopStays, StayWindows
<1>13. CASE JoinAsyncThread
  <2>1. UNCHANGED <<callbacks_sync, copies, callbacks_async, batch, todo,
                    promise, mode, log>>
    BY <1>13 DEF JoinAsyncThread, queues, dispatching, threads
  <2>2. Stay
    BY <2>1, UnchangedStay
  <2>3. \A u \in Threads : call'[u] = call[u] /\ (pc[u] = "get" => pc'[u] = "get")
    BY <1>13, ThreadTables DEF JoinAsyncThread, threads, Blocked, Threads
  <2>4. dispatcher \in {"window", "set_value", "set_exception"} =>
            /\ elem' = elem
            /\ dispatcher' \in {dispatcher, "set_exception"}
            /\ dispatcher' = dispatcher \/ dispatcher = "window"
    BY <1>13 DEF JoinAsyncThread, dispatching
  <2> QED
    BY <2>1, <2>2, <2>3, <2>4, StayWindows
<1>14. ASSUME NEW m \in Modes, Fire(m)
      PROVE  Windows'
  BY <1>14, FireWindows
<1>15. CASE CloseWindow
  BY <1>15, CloseWindows
<1>16. CASE ThrowInWindow
  <2>1. UNCHANGED <<callbacks_sync, copies, callbacks_async, batch, todo,
                    promise, mode, log>>
    BY <1>16 DEF ThrowInWindow, queues, dispatching, threads
  <2>2. Stay
    BY <2>1, UnchangedStay
  <2>3. \A u \in Threads : call'[u] = call[u] /\ (pc[u] = "get" => pc'[u] = "get")
    BY <1>16, ThreadTables DEF ThrowInWindow, threads, Blocked, Threads
  <2>4. dispatcher \in {"window", "set_value", "set_exception"} =>
            /\ elem' = elem
            /\ dispatcher' \in {dispatcher, "set_exception"}
            /\ dispatcher' = dispatcher \/ dispatcher = "window"
    BY <1>16 DEF ThrowInWindow, dispatching
  <2> QED
    BY <2>1, <2>2, <2>3, <2>4, StayWindows
<1>17. CASE SetValue
  BY <1>17, ValueWindows
<1>18. CASE SetException
  <2>1. UNCHANGED <<callbacks_sync, copies, callbacks_async, batch, todo, mode, log, call, pc>>
    BY <1>18 DEF SetException, queues, threads
  <2>2. /\ elem \in Calls /\ Calls' = Calls
        /\ \A i \in Calls : /\ promise'[i].callbacks = promise[i].callbacks
                            /\ promise'[i].state =
                                  IF i = elem THEN "exception" ELSE promise[i].state
    BY <1>18, ExceptionStep
  <2>3. Stay
    BY <2>1, <2>2, StayStep
  <2> QED
    BY <2>1, <2>2, <2>3, StayWindows
<1>19. CASE TakeBatch
  BY <1>19, BatchWindows
<1>20. CASE BeginCallback
  <2>1. UNCHANGED <<callbacks_sync, copies, callbacks_async, batch, todo,
                    promise, mode, log>>
    BY <1>20 DEF BeginCallback, queues, dispatching, threads
  <2>2. Stay
    BY <2>1, UnchangedStay
  <2>3. \A u \in Threads : call'[u] = call[u] /\ (pc[u] = "get" => pc'[u] = "get")
    BY <1>20, ThreadTables DEF BeginCallback, threads, Blocked, Threads
  <2>4. dispatcher \in {"window", "set_value", "set_exception"} =>
            /\ elem' = elem
            /\ dispatcher' \in {dispatcher, "set_exception"}
            /\ dispatcher' = dispatcher \/ dispatcher = "window"
    BY <1>20 DEF BeginCallback, dispatching
  <2> QED
    BY <2>1, <2>2, <2>3, <2>4, StayWindows
<1>21. CASE EndCallback
  <2>1. /\ log' = [log EXCEPT ![Head(batch)].by = AsyncThread]
        /\ UNCHANGED <<promise, mode, elem, dispatcher, call>>
    BY <1>21 DEF EndCallback, dispatching
  <2>2. PICK k : k = Head(batch)
    OBVIOUS
  <2>3. /\ Batch \in Places /\ k \in Callbacks /\ Leave(Batch)
        /\ AsyncThread \in Threads
    BY <1>21, <2>2, CallbackMoves, PlacesDiffer DEF Threads
  <2>4. /\ Callbacks' = Callbacks
        /\ \A n \in Callbacks : /\ log'[n].window = log[n].window
                                /\ log'[n].mode = log[n].mode
    BY <2>1, <2>2, <2>3, RunStep
  <2>5. \A u \in Threads : pc[u] = "get" => pc'[u] = "get"
    BY <1>21, ThreadTables DEF EndCallback
  <2> QED
    BY <2>1, <2>3, <2>4, <2>5, LeaveWindows
<1>22. CASE BatchDone
  <2>1. UNCHANGED <<callbacks_sync, copies, callbacks_async, batch, todo,
                    promise, mode, log>>
    BY <1>22 DEF BatchDone, queues, dispatching, threads
  <2>2. Stay
    BY <2>1, UnchangedStay
  <2>3. \A u \in Threads : call'[u] = call[u] /\ (pc[u] = "get" => pc'[u] = "get")
    BY <1>22, ThreadTables DEF BatchDone, threads, Blocked, Threads
  <2>4. dispatcher \in {"window", "set_value", "set_exception"} =>
            /\ elem' = elem
            /\ dispatcher' \in {dispatcher, "set_exception"}
            /\ dispatcher' = dispatcher \/ dispatcher = "window"
    BY <1>22 DEF BatchDone, dispatching
  <2> QED
    BY <2>1, <2>2, <2>3, <2>4, StayWindows
<1>23. CASE TakeNull
  <2>1. /\ UNCHANGED <<mode, log, call, promise, elem, dispatcher>>
        /\ \A u \in Threads : pc[u] = "get" => pc'[u] = "get"
    BY <1>23, ThreadTables DEF TakeNull, dispatching
  <2> QED
    BY <1>23, <2>1, TakeNullStays, StayWindows
<1>24. CASE NotifyOne
  <2>1. UNCHANGED <<callbacks_sync, copies, callbacks_async, batch, todo,
                    promise, mode, log>>
    BY <1>24 DEF NotifyOne, queues, dispatching, threads
  <2>2. Stay
    BY <2>1, UnchangedStay
  <2>3. \A u \in Threads : call'[u] = call[u] /\ (pc[u] = "get" => pc'[u] = "get")
    BY <1>24, ThreadTables DEF NotifyOne, threads, Blocked, Threads
  <2>4. dispatcher \in {"window", "set_value", "set_exception"} =>
            /\ elem' = elem
            /\ dispatcher' \in {dispatcher, "set_exception"}
            /\ dispatcher' = dispatcher \/ dispatcher = "window"
    BY <1>24 DEF NotifyOne, dispatching
  <2> QED
    BY <2>1, <2>2, <2>3, <2>4, StayWindows
<1>25. CASE BeginDestroy
  <2>1. UNCHANGED <<callbacks_sync, copies, callbacks_async, batch, todo,
                    promise, mode, log>>
    BY <1>25 DEF BeginDestroy, queues, dispatching, threads
  <2>2. Stay
    BY <2>1, UnchangedStay
  <2>3. \A u \in Threads : call'[u] = call[u] /\ (pc[u] = "get" => pc'[u] = "get")
    BY <1>25, ThreadTables DEF BeginDestroy, threads, Blocked, Threads
  <2>4. dispatcher \in {"window", "set_value", "set_exception"} =>
            /\ elem' = elem
            /\ dispatcher' \in {dispatcher, "set_exception"}
            /\ dispatcher' = dispatcher \/ dispatcher = "window"
    BY <1>25 DEF BeginDestroy, dispatching
  <2> QED
    BY <2>1, <2>2, <2>3, <2>4, StayWindows
<1>26. CASE EmplaceNull
  <2>1. UNCHANGED <<callbacks_sync, copies, callbacks_async, batch, todo,
                    promise, mode, log>>
    BY <1>26 DEF EmplaceNull, queues, dispatching, threads
  <2>2. Stay
    BY <2>1, UnchangedStay
  <2>3. \A u \in Threads : call'[u] = call[u] /\ (pc[u] = "get" => pc'[u] = "get")
    BY <1>26, ThreadTables DEF EmplaceNull, threads, Blocked, Threads
  <2>4. dispatcher \in {"window", "set_value", "set_exception"} =>
            /\ elem' = elem
            /\ dispatcher' \in {dispatcher, "set_exception"}
            /\ dispatcher' = dispatcher \/ dispatcher = "window"
    BY <1>26 DEF EmplaceNull, dispatching
  <2> QED
    BY <2>1, <2>2, <2>3, <2>4, StayWindows
<1>27. CASE EndDestroy
  <2>1. UNCHANGED <<callbacks_sync, copies, callbacks_async, batch, todo,
                    mode, log, call, pc, elem, dispatcher>>
    BY <1>27 DEF EndDestroy, dispatching, threads
  <2>2. /\ Calls' = Calls
        /\ \A i \in Calls : /\ promise'[i].callbacks = promise[i].callbacks
                            /\ promise'[i].state = IF promise[i].state = "pending"
                                                   THEN "broken" ELSE promise[i].state
    BY <1>27, DestroyStep
  <2>3. Stay
    BY <2>1, <2>2, StayStep
  <2> QED
    BY <2>1, <2>2, <2>3, StayWindows
<1> QED
  BY <1>1, <1>2, <1>3, <1>4, <1>5, <1>6, <1>7, <1>8, <1>9, <1>10, <1>11,
     <1>12, <1>13, <1>14, <1>15, <1>16, <1>17, <1>18, <1>19, <1>20, <1>21,
     <1>22, <1>23, <1>24, <1>25, <1>26, <1>27
     DEF Next, Client, DispatcherThread, CallbackThread, Destructor, Threads
=============================================================================
