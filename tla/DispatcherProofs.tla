------------------------- MODULE DispatcherProofs ---------------------------
(***************************************************************************)
(* The theorems about Dispatcher.  All follow from the invariant IInv of   *)
(* DispatcherInvariant.                                                    *)
(***************************************************************************)
EXTENDS DispatcherInvariant, Induction

\* Every step preserves DoneState.
LEMMA DoneStep ==
    ASSUME TypeOK, BatchState, DoneState, [Next]_vars
    PROVE  DoneState'
<1>1. CASE UNCHANGED vars
  BY <1>1 DEF vars, DoneState, queues, dispatching, threads
<1>2. ASSUME NEW t \in Threads, SyncCall(t)
      PROVE  DoneState'
  BY <1>2 DEF SyncCall, DoneState, queues, dispatching, threads
<1>3. ASSUME NEW t \in Threads, Get(t)
      PROVE  DoneState'
  BY <1>3 DEF Get, DoneState, queues, dispatching, threads
<1>4. ASSUME NEW t \in Threads, RunSyncCallback(t)
      PROVE  DoneState'
  <2>1. log' = [log EXCEPT ![Head(todo[t])].by = t] /\ UNCHANGED mode
    BY <1>4 DEF RunSyncCallback
  <2>2. Len(log') = Len(log)
    BY <2>1 DEF TypeOK
  <2> QED
    BY <1>4, <2>2 DEF RunSyncCallback, DoneState
<1>5. ASSUME NEW t \in Threads, Return(t)
      PROVE  DoneState'
  BY <1>5 DEF Return, DoneState, queues, dispatching, threads
<1>6. ASSUME NEW c \in Clients, AsyncCall(c)
      PROVE  DoneState'
  BY <1>6 DEF AsyncCall, DoneState, queues, dispatching, threads
<1>7. ASSUME NEW c \in Clients, BeginWait(c)
      PROVE  DoneState'
  <2>1. Len(log) \in Nat /\ wait_from \in [Clients -> Nat]
    BY DEF TypeOK
  <2> QED
    BY <1>7, <2>1 DEF BeginWait, DoneState
<1>8. ASSUME NEW c \in Clients, SpuriousWakeup(c)
      PROVE  DoneState'
  BY <1>8 DEF SpuriousWakeup, DoneState, queues, dispatching, threads
<1>9. ASSUME NEW c \in Clients, CheckPredicate(c)
      PROVE  DoneState'
  BY <1>9 DEF CheckPredicate, DoneState, queues, dispatching, threads
<1>10. CASE Pop
  BY <1>10 DEF Pop, DoneState, queues, dispatching, threads
<1>11. CASE OpenWindow
  BY <1>11 DEF OpenWindow, DoneState, queues, dispatching, threads
<1>12. CASE LeaveLoop
  BY <1>12 DEF LeaveLoop, DoneState, queues, dispatching, threads
<1>13. CASE JoinAsyncThread
  BY <1>13 DEF JoinAsyncThread, DoneState, queues, dispatching, threads
<1>14. ASSUME NEW m \in Modes, Fire(m)
      PROVE  DoneState'
  <2>1. /\ log' = Append(log, [window |-> elem, mode |-> m, by |-> Nobody])
        /\ UNCHANGED <<batch, async_callbacks_done, wait_from>>
    BY <1>14 DEF Fire, threads
  <2>2. Len(log') = Len(log) + 1 /\ Len(log) \in Nat
    BY <2>1 DEF TypeOK
  <2>3. wait_from \in [Clients -> Nat]
    BY DEF TypeOK
  <2> QED
    BY <2>1, <2>2, <2>3 DEF DoneState
<1>15. CASE CloseWindow
  BY <1>15 DEF CloseWindow, DoneState, queues, dispatching, threads
<1>16. CASE ThrowInWindow
  BY <1>16 DEF ThrowInWindow, DoneState, queues, dispatching, threads
<1>17. CASE SetValue
  BY <1>17 DEF SetValue, DoneState, queues, dispatching, threads
<1>18. CASE SetException
  BY <1>18 DEF SetException, DoneState, queues, dispatching, threads
<1>19. CASE TakeBatch
  BY <1>19 DEF TakeBatch, DoneState, queues, dispatching, threads
<1>20. CASE BeginCallback
  BY <1>20 DEF BeginCallback, DoneState, queues, dispatching, threads
<1>21. CASE EndCallback
  <2>1. log' = [log EXCEPT ![Head(batch)].by = AsyncThread] /\ batch # <<>>
    BY <1>21 DEF EndCallback, BatchState
  <2>2. Len(log') = Len(log)
    BY <2>1 DEF TypeOK
  <2> QED
    BY <1>21, <2>1, <2>2 DEF EndCallback, DoneState
<1>22. CASE BatchDone
  BY <1>22 DEF BatchDone, DoneState, queues, dispatching, threads
<1>23. CASE TakeNull
  BY <1>23 DEF TakeNull, DoneState, queues, dispatching, threads
<1>24. CASE NotifyOne
  BY <1>24 DEF NotifyOne, DoneState, queues, dispatching, threads
<1>25. CASE BeginDestroy
  BY <1>25 DEF BeginDestroy, DoneState, queues, dispatching, threads
<1>26. CASE EmplaceNull
  BY <1>26 DEF EmplaceNull, DoneState, queues, dispatching, threads
<1>27. CASE EndDestroy
  BY <1>27 DEF EndDestroy, DoneState, queues, dispatching, threads
<1> QED
  BY <1>1, <1>2, <1>3, <1>4, <1>5, <1>6, <1>7, <1>8, <1>9, <1>10, <1>11,
     <1>12, <1>13, <1>14, <1>15, <1>16, <1>17, <1>18, <1>19, <1>20, <1>21,
     <1>22, <1>23, <1>24, <1>25, <1>26, <1>27
     DEF Next, Client, DispatcherThread, CallbackThread, Destructor, Threads

\* Only the predicate ends a wait.
LEMMA WaitEnds ==
    ASSUME TypeOK, NEW d \in Clients, pc[d] = "woken", pc'[d] = "idle",
           [Next]_vars
    PROVE  CallbacksDone
<1>1. CASE UNCHANGED vars
  BY <1>1 DEF vars, threads
<1>2. ASSUME NEW t \in Threads, SyncCall(t)
      PROVE  CallbacksDone
  BY <1>2, ThreadTables, ThreadsAssumption
     DEF SyncCall, threads, dispatching, Threads, Resume, Blocked
<1>3. ASSUME NEW t \in Threads, Get(t)
      PROVE  CallbacksDone
  BY <1>3, ThreadTables, ThreadsAssumption
     DEF Get, threads, dispatching, Threads, Resume, Blocked
<1>4. ASSUME NEW t \in Threads, RunSyncCallback(t)
      PROVE  CallbacksDone
  BY <1>4, ThreadTables, ThreadsAssumption
     DEF RunSyncCallback, threads, dispatching, Threads, Resume, Blocked
<1>5. ASSUME NEW t \in Threads, Return(t)
      PROVE  CallbacksDone
  BY <1>5, ThreadTables, ThreadsAssumption
     DEF Return, threads, dispatching, Threads, Resume, Blocked
<1>6. ASSUME NEW c \in Clients, AsyncCall(c)
      PROVE  CallbacksDone
  BY <1>6, ThreadTables, ThreadsAssumption
     DEF AsyncCall, threads, dispatching, Threads, Resume, Blocked
<1>7. ASSUME NEW c \in Clients, BeginWait(c)
      PROVE  CallbacksDone
  BY <1>7, ThreadTables, ThreadsAssumption
     DEF BeginWait, threads, dispatching, Threads, Resume, Blocked
<1>8. ASSUME NEW c \in Clients, SpuriousWakeup(c)
      PROVE  CallbacksDone
  BY <1>8, ThreadTables, ThreadsAssumption
     DEF SpuriousWakeup, threads, dispatching, Threads, Resume, Blocked
<1>9. ASSUME NEW c \in Clients, CheckPredicate(c)
      PROVE  CallbacksDone
  BY <1>9, ThreadTables DEF CheckPredicate, Threads
<1>10. CASE Pop
  BY <1>10, ThreadTables, ThreadsAssumption
     DEF Pop, threads, dispatching, Threads, Resume, Blocked
<1>11. CASE OpenWindow
  BY <1>11, ThreadTables, ThreadsAssumption
     DEF OpenWindow, threads, dispatching, Threads, Resume, Blocked
<1>12. CASE LeaveLoop
  BY <1>12, ThreadTables, ThreadsAssumption
     DEF LeaveLoop, threads, dispatching, Threads, Resume, Blocked
<1>13. CASE JoinAsyncThread
  BY <1>13, ThreadTables, ThreadsAssumption
     DEF JoinAsyncThread, threads, dispatching, Threads, Resume, Blocked
<1>14. ASSUME NEW m \in Modes, Fire(m)
      PROVE  CallbacksDone
  BY <1>14, ThreadTables, ThreadsAssumption
     DEF Fire, threads, dispatching, Threads, Resume, Blocked
<1>15. CASE CloseWindow
  BY <1>15, ThreadTables, ThreadsAssumption
     DEF CloseWindow, threads, dispatching, Threads, Resume, Blocked
<1>16. CASE ThrowInWindow
  BY <1>16, ThreadTables, ThreadsAssumption
     DEF ThrowInWindow, threads, dispatching, Threads, Resume, Blocked
<1>17. CASE SetValue
  BY <1>17, ThreadTables, ThreadsAssumption
     DEF SetValue, threads, dispatching, Threads, Resume, Blocked
<1>18. CASE SetException
  BY <1>18, ThreadTables, ThreadsAssumption
     DEF SetException, threads, dispatching, Threads, Resume, Blocked
<1>19. CASE TakeBatch
  BY <1>19, ThreadTables, ThreadsAssumption
     DEF TakeBatch, threads, dispatching, Threads, Resume, Blocked
<1>20. CASE BeginCallback
  BY <1>20, ThreadTables, ThreadsAssumption
     DEF BeginCallback, threads, dispatching, Threads, Resume, Blocked
<1>21. CASE EndCallback
  BY <1>21, ThreadTables, ThreadsAssumption
     DEF EndCallback, threads, dispatching, Threads, Resume, Blocked
<1>22. CASE BatchDone
  BY <1>22, ThreadTables, ThreadsAssumption
     DEF BatchDone, threads, dispatching, Threads, Resume, Blocked
<1>23. CASE TakeNull
  BY <1>23, ThreadTables, ThreadsAssumption
     DEF TakeNull, threads, dispatching, Threads, Resume, Blocked
<1>24. CASE NotifyOne
  BY <1>24, ThreadTables, ThreadsAssumption
     DEF NotifyOne, threads, dispatching, Threads, Resume, Blocked
<1>25. CASE BeginDestroy
  BY <1>25, ThreadTables, ThreadsAssumption
     DEF BeginDestroy, threads, dispatching, Threads, Resume, Blocked
<1>26. CASE EmplaceNull
  BY <1>26, ThreadTables, ThreadsAssumption
     DEF EmplaceNull, threads, dispatching, Threads, Resume, Blocked
<1>27. CASE EndDestroy
  BY <1>27, ThreadTables, ThreadsAssumption
     DEF EndDestroy, threads, dispatching, Threads, Resume, Blocked
<1> QED
  BY <1>1, <1>2, <1>3, <1>4, <1>5, <1>6, <1>7, <1>8, <1>9, <1>10, <1>11,
     <1>12, <1>13, <1>14, <1>15, <1>16, <1>17, <1>18, <1>19, <1>20, <1>21,
     <1>22, <1>23, <1>24, <1>25, <1>26, <1>27
     DEF Next, Client, DispatcherThread, CallbackThread, Destructor, Threads

\* Windows are calls.
LEMMA LogWindows ==
    ASSUME TypeOK, NEW n \in Callbacks
    PROVE  log[n].window \in Calls
<1>1. log[n] \in Entry
  BY ElementOfSeq DEF TypeOK, Entry, Callbacks
<1> QED
  BY <1>1 DEF Entry

\* A new call comes after all others.
LEMMA PushOrder ==
    ASSUME TypeOK, QueueOrder, NEW m \in Modes, PushExternalOrder(m),
           UNCHANGED <<log, elem>>
    PROVE  QueueOrder'
<1>1. PICK i : i = Len(mode) + 1
  OBVIOUS
<1>2. /\ external_order_queue \in Seq(Calls \cup {Null})
      /\ Len(external_order_queue) \in Nat
      /\ external_order_queue' = Append(external_order_queue, i)
      /\ elem \in Calls \cup {Null}
  BY <1>1 DEF PushExternalOrder, TypeOK
<1>3. i \in Nat /\ \A c \in Calls : c < i
  <2>1. Len(mode) \in Nat
    BY DEF TypeOK
  <2> QED
    BY <1>1, <2>1 DEF Calls
<1>4. PICK last : last = Len(external_order_queue)
  OBVIOUS
<1>5. /\ Len(external_order_queue') = last + 1 /\ last \in Nat
      /\ external_order_queue'[last + 1] = i
      /\ \A j \in 1 .. last : /\ external_order_queue'[j] = external_order_queue[j]
                              /\ external_order_queue[j] \in Calls \cup {Null}
  BY <1>2, <1>3, <1>4, AppendProperties, ElementOfSeq
<1>6. Callbacks' = Callbacks /\ \A n \in Callbacks : log[n].window < i
  BY <1>3, LogWindows DEF Callbacks
<1>7. ASSUME NEW j \in 1 .. (last + 1), NEW k \in 1 .. (last + 1), j < k,
             external_order_queue'[j] # Null, external_order_queue'[k] # Null
      PROVE  external_order_queue'[j] < external_order_queue'[k]
  <2>1. CASE k \in 1 .. last
    <3>1. j \in 1 .. last
      BY <1>5, <1>7, <2>1
    <3> QED
      BY <1>4, <1>5, <1>7, <2>1, <3>1 DEF QueueOrder
  <2>2. CASE k = last + 1
    <3>1. j \in 1 .. last
      BY <1>5, <1>7, <2>2
    <3>2. external_order_queue'[j] \in Calls
      BY <1>5, <1>7, <3>1
    <3> QED
      BY <1>3, <1>5, <2>2, <3>2
  <2> QED
    BY <1>5, <2>1, <2>2
<1>8. ASSUME NEW j \in 1 .. (last + 1), external_order_queue'[j] # Null
      PROVE  /\ elem # Null => elem < external_order_queue'[j]
             /\ \A n \in Callbacks : log[n].window < external_order_queue'[j]
  <2>1. CASE j \in 1 .. last
    BY <1>4, <1>5, <1>8, <2>1 DEF QueueOrder
  <2>2. CASE j = last + 1
    BY <1>2, <1>3, <1>5, <1>6, <2>2
  <2> QED
    BY <1>5, <2>1, <2>2
<1>9. elem # Null => \A n \in Callbacks : log[n].window <= elem
  BY DEF QueueOrder
<1> QED
  BY <1>5, <1>6, <1>7, <1>8, <1>9 DEF QueueOrder

\* Every step preserves QueueOrder.
LEMMA QueueOrderStep ==
    ASSUME TypeOK, DispatcherState, BatchState, QueueOrder, [Next]_vars
    PROVE  QueueOrder'
<1>1. CASE UNCHANGED vars
  BY <1>1 DEF vars, QueueOrder, Callbacks, queues, dispatching
<1>2. ASSUME NEW t \in Threads, SyncCall(t)
      PROVE  QueueOrder'
  <2>1. /\ PushExternalOrder("sync") /\ "sync" \in Modes /\ UNCHANGED <<log, elem>>
    BY <1>2 DEF SyncCall, Modes, dispatching
  <2> QED
    BY <2>1, PushOrder
<1>3. ASSUME NEW t \in Threads, Get(t)
      PROVE  QueueOrder'
  BY <1>3 DEF Get, QueueOrder, Callbacks, queues, dispatching
<1>4. ASSUME NEW t \in Threads, RunSyncCallback(t)
      PROVE  QueueOrder'
  <2>1. /\ log' = [log EXCEPT ![Head(todo[t])].by = t]
        /\ UNCHANGED <<mode, external_order_queue, elem>>
    BY <1>4 DEF RunSyncCallback, queues, dispatching
  <2>2. PICK k : k = Head(todo[t])
    OBVIOUS
  <2>3. k \in Callbacks
    BY <1>4, <2>2, RunMoves
  <2>4. /\ Callbacks' = Callbacks
        /\ \A n \in Callbacks : log'[n].window = log[n].window
    BY <2>1, <2>2, <2>3, RunStep
  <2> QED
    BY <2>1, <2>4 DEF QueueOrder
<1>5. ASSUME NEW t \in Threads, Return(t)
      PROVE  QueueOrder'
  BY <1>5 DEF Return, QueueOrder, Callbacks, queues, dispatching
<1>6. ASSUME NEW c \in Clients, AsyncCall(c)
      PROVE  QueueOrder'
  <2>1. /\ PushExternalOrder("async") /\ "async" \in Modes /\ UNCHANGED <<log, elem>>
    BY <1>6 DEF AsyncCall, Modes, dispatching
  <2> QED
    BY <2>1, PushOrder
<1>7. ASSUME NEW c \in Clients, BeginWait(c)
      PROVE  QueueOrder'
  BY <1>7 DEF BeginWait, QueueOrder, Callbacks, queues, dispatching
<1>8. ASSUME NEW c \in Clients, SpuriousWakeup(c)
      PROVE  QueueOrder'
  BY <1>8 DEF SpuriousWakeup, QueueOrder, Callbacks, queues, dispatching
<1>9. ASSUME NEW c \in Clients, CheckPredicate(c)
      PROVE  QueueOrder'
  BY <1>9 DEF CheckPredicate, QueueOrder, Callbacks, queues, dispatching
<1>10. CASE Pop
  <2>1. /\ external_order_queue \in Seq(Calls \cup {Null}) /\ external_order_queue # <<>>
        /\ elem' = Head(external_order_queue) /\ external_order_queue' = Tail(external_order_queue)
        /\ UNCHANGED log
    BY <1>10 DEF Pop, TypeOK
  <2>2. /\ 1 \in 1 .. Len(external_order_queue) /\ elem' = external_order_queue[1]
        /\ Len(external_order_queue) \in Nat
        /\ Len(external_order_queue') = Len(external_order_queue) - 1
        /\ \A j \in 1 .. Len(external_order_queue') :
               external_order_queue'[j] = external_order_queue[j + 1]
    BY <2>1, HeadTailProperties
  <2>3. Callbacks' = Callbacks
    BY <2>1 DEF Callbacks
  <2>4. ASSUME NEW j \in 1 .. Len(external_order_queue'), external_order_queue'[j] # Null
        PROVE  /\ elem' # Null => elem' < external_order_queue'[j]
               /\ \A n \in Callbacks : log[n].window < external_order_queue'[j]
               /\ \A k \in 1 .. Len(external_order_queue') :
                      j < k /\ external_order_queue'[k] # Null =>
                      external_order_queue'[j] < external_order_queue'[k]
    <3>1. /\ j \in Nat /\ j + 1 \in 1 .. Len(external_order_queue) /\ 1 < j + 1
          /\ external_order_queue'[j] = external_order_queue[j + 1]
      BY <2>2
    <3>2. /\ elem' # Null => elem' < external_order_queue'[j]
          /\ \A n \in Callbacks : log[n].window < external_order_queue'[j]
      BY <2>2, <2>4, <3>1 DEF QueueOrder
    <3>3. ASSUME NEW k \in 1 .. Len(external_order_queue'), j < k,
                 external_order_queue'[k] # Null
          PROVE  external_order_queue'[j] < external_order_queue'[k]
      <4>1. /\ k \in Nat /\ k + 1 \in 1 .. Len(external_order_queue) /\ j + 1 < k + 1
            /\ external_order_queue'[k] = external_order_queue[k + 1]
        BY <2>2, <3>1, <3>3
      <4> QED
        BY <2>4, <3>1, <3>3, <4>1 DEF QueueOrder
    <3> QED
      BY <3>2, <3>3
  <2>5. elem' # Null => \A n \in Callbacks : log[n].window <= elem'
    <3>1. ASSUME NEW n \in Callbacks, elem' # Null
          PROVE  log[n].window <= elem'
      <4>1. log[n].window < elem'
        BY <2>2, <3>1 DEF QueueOrder
      <4>2. log[n].window \in Nat /\ elem' \in Nat
        BY <2>1, <2>2, LogWindows, ElementOfSeq DEF Calls, Null
      <4> QED
        BY <4>1, <4>2
    <3> QED
      BY <3>1
  <2> QED
    BY <2>1, <2>3, <2>4, <2>5 DEF QueueOrder
<1>11. CASE OpenWindow
  BY <1>11 DEF OpenWindow, QueueOrder, Callbacks, queues, dispatching
<1>12. CASE LeaveLoop
  BY <1>12 DEF LeaveLoop, QueueOrder, Callbacks, queues, dispatching
<1>13. CASE JoinAsyncThread
  BY <1>13 DEF JoinAsyncThread, QueueOrder, Callbacks, queues, dispatching
<1>14. ASSUME NEW m \in Modes, Fire(m)
      PROVE  QueueOrder'
  <2>1. /\ log' = Append(log, [window |-> elem, mode |-> m, by |-> Nobody])
        /\ UNCHANGED <<mode, external_order_queue, elem>> /\ elem \in Calls
    BY <1>14 DEF Fire, DispatcherState
  <2>2. PICK k : k = Len(log) + 1
    OBVIOUS
  <2>3. /\ Callbacks' = Callbacks \cup {k} /\ k \notin Callbacks
        /\ \A n \in Callbacks : log'[n] = log[n]
        /\ log'[k] = [window |-> elem, mode |-> m, by |-> Nobody]
    BY <2>1, <2>2, FireStep
  <2>4. elem \in Nat /\ elem # Null /\ log'[k].window = elem /\ elem <= elem
    <3>1. log'[k].window = elem
      BY <2>3
    <3>2. elem \in Nat /\ elem # 0
      BY <2>1 DEF Calls
    <3> QED
      BY <3>1, <3>2 DEF Null
  <2> QED
    BY <2>1, <2>3, <2>4 DEF QueueOrder
<1>15. CASE CloseWindow
  BY <1>15 DEF CloseWindow, QueueOrder, Callbacks, queues, dispatching
<1>16. CASE ThrowInWindow
  BY <1>16 DEF ThrowInWindow, QueueOrder, Callbacks, queues, dispatching
<1>17. CASE SetValue
  BY <1>17 DEF SetValue, QueueOrder, Callbacks, queues, dispatching
<1>18. CASE SetException
  BY <1>18 DEF SetException, QueueOrder, Callbacks, queues, dispatching
<1>19. CASE TakeBatch
  BY <1>19 DEF TakeBatch, QueueOrder, Callbacks, queues, dispatching
<1>20. CASE BeginCallback
  BY <1>20 DEF BeginCallback, QueueOrder, Callbacks, queues, dispatching
<1>21. CASE EndCallback
  <2>1. /\ log' = [log EXCEPT ![Head(batch)].by = AsyncThread]
        /\ UNCHANGED <<mode, external_order_queue, elem>>
    BY <1>21 DEF EndCallback, queues, dispatching
  <2>2. PICK k : k = Head(batch)
    OBVIOUS
  <2>3. k \in Callbacks /\ AsyncThread \in Threads
    BY <1>21, <2>2, CallbackMoves DEF Threads
  <2>4. /\ Callbacks' = Callbacks
        /\ \A n \in Callbacks : log'[n].window = log[n].window
    BY <2>1, <2>2, <2>3, RunStep
  <2> QED
    BY <2>1, <2>4 DEF QueueOrder
<1>22. CASE BatchDone
  BY <1>22 DEF BatchDone, QueueOrder, Callbacks, queues, dispatching
<1>23. CASE TakeNull
  BY <1>23 DEF TakeNull, QueueOrder, Callbacks, queues, dispatching
<1>24. CASE NotifyOne
  BY <1>24 DEF NotifyOne, QueueOrder, Callbacks, queues, dispatching
<1>25. CASE BeginDestroy
  BY <1>25 DEF BeginDestroy, QueueOrder, Callbacks, queues, dispatching
<1>26. CASE EmplaceNull
  <2>1. /\ external_order_queue \in Seq(Calls \cup {Null})
        /\ Len(external_order_queue) \in Nat
        /\ external_order_queue' = Append(external_order_queue, Null)
        /\ UNCHANGED <<elem, log>>
    BY <1>26 DEF EmplaceNull, TypeOK, dispatching
  <2>2. /\ Len(external_order_queue') = Len(external_order_queue) + 1
        /\ external_order_queue'[Len(external_order_queue) + 1] = Null
        /\ \A j \in 1 .. Len(external_order_queue) :
               external_order_queue'[j] = external_order_queue[j]
    BY <2>1, AppendProperties DEF Null
  <2>3. Callbacks' = Callbacks
    BY <2>1 DEF Callbacks
  <2> QED
    BY <2>1, <2>2, <2>3 DEF QueueOrder
<1>27. CASE EndDestroy
  <2>1. external_order_queue' = <<>> /\ UNCHANGED <<elem, log>>
    BY <1>27 DEF EndDestroy, dispatching
  <2>2. Callbacks' = Callbacks /\ 1 .. Len(external_order_queue') = {}
    BY <2>1 DEF Callbacks
  <2> QED
    BY <2>1, <2>2 DEF QueueOrder
<1> QED
  BY <1>1, <1>2, <1>3, <1>4, <1>5, <1>6, <1>7, <1>8, <1>9, <1>10, <1>11,
     <1>12, <1>13, <1>14, <1>15, <1>16, <1>17, <1>18, <1>19, <1>20, <1>21,
     <1>22, <1>23, <1>24, <1>25, <1>26, <1>27
     DEF Next, Client, DispatcherThread, CallbackThread, Destructor, Threads

\* The callbacks of answers and of threads stay in the order of the windows
\* when they wait where they did.
LEMMA StayLate ==
    ASSUME TypeOK, LateWindows, Callers, AnswerState, Stay, Callbacks' =
           Callbacks,
           \A n \in Callbacks : log'[n].window = log[n].window,
           \A i \in Calls' : i \in Calls \/ promise'[i].callbacks = <<>>,
           \A t \in Threads : \/ call'[t] = call[t]
                              \/ todo[t] = <<>>,
           \A t \in Threads : pc'[t] = "run" =>
               pc[t] = "run" /\ call'[t] = call[t],
           \A i \in Calls : promise'[i].state = promise[i].state
                            \/ promise[i].state # "value"
    PROVE  LateWindows'
<1>1. ASSUME NEW n \in Callbacks, NEW i \in Calls', NEW j \in Nat,
             Waits(n, AnswerTo(i), j)'
      PROVE  log'[n].window <= i
  <2>1. CASE i \in Calls
    <3>1. i \in 1 .. MaxCalls
      BY <2>1, OpsAssumption DEF AnswerState, Calls, TypeOK
    <3>2. Waits(n, AnswerTo(i), j)
      BY <1>1, <3>1, PlacesDiffer DEF Stay
    <3> QED
      BY <2>1, <3>2 DEF LateWindows
  <2>2. CASE promise'[i].callbacks = <<>>
    BY <1>1, <2>2, LineAtNext DEF Waits
  <2> QED
    BY <2>1, <2>2
<1>2. ASSUME NEW n \in Callbacks, NEW t \in Threads, NEW j \in Nat,
             Waits(n, TodoOf(t), j)'
      PROVE  log'[n].window <= call'[t]
  <2>1. Waits(n, TodoOf(t), j)
    BY <1>2, PlacesDiffer DEF Stay
  <2>2. todo[t] # <<>>
    BY <2>1, LineAt DEF Waits
  <2> QED
    BY <2>1, <2>2 DEF LateWindows
<1>3. ASSUME NEW t \in Threads, pc'[t] = "run"
      PROVE  promise'[call'[t]].state = "value"
  <2>1. /\ pc[t] = "run" /\ call'[t] = call[t] /\ promise[call[t]].state = "value"
        /\ call[t] \in Calls
    BY <1>3, ThreadTables DEF LateWindows, Callers
  <2> QED
    BY <2>1
<1> QED
  BY <1>1, <1>2, <1>3 DEF LateWindows

\* They stay so when the first of a line leaves it.
LEMMA LeaveLate ==
    ASSUME TypeOK, LateWindows, AnswerState, NEW a \in Places, Leave(a),
           Callbacks' = Callbacks,
           \A n \in Callbacks : log'[n].window = log[n].window,
           UNCHANGED <<mode, promise, call>>,
           \A t \in Threads : pc'[t] = "run" => pc[t] = "run"
    PROVE  LateWindows'
<1>1. Calls' = Calls
  BY DEF Calls
<1>2. ASSUME NEW p \in Places, NEW n \in Callbacks, NEW j \in Nat, Waits(n, p, j)'
      PROVE  \E k \in Nat : Waits(n, p, k)
  <2>1. CASE p = a
    <3>1. Waits(n, p, j + 1) /\ j + 1 \in Nat
      BY <1>2, <2>1 DEF Leave
    <3> QED
      BY <3>1
  <2>2. CASE p # a
    BY <1>2, <2>2 DEF Leave
  <2> QED
    BY <2>1, <2>2
<1>3. ASSUME NEW n \in Callbacks, NEW i \in Calls, NEW j \in Nat,
             Waits(n, AnswerTo(i), j)'
      PROVE  log'[n].window <= i
  <2>1. i \in 1 .. MaxCalls
    BY OpsAssumption DEF AnswerState, Calls, TypeOK
  <2>2. \E k \in Nat : Waits(n, AnswerTo(i), k)
    BY <1>2, <1>3, <2>1, PlacesDiffer
  <2> QED
    BY <2>2 DEF LateWindows
<1>4. ASSUME NEW n \in Callbacks, NEW t \in Threads, NEW j \in Nat,
             Waits(n, TodoOf(t), j)'
      PROVE  log'[n].window <= call[t]
  <2>1. \E k \in Nat : Waits(n, TodoOf(t), k)
    BY <1>2, <1>4, PlacesDiffer
  <2> QED
    BY <2>1 DEF LateWindows
<1>5. \A t \in Threads : pc'[t] = "run" => promise'[call'[t]].state = "value"
  BY DEF LateWindows
<1> QED
  BY <1>1, <1>3, <1>4, <1>5 DEF LateWindows

\* They stay so when a thread takes its answer.
LEMMA GetLate ==
    ASSUME TypeOK, Callers, AnswerState, LateWindows, NEW t \in Threads, Get(t)
    PROVE  LateWindows'
<1>1. PICK c : c = call[t]
  OBVIOUS
<1>2. /\ c \in Calls /\ Callbacks' = Callbacks /\ Calls' = Calls
      /\ UNCHANGED <<mode, log>>
      /\ \A i \in Calls : promise'[i].state = promise[i].state
  BY <1>1, GetStep
<1>3. /\ \A u \in Threads : u # t => call'[u] = call[u] /\ pc'[u] = pc[u]
      /\ pc[t] = "get" /\ todo[t] = <<>>
  BY ThreadTables DEF Get, Callers
<1>4. CASE promise[c].state = "value"
  <2>1. /\ AnswerTo(c) \in Places /\ TodoOf(t) \in Places
        /\ Move(AnswerTo(c), TodoOf(t))
    BY <1>1, <1>4, GetMoves
  <2>2. UNCHANGED call
    BY <1>1, <1>4 DEF Get
  <2>3. ASSUME NEW n \in Callbacks, NEW i \in Calls, NEW j \in Nat,
               Waits(n, AnswerTo(i), j)'
        PROVE  log[n].window <= i
    <3>1. i \in 1 .. MaxCalls
      BY OpsAssumption DEF AnswerState, Calls, TypeOK
    <3>2. AnswerTo(i) \in Places /\ AnswerTo(i) # TodoOf(t)
      BY <3>1, PlacesDiffer
    <3>3. Waits(n, AnswerTo(i), j)
      BY <2>1, <2>3, <3>2 DEF Move
    <3> QED
      BY <3>3 DEF LateWindows
  <2>4. ASSUME NEW n \in Callbacks, NEW u \in Threads, NEW j \in Nat,
               Waits(n, TodoOf(u), j)'
        PROVE  log[n].window <= call[u]
    <3>1. CASE u = t
      <4>1. Waits(n, AnswerTo(c), j)
        BY <2>1, <2>4, <3>1 DEF Move
      <4> QED
        BY <1>1, <1>2, <3>1, <4>1 DEF LateWindows
    <3>2. CASE u # t
      <4>1. TodoOf(u) \in Places /\ TodoOf(u) # TodoOf(t)
        BY <3>2, PlacesDiffer
      <4>2. Waits(n, TodoOf(u), j)
        BY <2>1, <2>4, <4>1 DEF Move
      <4> QED
        BY <4>2 DEF LateWindows
    <3> QED
      BY <3>1, <3>2
  <2>5. ASSUME NEW u \in Threads, pc'[u] = "run"
        PROVE  promise'[call[u]].state = "value"
    <3>1. CASE u = t
      BY <1>1, <1>2, <1>4, <3>1
    <3>2. CASE u # t
      <4>1. pc[u] = "run" /\ promise[call[u]].state = "value"
        BY <1>3, <2>5, <3>2 DEF LateWindows
      <4>2. call[u] \in Calls
        BY <4>1, ThreadTables DEF Callers
      <4> QED
        BY <1>2, <4>1, <4>2
    <3> QED
      BY <3>1, <3>2
  <2> QED
    BY <1>2, <2>2, <2>3, <2>4, <2>5 DEF LateWindows
<1>5. CASE promise[c].state # "value"
  <2>1. /\ UNCHANGED <<callbacks_sync, copies, callbacks_async, batch, todo, promise, mode>>
        /\ pc' = [pc EXCEPT ![t] = Resume(t)]
    BY <1>1, <1>5 DEF Get, queues, dispatching
  <2>2. Stay
    BY <2>1, UnchangedStay
  <2>3. \A u \in Threads : pc'[u] = "run" => pc[u] = "run" /\ call'[u] = call[u]
    BY <1>3, <2>1, ThreadTables DEF Resume
  <2> QED
    BY <1>2, <1>3, <2>1, <2>2, <2>3, StayLate
<1> QED
  BY <1>4, <1>5

\* They stay so when a line moves that is neither an answer nor of a thread.
LEMMA MoveLate ==
    ASSUME TypeOK, LateWindows, AnswerState, NEW a \in Places, NEW b \in
           Places, Move(a, b),
           \A i : a # AnswerTo(i) /\ b # AnswerTo(i),
           \A t : a # TodoOf(t) /\ b # TodoOf(t),
           UNCHANGED <<mode, log, promise, call>>,
           \A t \in Threads : pc'[t] = "run" => pc[t] = "run"
    PROVE  LateWindows'
<1>1. Calls' = Calls /\ Callbacks' = Callbacks
  BY DEF Calls, Callbacks
<1>2. ASSUME NEW n \in Callbacks, NEW i \in Calls, NEW j \in Nat,
             Waits(n, AnswerTo(i), j)'
      PROVE  log[n].window <= i
  <2>1. i \in 1 .. MaxCalls
    BY OpsAssumption DEF AnswerState, Calls, TypeOK
  <2>2. Waits(n, AnswerTo(i), j)
    BY <1>2, <2>1, PlacesDiffer DEF Move
  <2> QED
    BY <2>2 DEF LateWindows
<1>3. ASSUME NEW n \in Callbacks, NEW t \in Threads, NEW j \in Nat,
             Waits(n, TodoOf(t), j)'
      PROVE  log[n].window <= call[t]
  <2>1. Waits(n, TodoOf(t), j)
    BY <1>3, PlacesDiffer DEF Move
  <2> QED
    BY <2>1 DEF LateWindows
<1>4. \A t \in Threads : pc'[t] = "run" => promise'[call'[t]].state = "value"
  BY DEF LateWindows
<1> QED
  BY <1>1, <1>2, <1>3, <1>4 DEF LateWindows

\* They stay so when a window has its answer.
LEMMA ValueLate ==
    ASSUME TypeOK, DispatcherState, AnswerState, Callers, QueueOrder,
           LateWindows, SetValue
    PROVE  LateWindows'
<1>1. PICK e : e = elem
  OBVIOUS
<1>2. /\ e \in Calls /\ Callbacks' = Callbacks /\ Calls' = Calls
      /\ UNCHANGED <<mode, log, call, pc>>
      /\ \A i \in Calls : promise'[i] =
             IF i = e THEN [state |-> "value", callbacks |-> copies] ELSE promise[i]
  BY <1>1, ValueStep DEF SetValue, threads
<1>3. AnswerTo(e) \in Places /\ Move(Copies, AnswerTo(e))
  BY <1>1, ValueMoves
<1>4. ASSUME NEW n \in Callbacks, NEW i \in Calls, NEW j \in Nat,
             Waits(n, AnswerTo(i), j)'
      PROVE  log[n].window <= i
  <2>1. CASE i = e
    BY <1>1, <1>2, <2>1 DEF QueueOrder, Calls, Null
  <2>2. CASE i # e
    <3>1. i \in 1 .. MaxCalls
      BY OpsAssumption DEF AnswerState, Calls, TypeOK
    <3>2. AnswerTo(i) \in Places /\ AnswerTo(i) # AnswerTo(e)
      BY <2>2, <3>1, PlacesDiffer
    <3>3. Waits(n, AnswerTo(i), j)
      BY <1>3, <1>4, <3>2 DEF Move
    <3> QED
      BY <3>3 DEF LateWindows
  <2> QED
    BY <2>1, <2>2
<1>5. ASSUME NEW n \in Callbacks, NEW t \in Threads, NEW j \in Nat,
             Waits(n, TodoOf(t), j)'
      PROVE  log[n].window <= call[t]
  <2>1. Waits(n, TodoOf(t), j)
    BY <1>3, <1>5, PlacesDiffer DEF Move
  <2> QED
    BY <2>1 DEF LateWindows
<1>6. ASSUME NEW t \in Threads, pc[t] = "run"
      PROVE  promise'[call[t]].state = "value"
  <2>1. promise[call[t]].state = "value" /\ call[t] \in Calls
    BY <1>6, ThreadTables DEF LateWindows, Callers
  <2> QED
    BY <1>2, <2>1
<1> QED
  BY <1>2, <1>4, <1>5, <1>6 DEF LateWindows

\* They stay so when a callback is produced.
LEMMA FireLate ==
    ASSUME TypeOK, DispatcherState, LateWindows, AnswerState, NEW m \in Modes,
           Fire(m)
    PROVE  LateWindows'
<1>1. PICK k : k = Len(log) + 1
  OBVIOUS
<1>2. /\ log' = Append(log, [window |-> elem, mode |-> m, by |-> Nobody])
      /\ UNCHANGED <<mode, promise, call, pc>> /\ elem \in Calls
  BY DEF Fire, DispatcherState, threads
<1>3. /\ Callbacks' = Callbacks \cup {k} /\ Calls' = Calls
      /\ \A n \in Callbacks : log'[n] = log[n]
  BY <1>1, <1>2, FireStep
<1>4. PICK a \in Places : a = Entrance(m)
  BY FireMoves
<1>5. \A n, j : \A p \in Places : Waits(n, p, j)' => Waits(n, p, j) \/ (p = a /\ n = k)
  BY <1>1, <1>4, FireMoves
<1>6. \A i, t : a # AnswerTo(i) /\ a # TodoOf(t)
  BY <1>4, PlacesDiffer DEF Entrance
<1>7. \A p \in Places : \A j : ~ Waits(k, p, j)
  <2>1. k \notin Callbacks /\ k # Null
    BY <1>1, <1>2, FireStep DEF Null
  <2> QED
    BY <2>1, WaitersInLog
<1>8. ASSUME NEW n \in Callbacks', NEW i \in Calls, NEW j \in Nat,
             Waits(n, AnswerTo(i), j)'
      PROVE  log'[n].window <= i
  <2>1. i \in 1 .. MaxCalls
    BY OpsAssumption DEF AnswerState, Calls, TypeOK
  <2>2. AnswerTo(i) \in Places
    BY <2>1, PlacesDiffer
  <2>3. Waits(n, AnswerTo(i), j)
    BY <1>5, <1>6, <1>8, <2>2
  <2>4. n \in Callbacks /\ log'[n] = log[n]
    BY <1>3, <1>7, <2>2, <2>3
  <2> QED
    BY <2>3, <2>4 DEF LateWindows
<1>9. ASSUME NEW n \in Callbacks', NEW t \in Threads, NEW j \in Nat,
             Waits(n, TodoOf(t), j)'
      PROVE  log'[n].window <= call[t]
  <2>1. TodoOf(t) \in Places
    BY PlacesDiffer
  <2>2. Waits(n, TodoOf(t), j)
    BY <1>5, <1>6, <1>9, <2>1
  <2>3. n \in Callbacks /\ log'[n] = log[n]
    BY <1>3, <1>7, <2>1, <2>2
  <2> QED
    BY <2>2, <2>3 DEF LateWindows
<1> QED
  BY <1>2, <1>3, <1>8, <1>9 DEF LateWindows

\* Every step preserves LateWindows.
LEMMA LateWindowsStep ==
    ASSUME TypeOK, DispatcherState, BatchState, Callers, AnswerState,
           QueueOrder, LateWindows, [Next]_vars
    PROVE  LateWindows'
<1>1. CASE UNCHANGED vars
  <2>1. UNCHANGED <<callbacks_sync, copies, callbacks_async, batch, todo,
                    promise, mode, log, call, pc>>
    BY <1>1 DEF vars, queues, dispatching, threads
  <2>2. Stay /\ Calls' = Calls /\ Callbacks' = Callbacks
    BY <2>1, UnchangedStay DEF Calls, Callbacks
  <2> QED
    BY <2>1, <2>2, StayLate
<1>2. ASSUME NEW t \in Threads, SyncCall(t)
      PROVE  LateWindows'
  <2>1. /\ PushExternalOrder("sync") /\ "sync" \in Modes
        /\ UNCHANGED <<callbacks_sync, copies, callbacks_async, batch, todo, log>>
    BY <1>2 DEF SyncCall, Modes, dispatching, threads
  <2>2. Stay
    BY <2>1, PushStays
  <2>3. /\ Callbacks' = Callbacks /\ Calls' = Calls \cup {Len(mode) + 1}
        /\ promise'[Len(mode) + 1] = Pending
        /\ \A i \in Calls : promise'[i] = promise[i]
    BY <2>1, PushStep
  <2>4. \A i \in Calls' : i \in Calls \/ promise'[i].callbacks = <<>>
    BY <2>3 DEF Pending
  <2>5. /\ \A u \in Threads : call'[u] = call[u] \/ todo[u] = <<>>
        /\ \A u \in Threads : pc'[u] = "run" => pc[u] = "run" /\ call'[u] = call[u]
    <3>1. todo[t] = <<>>
      BY <1>2 DEF SyncCall, Callers
    <3> QED
      BY <1>2, <3>1, ThreadTables DEF SyncCall
  <2> QED
    BY <2>1, <2>2, <2>3, <2>4, <2>5, StayLate
<1>3. ASSUME NEW t \in Threads, Get(t)
      PROVE  LateWindows'
  BY <1>3, GetLate
<1>4. ASSUME NEW t \in Threads, RunSyncCallback(t)
      PROVE  LateWindows'
  <2>1. /\ log' = [log EXCEPT ![Head(todo[t])].by = t]
        /\ UNCHANGED <<promise, mode, call, pc>>
    BY <1>4 DEF RunSyncCallback
  <2>2. PICK k : k = Head(todo[t])
    OBVIOUS
  <2>3. TodoOf(t) \in Places /\ k \in Callbacks /\ Leave(TodoOf(t))
    BY <1>4, <2>2, RunMoves
  <2>4. /\ Callbacks' = Callbacks
        /\ \A n \in Callbacks : log'[n].window = log[n].window
    BY <2>1, <2>2, <2>3, RunStep
  <2> QED
    BY <2>1, <2>3, <2>4, LeaveLate
<1>5. ASSUME NEW t \in Threads, Return(t)
      PROVE  LateWindows'
  <2>1. /\ UNCHANGED <<callbacks_sync, copies, callbacks_async, batch, todo,
                       promise, mode, log>>
        /\ todo[t] = <<>>
    BY <1>5 DEF Return, queues, dispatching
  <2>2. Stay /\ Calls' = Calls /\ Callbacks' = Callbacks
    BY <2>1, UnchangedStay DEF Calls, Callbacks
  <2>3. /\ \A u \in Threads : call'[u] = call[u] \/ todo[u] = <<>>
        /\ \A u \in Threads : pc'[u] = "run" => pc[u] = "run" /\ call'[u] = call[u]
    BY <1>5, <2>1, ThreadTables DEF Return, Resume
  <2> QED
    BY <2>1, <2>2, <2>3, StayLate
<1>6. ASSUME NEW c \in Clients, AsyncCall(c)
      PROVE  LateWindows'
  <2>1. /\ PushExternalOrder("async") /\ "async" \in Modes
        /\ UNCHANGED <<callbacks_sync, copies, callbacks_async, batch, todo, log>>
    BY <1>6 DEF AsyncCall, Modes, dispatching, threads
  <2>2. Stay
    BY <2>1, PushStays
  <2>3. /\ Callbacks' = Callbacks /\ Calls' = Calls \cup {Len(mode) + 1}
        /\ promise'[Len(mode) + 1] = Pending
        /\ \A i \in Calls : promise'[i] = promise[i]
    BY <2>1, PushStep
  <2>4. \A i \in Calls' : i \in Calls \/ promise'[i].callbacks = <<>>
    BY <2>3 DEF Pending
  <2>5. /\ \A u \in Threads : call'[u] = call[u] \/ todo[u] = <<>>
        /\ \A u \in Threads : pc'[u] = "run" => pc[u] = "run" /\ call'[u] = call[u]
    BY <1>6 DEF AsyncCall, threads
  <2> QED
    BY <2>1, <2>2, <2>3, <2>4, <2>5, StayLate
<1>7. ASSUME NEW c \in Clients, BeginWait(c)
      PROVE  LateWindows'
  <2>1. UNCHANGED <<callbacks_sync, copies, callbacks_async, batch, todo,
                    promise, mode, log>>
    BY <1>7 DEF BeginWait, queues, dispatching, threads
  <2>2. Stay /\ Calls' = Calls /\ Callbacks' = Callbacks
    BY <2>1, UnchangedStay DEF Calls, Callbacks
  <2>3. \A u \in Threads : call'[u] = call[u] /\ (pc'[u] = "run" => pc[u] = "run")
    BY <1>7, ThreadTables DEF BeginWait, threads, Blocked, Threads
  <2> QED
    BY <2>1, <2>2, <2>3, StayLate
<1>8. ASSUME NEW c \in Clients, SpuriousWakeup(c)
      PROVE  LateWindows'
  <2>1. UNCHANGED <<callbacks_sync, copies, callbacks_async, batch, todo,
                    promise, mode, log>>
    BY <1>8 DEF SpuriousWakeup, queues, dispatching, threads
  <2>2. Stay /\ Calls' = Calls /\ Callbacks' = Callbacks
    BY <2>1, UnchangedStay DEF Calls, Callbacks
  <2>3. \A u \in Threads : call'[u] = call[u] /\ (pc'[u] = "run" => pc[u] = "run")
    BY <1>8, ThreadTables DEF SpuriousWakeup, threads, Blocked, Threads
  <2> QED
    BY <2>1, <2>2, <2>3, StayLate
<1>9. ASSUME NEW c \in Clients, CheckPredicate(c)
      PROVE  LateWindows'
  <2>1. UNCHANGED <<callbacks_sync, copies, callbacks_async, batch, todo,
                    promise, mode, log>>
    BY <1>9 DEF CheckPredicate, queues, dispatching, threads
  <2>2. Stay /\ Calls' = Calls /\ Callbacks' = Callbacks
    BY <2>1, UnchangedStay DEF Calls, Callbacks
  <2>3. \A u \in Threads : call'[u] = call[u] /\ (pc'[u] = "run" => pc[u] = "run")
    BY <1>9, ThreadTables DEF CheckPredicate, threads, Blocked, Threads
  <2> QED
    BY <2>1, <2>2, <2>3, StayLate
<1>10. CASE Pop
  <2>1. UNCHANGED <<callbacks_sync, copies, callbacks_async, batch, todo,
                    promise, mode, log>>
    BY <1>10 DEF Pop, queues, dispatching, threads
  <2>2. Stay /\ Calls' = Calls /\ Callbacks' = Callbacks
    BY <2>1, UnchangedStay DEF Calls, Callbacks
  <2>3. \A u \in Threads : call'[u] = call[u] /\ (pc'[u] = "run" => pc[u] = "run")
    BY <1>10, ThreadTables DEF Pop, threads, Blocked, Threads
  <2> QED
    BY <2>1, <2>2, <2>3, StayLate
<1>11. CASE OpenWindow
  <2>1. UNCHANGED <<callbacks_sync, copies, callbacks_async, batch, todo,
                    promise, mode, log>>
    BY <1>11 DEF OpenWindow, queues, dispatching, threads
  <2>2. Stay /\ Calls' = Calls /\ Callbacks' = Callbacks
    BY <2>1, UnchangedStay DEF Calls, Callbacks
  <2>3. \A u \in Threads : call'[u] = call[u] /\ (pc'[u] = "run" => pc[u] = "run")
    BY <1>11, ThreadTables DEF OpenWindow, threads, Blocked, Threads
  <2> QED
    BY <2>1, <2>2, <2>3, StayLate
<1>12. CASE LeaveLoop
  <2>1. UNCHANGED <<mode, log, call, pc, todo>>
    BY <1>12 DEF LeaveLoop, threads
  <2>2. /\ Calls' = Calls /\ Callbacks' = Callbacks
        /\ \A i \in Calls : promise'[i].state = IF i = elem THEN "broken" ELSE promise[i].state
    BY <1>12, LeaveStep
  <2>3. \A i \in Calls : promise'[i].state = promise[i].state \/ promise[i].state # "value"
    BY <1>12, <2>2 DEF LeaveLoop, DispatcherState, Calls, Null
  <2> QED
    BY <1>12, <2>1, <2>2, <2>3, LeaveLoopStays, StayLate
<1>13. CASE JoinAsyncThread
  <2>1. UNCHANGED <<callbacks_sync, copies, callbacks_async, batch, todo,
                    promise, mode, log>>
    BY <1>13 DEF JoinAsyncThread, queues, dispatching, threads
  <2>2. Stay /\ Calls' = Calls /\ Callbacks' = Callbacks
    BY <2>1, UnchangedStay DEF Calls, Callbacks
  <2>3. \A u \in Threads : call'[u] = call[u] /\ (pc'[u] = "run" => pc[u] = "run")
    BY <1>13, ThreadTables DEF JoinAsyncThread, threads, Blocked, Threads
  <2> QED
    BY <2>1, <2>2, <2>3, StayLate
<1>14. ASSUME NEW m \in Modes, Fire(m)
      PROVE  LateWindows'
  BY <1>14, FireLate
<1>15. CASE CloseWindow
  <2>1. UNCHANGED <<mode, log, promise, call, pc>>
    BY <1>15 DEF CloseWindow, threads
  <2>2. CASE mode[elem] = "sync"
    <3>1. Move(Sync, Copies)
      BY <1>15, <2>2, CloseMoves
    <3> QED
      BY <2>1, <3>1, PlacesDiffer, MoveLate
  <2>3. CASE mode[elem] # "sync"
    <3>1. UNCHANGED <<callbacks_sync, copies, callbacks_async, batch, todo, promise, mode>>
      BY <1>15, <2>3 DEF CloseWindow, threads
    <3>2. Stay /\ Calls' = Calls /\ Callbacks' = Callbacks
      BY <2>1, <3>1, UnchangedStay DEF Calls, Callbacks
    <3> QED
      BY <2>1, <3>1, <3>2, StayLate
  <2> QED
    BY <2>2, <2>3
<1>16. CASE ThrowInWindow
  <2>1. UNCHANGED <<callbacks_sync, copies, callbacks_async, batch, todo,
                    promise, mode, log>>
    BY <1>16 DEF ThrowInWindow, queues, dispatching, threads
  <2>2. Stay /\ Calls' = Calls /\ Callbacks' = Callbacks
    BY <2>1, UnchangedStay DEF Calls, Callbacks
  <2>3. \A u \in Threads : call'[u] = call[u] /\ (pc'[u] = "run" => pc[u] = "run")
    BY <1>16, ThreadTables DEF ThrowInWindow, threads, Blocked, Threads
  <2> QED
    BY <2>1, <2>2, <2>3, StayLate
<1>17. CASE SetValue
  BY <1>17, ValueLate
<1>18. CASE SetException
  <2>1. UNCHANGED <<callbacks_sync, copies, callbacks_async, batch, todo, mode, log, call, pc>>
    BY <1>18 DEF SetException, queues, threads
  <2>2. /\ elem \in Calls /\ Calls' = Calls /\ Callbacks' = Callbacks
        /\ \A i \in Calls : /\ promise'[i].callbacks = promise[i].callbacks
                            /\ promise'[i].state =
                                  IF i = elem THEN "exception" ELSE promise[i].state
    BY <1>18, ExceptionStep
  <2>3. Stay
    BY <2>1, <2>2, StayStep
  <2>4. \A i \in Calls : promise'[i].state = promise[i].state \/ promise[i].state # "value"
    BY <1>18, <2>2 DEF SetException, DispatcherState
  <2> QED
    BY <2>1, <2>2, <2>3, <2>4, StayLate
<1>19. CASE TakeBatch
  <2>1. UNCHANGED <<mode, log, promise, call>>
    BY <1>19 DEF TakeBatch
  <2>2. Move(Async, Batch)
    BY <1>19, BatchMoves
  <2>3. \A u \in Threads : pc'[u] = "run" => pc[u] = "run"
    BY <1>19, ThreadTables DEF TakeBatch
  <2> QED
    BY <2>1, <2>2, <2>3, PlacesDiffer, MoveLate
<1>20. CASE BeginCallback
  <2>1. UNCHANGED <<callbacks_sync, copies, callbacks_async, batch, todo,
                    promise, mode, log>>
    BY <1>20 DEF BeginCallback, queues, dispatching, threads
  <2>2. Stay /\ Calls' = Calls /\ Callbacks' = Callbacks
    BY <2>1, UnchangedStay DEF Calls, Callbacks
  <2>3. \A u \in Threads : call'[u] = call[u] /\ (pc'[u] = "run" => pc[u] = "run")
    BY <1>20, ThreadTables DEF BeginCallback, threads, Blocked, Threads
  <2> QED
    BY <2>1, <2>2, <2>3, StayLate
<1>21. CASE EndCallback
  <2>1. /\ log' = [log EXCEPT ![Head(batch)].by = AsyncThread]
        /\ UNCHANGED <<promise, mode, call>>
    BY <1>21 DEF EndCallback
  <2>2. PICK k : k = Head(batch)
    OBVIOUS
  <2>3. /\ Batch \in Places /\ k \in Callbacks /\ Leave(Batch)
        /\ AsyncThread \in Threads
    BY <1>21, <2>2, CallbackMoves, PlacesDiffer DEF Threads
  <2>4. /\ Callbacks' = Callbacks
        /\ \A n \in Callbacks : log'[n].window = log[n].window
    BY <2>1, <2>2, <2>3, RunStep
  <2>5. \A u \in Threads : pc'[u] = "run" => pc[u] = "run"
    BY <1>21, ThreadTables DEF EndCallback
  <2> QED
    BY <2>1, <2>3, <2>4, <2>5, LeaveLate
<1>22. CASE BatchDone
  <2>1. UNCHANGED <<callbacks_sync, copies, callbacks_async, batch, todo,
                    promise, mode, log>>
    BY <1>22 DEF BatchDone, queues, dispatching, threads
  <2>2. Stay /\ Calls' = Calls /\ Callbacks' = Callbacks
    BY <2>1, UnchangedStay DEF Calls, Callbacks
  <2>3. \A u \in Threads : call'[u] = call[u] /\ (pc'[u] = "run" => pc[u] = "run")
    BY <1>22, ThreadTables DEF BatchDone, threads, Blocked, Threads
  <2> QED
    BY <2>1, <2>2, <2>3, StayLate
<1>23. CASE TakeNull
  <2>1. /\ UNCHANGED <<mode, log, call, promise, todo>>
        /\ \A u \in Threads : pc'[u] = "run" => pc[u] = "run"
    BY <1>23, ThreadTables DEF TakeNull
  <2>2. Stay /\ Calls' = Calls /\ Callbacks' = Callbacks
    BY <1>23, <2>1, TakeNullStays DEF Calls, Callbacks
  <2> QED
    BY <2>1, <2>2, StayLate
<1>24. CASE NotifyOne
  <2>1. UNCHANGED <<callbacks_sync, copies, callbacks_async, batch, todo,
                    promise, mode, log>>
    BY <1>24 DEF NotifyOne, queues, dispatching, threads
  <2>2. Stay /\ Calls' = Calls /\ Callbacks' = Callbacks
    BY <2>1, UnchangedStay DEF Calls, Callbacks
  <2>3. \A u \in Threads : call'[u] = call[u] /\ (pc'[u] = "run" => pc[u] = "run")
    BY <1>24, ThreadTables DEF NotifyOne, threads, Blocked, Threads
  <2> QED
    BY <2>1, <2>2, <2>3, StayLate
<1>25. CASE BeginDestroy
  <2>1. UNCHANGED <<callbacks_sync, copies, callbacks_async, batch, todo,
                    promise, mode, log>>
    BY <1>25 DEF BeginDestroy, queues, dispatching, threads
  <2>2. Stay /\ Calls' = Calls /\ Callbacks' = Callbacks
    BY <2>1, UnchangedStay DEF Calls, Callbacks
  <2>3. \A u \in Threads : call'[u] = call[u] /\ (pc'[u] = "run" => pc[u] = "run")
    BY <1>25, ThreadTables DEF BeginDestroy, threads, Blocked, Threads
  <2> QED
    BY <2>1, <2>2, <2>3, StayLate
<1>26. CASE EmplaceNull
  <2>1. UNCHANGED <<callbacks_sync, copies, callbacks_async, batch, todo,
                    promise, mode, log>>
    BY <1>26 DEF EmplaceNull, queues, dispatching, threads
  <2>2. Stay /\ Calls' = Calls /\ Callbacks' = Callbacks
    BY <2>1, UnchangedStay DEF Calls, Callbacks
  <2>3. \A u \in Threads : call'[u] = call[u] /\ (pc'[u] = "run" => pc[u] = "run")
    BY <1>26, ThreadTables DEF EmplaceNull, threads, Blocked, Threads
  <2> QED
    BY <2>1, <2>2, <2>3, StayLate
<1>27. CASE EndDestroy
  <2>1. UNCHANGED <<callbacks_sync, copies, callbacks_async, batch, todo, mode, log, call, pc>>
    BY <1>27 DEF EndDestroy, dispatching, threads
  <2>2. /\ Calls' = Calls /\ Callbacks' = Callbacks
        /\ \A i \in Calls : /\ promise'[i].callbacks = promise[i].callbacks
                            /\ promise'[i].state = IF promise[i].state = "pending"
                                                   THEN "broken" ELSE promise[i].state
    BY <1>27, DestroyStep
  <2>3. Stay
    BY <2>1, <2>2, StayStep
  <2>4. \A i \in Calls : promise'[i].state = promise[i].state \/ promise[i].state # "value"
    BY <2>2
  <2> QED
    BY <2>1, <2>2, <2>3, <2>4, StayLate
<1> QED
  BY <1>1, <1>2, <1>3, <1>4, <1>5, <1>6, <1>7, <1>8, <1>9, <1>10, <1>11,
     <1>12, <1>13, <1>14, <1>15, <1>16, <1>17, <1>18, <1>19, <1>20, <1>21,
     <1>22, <1>23, <1>24, <1>25, <1>26, <1>27
     DEF Next, Client, DispatcherThread, CallbackThread, Destructor, Threads

(***************************************************************************)
(* The theorems.                                                           *)
(***************************************************************************)

\* The invariant holds at first.
LEMMA InitIInv ==
    Init => IInv
<1> SUFFICES ASSUME Init PROVE IInv
  OBVIOUS
<1> USE DEF Init
<1>1. /\ AsyncThread \notin Clients /\ Threads = Clients \cup {AsyncThread}
      /\ Calls = {} /\ Callbacks = {}
  BY ThreadsAssumption DEF Threads, Calls, Callbacks
<1>2. TypeOK
  BY <1>1, EmptySeq, OpsAssumption DEF TypeOK, Null
<1>3. DispatcherState /\ BatchState /\ QueueState /\ DoneState /\ QueueOrder
  BY <1>1
     DEF DispatcherState, BatchState, QueueState, DoneState, QueueOrder, Null
<1>4. Callers
  BY <1>1 DEF Callers, Null
<1>5. AnswerState /\ InOnePlace /\ Runners /\ Windows /\ LateWindows
  BY <1>1, OpsAssumption
     DEF AnswerState, InOnePlace, Runners, Windows, LateWindows
<1> QED
  BY <1>2, <1>3, <1>4, <1>5 DEF IInv

\* Every step preserves it.
LEMMA NextIInv ==
    IInv /\ [Next]_vars => IInv'
  BY TypeStep, DispatcherStep, BatchStep, CallersStep, QueueStep,
     AnswerStateStep,
     InOnePlaceStep, RunnersStep, WindowsStep, DoneStep, QueueOrderStep,
     LateWindowsStep DEF IInv

\* It holds in every run.
LEMMA Invariance ==
    Spec => []IInv
  BY InitIInv, NextIInv, PTL DEF Spec

\* Every variable has its type, in every run of any number of clients and
\* calls (TypeOK).
THEOREM DispatcherTypeCorrect ==
    Spec => []TypeOK
<1>1. IInv => TypeOK
  BY DEF IInv
<1> QED
  BY <1>1, Invariance, PTL

\* Holders, as CallbacksRunOnce names them, are the places where a callback waits.
LEMMA HoldersWait ==
    ASSUME TypeOK, AnswerState, NEW n \in Callbacks
    PROVE  Holders(n) = {<<p, j>> : p \in Places, j \in Nat}
                            \cap {h \in Places \X Nat : Waits(n, h[1], h[2])}
<1>1. ASSUME NEW h \in Holders(n)
      PROVE  \E p \in Places, j \in Nat : h = <<p, j>> /\ Waits(n, p, j)
  <2>1. ASSUME NEW p \in Places, h \in {p} \X At(Line(p), n)
        PROVE  \E q \in Places, j \in Nat : h = <<q, j>> /\ Waits(n, q, j)
    BY <2>1 DEF At, Waits
  <2>2. /\ h \in {Sync} \X At(callbacks_sync, n) => h \in {Sync} \X At(Line(Sync), n)
        /\ h \in {Copies} \X At(copies, n) => h \in {Copies} \X At(Line(Copies), n)
        /\ h \in {Async} \X At(callbacks_async, n) => h \in {Async} \X At(Line(Async), n)
        /\ h \in {Batch} \X At(batch, n) => h \in {Batch} \X At(Line(Batch), n)
    BY LineAt
  <2>3. ASSUME NEW i \in Calls, h \in {AnswerTo(i)} \X At(promise[i].callbacks, n)
        PROVE  AnswerTo(i) \in Places /\ h \in {AnswerTo(i)} \X At(Line(AnswerTo(i)), n)
    <3>1. i \in 1 .. MaxCalls
      BY OpsAssumption DEF AnswerState, Calls, TypeOK
    <3> QED
      BY <2>3, <3>1, LineAt, PlacesDiffer
  <2>4. ASSUME NEW t \in Threads, h \in {TodoOf(t)} \X At(todo[t], n)
        PROVE  TodoOf(t) \in Places /\ h \in {TodoOf(t)} \X At(Line(TodoOf(t)), n)
    BY <2>4, LineAt, PlacesDiffer
  <2>5. \/ h \in {Sync} \X At(callbacks_sync, n)
        \/ h \in {Copies} \X At(copies, n)
        \/ h \in {Async} \X At(callbacks_async, n)
        \/ h \in {Batch} \X At(batch, n)
        \/ \E i \in Calls : h \in {AnswerTo(i)} \X At(promise[i].callbacks, n)
        \/ \E t \in Threads : h \in {TodoOf(t)} \X At(todo[t], n)
    BY DEF Holders, Sync, Copies, Async, Batch, AnswerTo, TodoOf
  <2> QED
    BY <2>1, <2>2, <2>3, <2>4, <2>5, PlacesDiffer
<1>2. ASSUME NEW p \in Places, NEW j \in Nat, Waits(n, p, j)
      PROVE  <<p, j>> \in Holders(n)
  <2>1. j \in At(Line(p), n)
    BY <1>2 DEF Waits, At
  <2>2. CASE p \in {Sync, Copies, Async, Batch}
    BY <2>1, <2>2, LineAt DEF Holders, Sync, Copies, Async, Batch
  <2>3. ASSUME NEW i \in 1 .. MaxCalls, p = AnswerTo(i)
        PROVE  <<p, j>> \in Holders(n)
    <3>1. i \in Calls
      BY <1>2, <2>3, LineAt DEF Waits
    <3>2. j \in At(promise[i].callbacks, n)
      BY <2>1, <2>3, <3>1, LineAt
    <3> QED
      BY <2>3, <3>1, <3>2 DEF Holders, AnswerTo
  <2>4. ASSUME NEW t \in Threads, p = TodoOf(t)
        PROVE  <<p, j>> \in Holders(n)
    <3>1. j \in At(todo[t], n)
      BY <2>1, <2>4, LineAt
    <3> QED
      BY <2>4, <3>1 DEF Holders, TodoOf
  <2> QED
    BY <2>2, <2>3, <2>4, PlacesDiffer
<1> QED
  BY <1>1, <1>2

\* Where the windows, the answers and the callback thread hand callbacks on,
\* none is lost and none is run twice (CallbacksRunOnce).
THEOREM EachCallbackRunsOnce ==
    Spec => []CallbacksRunOnce
<1>1. IInv => CallbacksRunOnce
  <2> SUFFICES ASSUME IInv, NEW n \in Callbacks
               PROVE  IF log[n].by = Nobody THEN \E h \in Holders(n) : Holders(n) = {h}
                      ELSE Holders(n) = {}
    BY DEF CallbacksRunOnce
  <2>1. /\ \A h : h \in Holders(n) <=>
               \E p \in Places, j \in Nat : h = <<p, j>> /\ Waits(n, p, j)
    <3>1. Holders(n) = {<<p, j>> : p \in Places, j \in Nat}
                            \cap {h \in Places \X Nat : Waits(n, h[1], h[2])}
      BY HoldersWait DEF IInv
    <3> QED
      BY <3>1
  <2>2. /\ log[n].by = Nobody <=> \E p \in Places, j \in Nat : Waits(n, p, j)
        /\ \A p, q \in Places : \A j, k \in Nat :
               Waits(n, p, j) /\ Waits(n, q, k) => p = q /\ j = k
    BY DEF IInv, InOnePlace
  <2>3. CASE log[n].by = Nobody
    <3>1. PICK p \in Places, j \in Nat : Waits(n, p, j)
      BY <2>2, <2>3
    <3>2. <<p, j>> \in Holders(n)
      BY <2>1, <3>1
    <3>3. \A h \in Holders(n) : h = <<p, j>>
      BY <2>1, <2>2, <3>1
    <3> QED
      BY <2>3, <3>2, <3>3
  <2>4. CASE log[n].by # Nobody
    BY <2>1, <2>2, <2>4
  <2> QED
    BY <2>3, <2>4
<1> QED
  BY <1>1, Invariance, PTL

\* A synchronous call has run the callbacks of its window when it returns
\* (ReturnsAfterCallbacks).
THEOREM CallsReturnAfterCallbacks ==
    Spec => []ReturnsAfterCallbacks
<1>1. IInv => ReturnsAfterCallbacks
  <2> SUFFICES ASSUME IInv, NEW n \in Callbacks, NEW w, w = log[n].window,
                      log[n].mode = "sync", mode[w] = "sync",
                      promise[w].state = "value", HasEnded(w)
               PROVE  log[n].by \in Threads
    BY DEF ReturnsAfterCallbacks
  <2>1. ASSUME log[n].by = Nobody
        PROVE  FALSE
    <3>1. PICK p \in Places, j \in Nat : Waits(n, p, j)
      BY <2>1 DEF IInv, InOnePlace
    <3>2. InWindow(w, p)
      BY <3>1 DEF IInv, Windows
    <3> QED
      BY <3>2 DEF InWindow, HasEnded
  <2>2. log[n] \in Entry
    BY ElementOfSeq DEF IInv, TypeOK, Entry, Callbacks
  <2> QED
    BY <2>1, <2>2 DEF Entry
<1> QED
  BY <1>1, Invariance, PTL

\* Neither in the queue of asynchronous callbacks nor in the hand of their
\* thread is there a callback that has not been run, when both are empty.
LEMMA AsyncCallbacksRun ==
    ASSUME IInv, callbacks_async = <<>>, batch = <<>>, NEW n \in Callbacks,
           log[n].mode = "async"
    PROVE  log[n].by = AsyncThread
<1>1. ASSUME log[n].by = Nobody
      PROVE  FALSE
  <2>1. PICK p \in Places, j \in Nat : Waits(n, p, j)
    BY <1>1 DEF IInv, InOnePlace
  <2>2. p \in {Async, Batch}
    BY <2>1 DEF IInv, InOnePlace
  <2>3. Line(p) = <<>>
    BY <2>2, LineAt
  <2> QED
    BY <2>1, <2>3 DEF Waits
<1> QED
  BY <1>1 DEF IInv, Runners

\* The callback thread leaves no callback behind it (NothingOutstanding).
THEOREM NoCallbackOutstanding ==
    Spec => []NothingOutstanding
<1>1. IInv => NothingOutstanding
  <2> SUFFICES ASSUME IInv, pc[AsyncThread] \in {"last_notify", "exit"},
                      NEW n \in Callbacks, log[n].mode = "async"
               PROVE  log[n].by = AsyncThread
    BY DEF NothingOutstanding
  <2>1. callbacks_async = <<>> /\ batch = <<>>
    BY DEF IInv, BatchState
  <2> QED
    BY <2>1, AsyncCallbacksRun
<1> QED
  BY <1>1, Invariance, PTL

\* A wait for asynchronous callbacks ends when those have been run that there
\* were when it began (WaitMeansDone).
THEOREM WaitEndsWhenDone ==
    Spec => WaitMeansDone
<1> DEFINE A == \A c \in Clients : pc[c] = "woken" /\ pc'[c] = "idle" =>
                    \A n \in 1 .. wait_from[c] :
                        log[n].mode = "async" => log[n].by = AsyncThread
<1>1. IInv /\ [Next]_vars => [A]_vars
  <2> SUFFICES ASSUME IInv, Next, NEW c \in Clients, pc[c] = "woken", pc'[c] = "idle",
                      NEW n \in 1 .. wait_from[c], log[n].mode = "async"
               PROVE  log[n].by = AsyncThread
    OBVIOUS
  <2>1. async_callbacks_done /\ callbacks_async = <<>>
    BY WaitEnds DEF IInv, CallbacksDone
  <2>2. batch = <<>>
    BY <2>1 DEF IInv, DoneState
  <2>3. n \in Callbacks
    <3>1. Len(log) \in Nat /\ wait_from[c] \in Nat /\ wait_from[c] <= Len(log)
      BY DEF IInv, DoneState, TypeOK
    <3> QED
      BY <3>1 DEF Callbacks
  <2> QED
    BY <2>1, <2>2, <2>3, AsyncCallbacksRun
<1> QED
  BY <1>1, Invariance, PTL DEF Spec, WaitMeansDone

\* The step that marks a synchronous callback as run is that of the thread
\* which has it in hand.
LEMMA SyncRun ==
    ASSUME IInv, NEW k \in Callbacks, log[k].mode = "sync", log'[k].by #
           log[k].by, [Next]_vars
    PROVE  \E u \in Threads : RunSyncCallback(u) /\ k = Head(todo[u])
<1>1. CASE UNCHANGED vars
  BY <1>1 DEF vars
<1>2. ASSUME NEW t \in Threads, SyncCall(t)
      PROVE  \E u \in Threads : RunSyncCallback(u) /\ k = Head(todo[u])
  BY <1>2 DEF SyncCall
<1>3. ASSUME NEW t \in Threads, Get(t)
      PROVE  \E u \in Threads : RunSyncCallback(u) /\ k = Head(todo[u])
  BY <1>3 DEF Get
<1>4. ASSUME NEW t \in Threads, RunSyncCallback(t)
      PROVE  \E u \in Threads : RunSyncCallback(u) /\ k = Head(todo[u])
  <2>1. log' = [log EXCEPT ![Head(todo[t])].by = t] /\ UNCHANGED mode
    BY <1>4 DEF RunSyncCallback
  <2>2. PICK h : h = Head(todo[t])
    OBVIOUS
  <2>3. h \in Callbacks
    BY <1>4, <2>2, RunMoves DEF IInv
  <2>4. \A l \in Callbacks : log'[l].by = IF l = h THEN t ELSE log[l].by
    BY <2>1, <2>2, <2>3, RunStep DEF IInv
  <2> QED
    BY <1>4, <2>2, <2>4
<1>5. ASSUME NEW t \in Threads, Return(t)
      PROVE  \E u \in Threads : RunSyncCallback(u) /\ k = Head(todo[u])
  BY <1>5 DEF Return
<1>6. ASSUME NEW c \in Clients, AsyncCall(c)
      PROVE  \E u \in Threads : RunSyncCallback(u) /\ k = Head(todo[u])
  BY <1>6 DEF AsyncCall
<1>7. ASSUME NEW c \in Clients, BeginWait(c)
      PROVE  \E u \in Threads : RunSyncCallback(u) /\ k = Head(todo[u])
  BY <1>7 DEF BeginWait
<1>8. ASSUME NEW c \in Clients, SpuriousWakeup(c)
      PROVE  \E u \in Threads : RunSyncCallback(u) /\ k = Head(todo[u])
  BY <1>8 DEF SpuriousWakeup
<1>9. ASSUME NEW c \in Clients, CheckPredicate(c)
      PROVE  \E u \in Threads : RunSyncCallback(u) /\ k = Head(todo[u])
  BY <1>9 DEF CheckPredicate
<1>10. CASE Pop
  BY <1>10 DEF Pop
<1>11. CASE OpenWindow
  BY <1>11 DEF OpenWindow
<1>12. CASE LeaveLoop
  BY <1>12 DEF LeaveLoop
<1>13. CASE JoinAsyncThread
  BY <1>13 DEF JoinAsyncThread
<1>14. ASSUME NEW m \in Modes, Fire(m)
      PROVE  \E u \in Threads : RunSyncCallback(u) /\ k = Head(todo[u])
  <2>1. /\ log' = Append(log, [window |-> elem, mode |-> m, by |-> Nobody])
        /\ UNCHANGED mode /\ elem \in Calls
    BY <1>14 DEF Fire, IInv, DispatcherState
  <2>2. log'[k] = log[k]
    BY <2>1, FireStep DEF IInv
  <2> QED
    BY <2>2
<1>15. CASE CloseWindow
  BY <1>15 DEF CloseWindow
<1>16. CASE ThrowInWindow
  BY <1>16 DEF ThrowInWindow
<1>17. CASE SetValue
  BY <1>17 DEF SetValue
<1>18. CASE SetException
  BY <1>18 DEF SetException
<1>19. CASE TakeBatch
  BY <1>19 DEF TakeBatch
<1>20. CASE BeginCallback
  BY <1>20 DEF BeginCallback
<1>21. CASE EndCallback
  <2>1. log' = [log EXCEPT ![Head(batch)].by = AsyncThread] /\ UNCHANGED mode
    BY <1>21 DEF EndCallback
  <2>2. PICK h : h = Head(batch)
    OBVIOUS
  <2>3. h \in Callbacks /\ AsyncThread \in Threads /\ Waits(h, Batch, 1)
    BY <1>21, <2>2, CallbackMoves DEF IInv, Threads
  <2>4. \A l \in Callbacks : log'[l].by = IF l = h THEN AsyncThread ELSE log[l].by
    BY <2>1, <2>2, <2>3, RunStep DEF IInv
  <2>5. log[h].mode = "async"
    BY <2>3, PlacesDiffer DEF IInv, InOnePlace
  <2> QED
    BY <2>4, <2>5
<1>22. CASE BatchDone
  BY <1>22 DEF BatchDone
<1>23. CASE TakeNull
  BY <1>23 DEF TakeNull
<1>24. CASE NotifyOne
  BY <1>24 DEF NotifyOne
<1>25. CASE BeginDestroy
  BY <1>25 DEF BeginDestroy
<1>26. CASE EmplaceNull
  BY <1>26 DEF EmplaceNull
<1>27. CASE EndDestroy
  BY <1>27 DEF EndDestroy
<1> QED
  BY <1>1, <1>2, <1>3, <1>4, <1>5, <1>6, <1>7, <1>8, <1>9, <1>10, <1>11,
     <1>12, <1>13, <1>14, <1>15, <1>16, <1>17, <1>18, <1>19, <1>20, <1>21,
     <1>22, <1>23, <1>24, <1>25, <1>26, <1>27
     DEF Next, Client, DispatcherThread, CallbackThread, Destructor, Threads

\* Each thread runs the synchronous callbacks of its own call, when that ends
\* with a value (CallersRunTheirCallbacks).
THEOREM CallersRunCallbacks ==
    Spec => CallersRunTheirCallbacks
<1> DEFINE A == \A n \in Callbacks :
                    LET w == log[n].window
                    IN  /\ log[n].mode = "sync"
                        /\ log'[n].by # log[n].by
                        /\ mode[w] = "sync"
                        /\ promise[w].state = "value"
                        => call[log'[n].by] = w
<1>1. IInv /\ [Next]_vars => [A]_vars
  <2> SUFFICES ASSUME IInv, Next, NEW n \in Callbacks, log[n].mode = "sync",
                      log'[n].by # log[n].by, NEW w, w = log[n].window,
                      mode[w] = "sync", promise[w].state = "value"
               PROVE  call[log'[n].by] = w
    OBVIOUS
  <2>1. PICK t \in Threads : RunSyncCallback(t) /\ n = Head(todo[t])
    BY SyncRun
  <2>2. /\ TodoOf(t) \in Places /\ Waits(n, TodoOf(t), 1)
    BY <2>1, RunMoves DEF IInv
  <2>3. log'[n].by = t
    <3>1. log' = [log EXCEPT ![n].by = t] /\ UNCHANGED mode
      BY <2>1 DEF RunSyncCallback
    <3> QED
      BY <3>1, RunStep DEF IInv
  <2>4. InWindow(w, TodoOf(t))
    BY <2>2 DEF IInv, Windows
  <2> QED
    BY <2>3, <2>4, PlacesDiffer DEF InWindow
<1> QED
  BY <1>1, Invariance, PTL DEF Spec, CallersRunTheirCallbacks

(***************************************************************************)
(* The refinement of OrderService.  First the queues without Null, which   *)
(* are built by recursion, ...                                             *)
(***************************************************************************)

\* what one more element adds to a sequence without Null
Longer(w, x) == IF x = Null THEN w ELSE Append(w, x)

\* h is the recursive function of WithoutNull(s), as far as n
IsProper(s, n, h) ==
    h = [k \in 0 .. n |-> IF k = 0 THEN <<>> ELSE Longer(h[k - 1], s[k])]

\* The recursive function of SumTo exists, built up one number at a time, ...
LEMMA ProperExists ==
    ASSUME NEW s, NEW n \in Nat
    PROVE  \E h : IsProper(s, n, h)
<1> DEFINE S == {m \in Nat : \E h : IsProper(s, m, h)}
<1>1. 0 \in S
  <2>1. IsProper(s, 0, [k \in 0 .. 0 |-> <<>>])
    <3>1. \A k \in 0 .. 0 : k = 0
      OBVIOUS
    <3> QED
      BY <3>1, Zenon DEF IsProper
  <2> QED
    BY <2>1
<1>2. ASSUME NEW m \in S
      PROVE  m + 1 \in S
  <2>1. PICK h : IsProper(s, m, h)
    OBVIOUS
  <2> DEFINE g == [k \in 0 .. m + 1 |-> IF k = m + 1 THEN Longer(h[m], s[m + 1]) ELSE h[k]]
  <2>2. ASSUME NEW k \in 0 .. m + 1
        PROVE  g[k] = IF k = 0 THEN <<>> ELSE Longer(g[k - 1], s[k])
    <3>0. m \in Nat /\ h = [i \in 0 .. m |-> IF i = 0 THEN <<>> ELSE Longer(h[i - 1], s[i])]
      BY <2>1 DEF IsProper
    <3>1. CASE k = m + 1
      <4>1. k # 0 /\ k - 1 = m /\ k - 1 \in 0 .. m + 1 /\ k - 1 # m + 1
        BY <3>0, <3>1
      <4>2. g[k - 1] = h[m]
        BY <4>1
      <4> QED
        BY <3>1, <4>1, <4>2
    <3>2. CASE k = 0
      <4>1. k \in 0 .. m /\ k # m + 1
        BY <3>0, <3>2
      <4>2. g[k] = h[k]
        BY <4>1
      <4>3. h[k] = <<>>
        BY <3>0, <3>2, <4>1, Zenon
      <4> QED
        BY <3>2, <4>2, <4>3
    <3>3. CASE k # 0 /\ k # m + 1
      <4>1. k \in 0 .. m /\ k - 1 \in 0 .. m + 1 /\ k - 1 # m + 1
        BY <3>0, <3>3
      <4>2. g[k] = h[k] /\ g[k - 1] = h[k - 1]
        BY <3>3, <4>1
      <4>3. h[k] = Longer(h[k - 1], s[k])
        BY <3>0, <3>3, <4>1, Zenon
      <4> QED
        BY <3>3, <4>2, <4>3
    <3> QED
      BY <3>1, <3>2, <3>3
  <2>3. IsProper(s, m + 1, g)
    <3>1. g = [k \in 0 .. m + 1 |-> g[k]]
      OBVIOUS
    <3>2. [k \in 0 .. m + 1 |-> g[k]] =
          [k \in 0 .. m + 1 |-> IF k = 0 THEN <<>> ELSE Longer(g[k - 1], s[k])]
      <4> HIDE DEF g
      <4> QED
        BY <2>2
    <3> QED
      BY <3>1, <3>2, Zenon DEF IsProper
  <2>4. m + 1 \in Nat
    OBVIOUS
  <2> QED
    BY <2>3, <2>4
<1>3. S \subseteq Nat
  OBVIOUS
<1>4. S = Nat
  <2> HIDE DEF S
  <2> QED
    BY <1>1, <1>2, <1>3, SetInduction
<1> QED
  BY <1>4

\* ... it is the only one, ...
LEMMA ProperAgree ==
    ASSUME NEW s, NEW n \in Nat, NEW m \in Nat, NEW h, NEW g,
           IsProper(s, n, h), IsProper(s, m, g)
    PROVE  \A k \in Nat : k <= n /\ k <= m => h[k] = g[k]
<1> DEFINE S == {k \in Nat : k <= n /\ k <= m => h[k] = g[k]}
<1>0. /\ h = [i \in 0 .. n |-> IF i = 0 THEN <<>> ELSE Longer(h[i - 1], s[i])]
      /\ g = [i \in 0 .. m |-> IF i = 0 THEN <<>> ELSE Longer(g[i - 1], s[i])]
  BY DEF IsProper
<1>1. 0 \in S
  <2>1. 0 \in 0 .. n /\ 0 \in 0 .. m
    OBVIOUS
  <2>2. h[0] = <<>> /\ g[0] = <<>>
    BY <1>0, <2>1, Zenon
  <2> QED
    BY <2>2
<1>2. ASSUME NEW k \in S
      PROVE  k + 1 \in S
  <2> SUFFICES ASSUME k + 1 <= n, k + 1 <= m PROVE h[k + 1] = g[k + 1]
    OBVIOUS
  <2>1. /\ k + 1 \in 0 .. n /\ k + 1 \in 0 .. m /\ k + 1 # 0
        /\ (k + 1) - 1 = k /\ k <= n /\ k <= m
    OBVIOUS
  <2>2. h[k] = g[k]
    BY <2>1
  <2>3. h[k + 1] = Longer(h[(k + 1) - 1], s[k + 1]) /\ g[k + 1] = Longer(g[(k + 1) - 1], s[k + 1])
    BY <1>0, <2>1, Zenon
  <2> QED
    BY <2>1, <2>2, <2>3
<1>3. S \subseteq Nat
  OBVIOUS
<1>4. S = Nat
  <2> HIDE DEF S
  <2> QED
    BY <1>1, <1>2, <1>3, SetInduction
<1> QED
  BY <1>4

\* ... and WithoutNull(s) is its last value.
LEMMA ProperIs ==
    ASSUME NEW X, NEW s \in Seq(X), NEW h, IsProper(s, Len(s), h)
    PROVE  WithoutNull(s) = h[Len(s)]
<1> DEFINE p == CHOOSE g : IsProper(s, Len(s), g)
<1>0. Len(s) \in Nat
  OBVIOUS
<1>1. IsProper(s, Len(s), p)
  BY Zenon
<1>2. WithoutNull(s) = p[Len(s)]
  BY Zenon DEF WithoutNull, IsProper, Longer
<1>3. p[Len(s)] = h[Len(s)]
  <2> HIDE DEF p
  <2> QED
    BY <1>0, <1>1, ProperAgree
<1> QED
  BY <1>2, <1>3

\* Null adds nothing to WithoutNull, and what is not Null adds itself.
LEMMA ProperStep ==
    ASSUME NEW X, NEW s \in Seq(X), NEW x \in X
    PROVE  WithoutNull(Append(s, x)) = Longer(WithoutNull(s), x)
<1> DEFINE t == Append(s, x)
           n == Len(s)
<1>1. /\ t \in Seq(X) /\ Len(t) = n + 1 /\ t[n + 1] = x /\ n \in Nat
      /\ \A k \in 1 .. n : t[k] = s[k]
  OBVIOUS
<1> HIDE DEF t, n
<1>2. PICK h : IsProper(t, n + 1, h)
  <2>1. n + 1 \in Nat
    BY <1>1
  <2> QED
    BY <2>1, ProperExists, Zenon
<1>3. PICK g : IsProper(s, n, g)
  BY <1>1, ProperExists, Zenon
<1>4. /\ h = [i \in 0 .. n + 1 |-> IF i = 0 THEN <<>> ELSE Longer(h[i - 1], t[i])]
      /\ g = [i \in 0 .. n |-> IF i = 0 THEN <<>> ELSE Longer(g[i - 1], s[i])]
  BY <1>2, <1>3 DEF IsProper
<1> DEFINE S == {k \in Nat : k <= n => h[k] = g[k]}
<1>5. 0 \in S
  <2>1. 0 \in 0 .. n /\ 0 \in 0 .. n + 1
    BY <1>1
  <2>2. h[0] = <<>> /\ g[0] = <<>>
    BY <1>4, <2>1, Zenon
  <2> QED
    BY <2>2
<1>6. ASSUME NEW k \in S
      PROVE  k + 1 \in S
  <2> SUFFICES ASSUME k + 1 <= n PROVE h[k + 1] = g[k + 1]
    OBVIOUS
  <2>1. /\ k + 1 \in 0 .. n /\ k + 1 \in 0 .. n + 1 /\ k + 1 # 0
        /\ k + 1 \in 1 .. n /\ (k + 1) - 1 = k /\ k <= n
    BY <1>1
  <2>2. h[k] = g[k] /\ t[k + 1] = s[k + 1]
    BY <1>1, <2>1
  <2>3. h[k + 1] = Longer(h[(k + 1) - 1], t[k + 1]) /\ g[k + 1] = Longer(g[(k + 1) - 1], s[k + 1])
    BY <1>4, <2>1, Zenon
  <2> QED
    BY <2>1, <2>2, <2>3
<1>7. h[n] = g[n]
  <2>1. S \subseteq Nat
    OBVIOUS
  <2>2. S = Nat
    <3> HIDE DEF S
    <3> QED
      BY <1>5, <1>6, <2>1, SetInduction
  <2> QED
    BY <1>1, <2>2
<1>8. h[n + 1] = Longer(h[n], x)
  <2>1. n + 1 \in 0 .. n + 1 /\ n + 1 # 0 /\ (n + 1) - 1 = n
    BY <1>1
  <2>2. h[n + 1] = Longer(h[(n + 1) - 1], t[n + 1])
    BY <1>4, <2>1, Zenon
  <2> QED
    BY <1>1, <2>1, <2>2
<1>9. WithoutNull(t) = h[n + 1] /\ WithoutNull(s) = g[n]
  BY <1>1, <1>2, <1>3, ProperIs DEF n
<1> QED
  BY <1>7, <1>8, <1>9 DEF t

\* An empty queue holds nothing.
LEMMA ProperEmpty == WithoutNull(<<>>) = <<>>
<1>1. PICK h : IsProper(<<>>, 0, h)
  BY ProperExists
<1>2. h[0] = <<>>
  <2>1. h = [k \in 0 .. 0 |-> IF k = 0 THEN <<>> ELSE Longer(h[k - 1], <<>>[k])]
    BY <1>1 DEF IsProper
  <2>2. 0 \in 0 .. 0
    OBVIOUS
  <2> QED
    BY <2>1, <2>2, Zenon
<1>3. <<>> \in Seq({}) /\ Len(<<>>) = 0
  BY EmptySeq
<1> QED
  BY <1>1, <1>2, <1>3, ProperIs
\* Appending to the second of two sequences is appending to both.
LEMMA AppendConcat ==
    ASSUME NEW X, NEW p \in Seq(X), NEW q \in Seq(X), NEW x \in X
    PROVE  p \o Append(q, x) = Append(p \o q, x)
<1>1. <<x>> \in Seq(X) /\ p \o q \in Seq(X)
  BY ConcatProperties
<1>2. Append(q, x) = q \o <<x>> /\ Append(p \o q, x) = (p \o q) \o <<x>>
  BY <1>1, AppendIsConcat
<1> QED
  BY <1>1, <1>2, ConcatAssociative

\* What a queue holds is in its set, ...
LEMMA ProperType ==
    ASSUME NEW X, NEW s \in Seq(X)
    PROVE  WithoutNull(s) \in Seq(X)
<1> DEFINE S == {q \in Seq(X) : WithoutNull(q) \in Seq(X)}
<1>1. <<>> \in S
  BY ProperEmpty, EmptySeq
<1>2. ASSUME NEW q \in S, NEW x \in X
      PROVE  Append(q, x) \in S
  <2>1. q \in Seq(X) /\ WithoutNull(q) \in Seq(X)
    OBVIOUS
  <2>2. WithoutNull(Append(q, x)) = Longer(WithoutNull(q), x)
    BY <2>1, ProperStep
  <2>3. Longer(WithoutNull(q), x) \in Seq(X)
    BY <2>1, AppendProperties DEF Longer
  <2> QED
    BY <2>1, <2>2, <2>3, AppendProperties
<1>3. S \subseteq Seq(X)
  OBVIOUS
<1>4. S = Seq(X)
  <2> HIDE DEF S
  <2> QED
    BY <1>1, <1>2, <1>3, SequenceInduction
<1> QED
  BY <1>4

\* ... and of one queue behind another, what both hold.
LEMMA ProperConcat ==
    ASSUME NEW X, NEW p \in Seq(X), NEW s \in Seq(X)
    PROVE  WithoutNull(p \o s) = WithoutNull(p) \o WithoutNull(s)
<1> DEFINE w == WithoutNull(p)
           S == {q \in Seq(X) : WithoutNull(p \o q) = w \o WithoutNull(q)}
<1>0. w \in Seq(X)
  BY ProperType
<1>1. <<>> \in S
  BY <1>0, ProperEmpty, ConcatEmptySeq, EmptySeq
<1>2. ASSUME NEW q \in S, NEW x \in X
      PROVE  Append(q, x) \in S
  <2>1. q \in Seq(X) /\ WithoutNull(p \o q) = w \o WithoutNull(q)
    OBVIOUS
  <2>2. p \o q \in Seq(X) /\ Append(q, x) \in Seq(X) /\ WithoutNull(q) \in Seq(X)
    BY <2>1, ConcatProperties, AppendProperties, ProperType
  <2>3. p \o Append(q, x) = Append(p \o q, x)
    BY <2>1, <2>2, AppendConcat
  <2>4. WithoutNull(Append(p \o q, x)) = Longer(w \o WithoutNull(q), x)
    BY <2>1, <2>2, ProperStep
  <2>5. WithoutNull(Append(q, x)) = Longer(WithoutNull(q), x)
    BY <2>1, ProperStep
  <2>6. Longer(w \o WithoutNull(q), x) = w \o Longer(WithoutNull(q), x)
    <3>1. \A u, v \in Seq(X) : u \o Append(v, x) = Append(u \o v, x)
      BY AppendConcat
    <3>2. w \o Append(WithoutNull(q), x) = Append(w \o WithoutNull(q), x)
      BY <1>0, <2>2, <3>1, Zenon
    <3> QED
      BY <3>2, Zenon DEF Longer
  <2> QED
    BY <2>2, <2>3, <2>4, <2>5, <2>6
<1>3. S \subseteq Seq(X)
  OBVIOUS
<1>4. S = Seq(X)
  <2> HIDE DEF S
  <2> QED
    BY <1>1, <1>2, <1>3, SequenceInduction
<1> QED
  BY <1>4

\* A queue of one.
LEMMA ProperOne ==
    ASSUME NEW x
    PROVE  WithoutNull(<<x>>) = IF x = Null THEN <<>> ELSE <<x>>
<1>1. <<>> \in Seq({x}) /\ Append(<<>>, x) = <<x>>
  OBVIOUS
<1>2. WithoutNull(Append(<<>>, x)) = Longer(WithoutNull(<<>>), x)
  BY <1>1, ProperStep
<1> QED
  BY <1>1, <1>2, ProperEmpty DEF Longer

\* A queue that has something but Null holds something.
LEMMA ProperNotEmpty ==
    ASSUME NEW X, NEW s \in Seq(X), NEW j \in 1 .. Len(s), s[j] # Null
    PROVE  WithoutNull(s) # <<>>
<1> DEFINE S == {q \in Seq(X) :
                    (\E k \in 1 .. Len(q) : q[k] # Null) => WithoutNull(q) # <<>>}
<1>1. <<>> \in S
  BY EmptySeq
<1>2. ASSUME NEW q \in S, NEW x \in X
      PROVE  Append(q, x) \in S
  <2>1. /\ q \in Seq(X)
        /\ (\E k \in 1 .. Len(q) : q[k] # Null) => WithoutNull(q) # <<>>
    OBVIOUS
  <2>2. WithoutNull(q) \in Seq(X)
    BY <2>1, ProperType
  <2>3. WithoutNull(Append(q, x)) = Longer(WithoutNull(q), x)
    BY <2>1, ProperStep
  <2>4. /\ Append(q, x) \in Seq(X) /\ Len(Append(q, x)) = Len(q) + 1 /\ Len(q) \in Nat
        /\ \A k \in 1 .. Len(q) : Append(q, x)[k] = q[k]
        /\ Append(q, x)[Len(q) + 1] = x
    BY <2>1, AppendProperties
  <2> HIDE DEF S
  <2>5. CASE x # Null
    <3>1. Longer(WithoutNull(q), x) # <<>>
      BY <2>2, <2>5, AppendProperties DEF Longer
    <3> QED
      BY <2>3, <2>4, <3>1 DEF S
  <2>6. CASE x = Null
    <3>1. WithoutNull(Append(q, x)) = WithoutNull(q)
      BY <2>3, <2>6 DEF Longer
    <3>2. ASSUME NEW k \in 1 .. Len(Append(q, x)), Append(q, x)[k] # Null
          PROVE  WithoutNull(q) # <<>>
      <4>1. k # Len(q) + 1
        BY <2>4, <2>6, <3>2
      <4>2. k \in 1 .. Len(q) /\ q[k] # Null
        BY <2>4, <3>2, <4>1
      <4> QED
        BY <2>1, <4>2
    <3> QED
      BY <2>4, <3>1, <3>2 DEF S
  <2> QED
    BY <2>5, <2>6
<1>3. S \subseteq Seq(X)
  OBVIOUS
<1>4. S = Seq(X)
  <2> HIDE DEF S
  <2> QED
    BY <1>1, <1>2, <1>3, SequenceInduction
<1> QED
  BY <1>4

\* Null at the end of a queue is nothing that it holds.
LEMMA ProperLastNull ==
    ASSUME NEW p \in Seq(Nat), NEW s \in Seq(Nat)
    PROVE  WithoutNull(p \o Append(s, Null)) = WithoutNull(p \o s)
<1>1. Null \in Nat /\ p \o s \in Seq(Nat)
  BY ConcatProperties DEF Null
<1>2. p \o Append(s, Null) = Append(p \o s, Null)
  BY <1>1, AppendConcat
<1>3. WithoutNull(Append(p \o s, Null)) = Longer(WithoutNull(p \o s), Null)
  BY <1>1, ProperStep
<1> QED
  BY <1>2, <1>3 DEF Longer

(***************************************************************************)
(* ... then a part of the invariant that only the end of a book needs, ... *)
(***************************************************************************)

\* A call without an answer is popped or in the queue: none is forgotten.
PendingWaits ==
    \A i \in Calls : promise[i].state = "pending" =>
        \/ i = elem
        \/ \E j \in 1 .. Len(external_order_queue) : external_order_queue[j] = i

\* The steps that touch what the service is about.
LEMMA StepKinds ==
    ASSUME [Next]_vars
    PROVE  \/ UNCHANGED <<external_order_queue, elem, mode, promise, batch,
                          callbacks_async>>
           \/ \E t \in Threads : SyncCall(t) \/ Get(t)
           \/ \E c \in Clients : AsyncCall(c)
           \/ \E m \in Modes : Fire(m)
           \/ Pop \/ LeaveLoop \/ SetValue \/ SetException
           \/ TakeBatch \/ EndCallback \/ TakeNull
           \/ EmplaceNull \/ EndDestroy
<1>1. CASE UNCHANGED vars
  BY <1>1 DEF vars, queues, dispatching, threads
<1>2. ASSUME NEW t \in Threads, RunSyncCallback(t) \/ Return(t)
      PROVE  UNCHANGED <<external_order_queue, elem, mode, promise, batch,
                         callbacks_async>>
  BY <1>2 DEF RunSyncCallback, Return, queues, dispatching
<1>3. ASSUME NEW c \in Clients, BeginWait(c) \/ SpuriousWakeup(c) \/ CheckPredicate(c)
      PROVE  UNCHANGED <<external_order_queue, elem, mode, promise, batch,
                         callbacks_async>>
  BY <1>3 DEF BeginWait, SpuriousWakeup, CheckPredicate, queues, dispatching
<1>4. CASE OpenWindow \/ JoinAsyncThread \/ CloseWindow \/ ThrowInWindow
  BY <1>4 DEF OpenWindow, JoinAsyncThread, CloseWindow, ThrowInWindow, queues,
              dispatching, threads
<1>5. CASE BeginCallback \/ BatchDone \/ NotifyOne \/ BeginDestroy
  BY <1>5 DEF BeginCallback, BatchDone, NotifyOne, BeginDestroy, queues,
              dispatching, threads
<1>6. AsyncThread \in Threads /\ Clients \subseteq Threads
  BY DEF Threads
<1> QED
  BY <1>1, <1>2, <1>3, <1>4, <1>5, <1>6, Zenon
     DEF Next, Client, DispatcherThread, CallbackThread, Destructor

\* The queues are of numbers.
LEMMA Numbers ==
    TypeOK => /\ elem \in Nat /\ external_order_queue \in Seq(Nat)
              /\ batch \in Seq(Nat) /\ callbacks_async \in Seq(Nat)
              /\ promise \in Seq(Answer) /\ Len(promise) = Len(mode)
              /\ Len(mode) \in Nat /\ Calls = 1 .. Len(promise)
              /\ DOMAIN promise = 1 .. Len(promise)
<1> SUFFICES ASSUME TypeOK
             PROVE  /\ elem \in Nat /\ external_order_queue \in Seq(Nat)
                    /\ batch \in Seq(Nat) /\ callbacks_async \in Seq(Nat)
                    /\ promise \in Seq(Answer) /\ Len(promise) = Len(mode)
                    /\ Len(mode) \in Nat /\ Calls = 1 .. Len(promise)
                    /\ DOMAIN promise = 1 .. Len(promise)
  OBVIOUS
<1>1. promise \in Seq(Answer) /\ Len(promise) = Len(mode) /\ mode \in Seq(Modes)
  BY DEF TypeOK, Answer
<1>2. /\ Len(mode) \in Nat /\ Calls = 1 .. Len(promise)
      /\ DOMAIN promise = 1 .. Len(promise)
  BY <1>1 DEF Calls
<1>3. Calls \cup {Null} \subseteq Nat /\ Callbacks \cup {Null} \subseteq Nat
  BY DEF Calls, Callbacks, Null
<1>4. /\ elem \in Calls \cup {Null}
      /\ external_order_queue \in Seq(Calls \cup {Null})
      /\ batch \in Seq(Callbacks \cup {Null})
      /\ callbacks_async \in Seq(Callbacks \cup {Null})
  BY DEF TypeOK
<1> HIDE DEF Calls, Callbacks
<1>5. elem \in Nat /\ external_order_queue \in Seq(Nat)
  BY <1>3, <1>4, SeqMono
<1>6. batch \in Seq(Nat) /\ callbacks_async \in Seq(Nat)
  BY <1>3, <1>4, SeqMono
<1> QED
  BY <1>1, <1>2, <1>5, <1>6

\* Every step keeps PendingWaits.
LEMMA PendingWaitsStep ==
    ASSUME TypeOK, DispatcherState, Callers, PendingWaits, [Next]_vars
    PROVE  PendingWaits'
<1>0. /\ elem \in Nat /\ external_order_queue \in Seq(Nat)
      /\ promise \in Seq(Answer) /\ Len(promise) = Len(mode)
      /\ Len(mode) \in Nat /\ Calls = 1 .. Len(promise)
      /\ DOMAIN promise = 1 .. Len(promise)
  BY Numbers
<1>1. ASSUME UNCHANGED <<external_order_queue, elem, mode, promise>>
      PROVE  PendingWaits'
  BY <1>1 DEF PendingWaits, Calls
<1>2. ASSUME NEW m \in Modes, PushExternalOrder(m), UNCHANGED <<log, elem>>
      PROVE  PendingWaits'
  <2>1. /\ Calls' = Calls \cup {Len(mode) + 1}
        /\ \A i \in Calls : promise'[i] = promise[i]
    BY <1>2, PushStep
  <2>2. /\ Len(external_order_queue') = Len(external_order_queue) + 1
        /\ \A j \in 1 .. Len(external_order_queue) :
               external_order_queue'[j] = external_order_queue[j]
        /\ external_order_queue'[Len(external_order_queue) + 1] = Len(mode) + 1
    BY <1>0, <1>2 DEF PushExternalOrder
  <2>3. /\ 1 .. Len(external_order_queue) \subseteq 1 .. Len(external_order_queue')
        /\ Len(external_order_queue) + 1 \in 1 .. Len(external_order_queue')
    BY <1>0, <2>2
  <2>4. ASSUME NEW i \in Calls', promise'[i].state = "pending"
        PROVE  \/ i = elem'
               \/ \E j \in 1 .. Len(external_order_queue') : external_order_queue'[j] = i
    <3>1. CASE i = Len(mode) + 1
      BY <2>2, <2>3, <3>1
    <3>2. CASE i \in Calls
      <4>1. promise[i].state = "pending"
        BY <2>1, <2>4, <3>2
      <4>2. CASE i = elem
        BY <1>2, <4>2
      <4>3. CASE \E j \in 1 .. Len(external_order_queue) : external_order_queue[j] = i
        BY <2>2, <2>3, <4>3
      <4> QED
        BY <3>2, <4>1, <4>2, <4>3 DEF PendingWaits
    <3> QED
      BY <2>1, <3>1, <3>2
  <2> QED
    BY <2>4 DEF PendingWaits
<1>3. ASSUME NEW t \in Threads, Get(t)
      PROVE  PendingWaits'
  <2>1. UNCHANGED <<external_order_queue, elem>>
    BY <1>3 DEF Get, queues, dispatching
  <2>2. Calls' = Calls /\ \A i \in Calls : promise'[i].state = promise[i].state
    BY <1>3, GetStep
  <2> QED
    BY <2>1, <2>2 DEF PendingWaits
<1>4. CASE Pop
  <2>1. /\ elem' = Head(external_order_queue) /\ external_order_queue # <<>>
        /\ external_order_queue' = Tail(external_order_queue)
        /\ UNCHANGED <<mode, promise>> /\ elem = Null
    BY <1>4 DEF Pop, DispatcherState
  <2>2. /\ Len(external_order_queue') = Len(external_order_queue) - 1
        /\ \A j \in 1 .. Len(external_order_queue) - 1 :
               external_order_queue'[j] = external_order_queue[j + 1]
        /\ elem' = external_order_queue[1]
        /\ Len(external_order_queue) \in Nat
    BY <1>0, <2>1
  <2>3. ASSUME NEW i \in Calls, promise[i].state = "pending"
        PROVE  \/ i = elem'
               \/ \E j \in 1 .. Len(external_order_queue') : external_order_queue'[j] = i
    <3>1. i # elem
      BY <1>0, <2>1 DEF Null
    <3>2. PICK j \in 1 .. Len(external_order_queue) : external_order_queue[j] = i
      BY <2>3, <3>1 DEF PendingWaits
    <3>3. CASE j = 1
      BY <2>2, <3>2, <3>3
    <3>4. CASE j # 1
      <4>1. /\ j - 1 \in 1 .. Len(external_order_queue) - 1
            /\ (j - 1) + 1 = j
        BY <2>2, <3>4
      <4>2. external_order_queue'[j - 1] = i /\ j - 1 \in 1 .. Len(external_order_queue')
        BY <2>2, <3>2, <4>1
      <4> QED
        BY <4>2
    <3> QED
      BY <3>3, <3>4
  <2> QED
    BY <2>1, <2>3 DEF PendingWaits, Calls
<1>5. CASE SetValue \/ SetException \/ LeaveLoop
  <2>1. UNCHANGED external_order_queue
    BY <1>5 DEF SetValue, SetException, LeaveLoop, queues
  <2>2. /\ Calls' = Calls
        /\ \A i \in Calls : promise'[i].state = "pending" =>
                             i # elem /\ promise[i].state = "pending"
    <3>1. CASE SetValue
      BY <3>1, ValueStep
    <3>2. CASE SetException
      BY <3>2, ExceptionStep
    <3>3. CASE LeaveLoop
      BY <3>3, LeaveStep
    <3> QED
      BY <1>5, <3>1, <3>2, <3>3
  <2> QED
    BY <2>1, <2>2 DEF PendingWaits
<1>6. CASE EmplaceNull
  <2>1. /\ UNCHANGED <<elem, mode, promise>>
        /\ external_order_queue' = Append(external_order_queue, Null)
    BY <1>6 DEF EmplaceNull, dispatching
  <2>2. /\ 1 .. Len(external_order_queue) \subseteq 1 .. Len(external_order_queue')
        /\ \A j \in 1 .. Len(external_order_queue) :
               external_order_queue'[j] = external_order_queue[j]
    BY <1>0, <2>1 DEF Null
  <2> QED
    BY <2>1, <2>2 DEF PendingWaits, Calls
<1>7. CASE EndDestroy
  <2>1. Calls' = Calls /\ \A i \in Calls : promise'[i].state # "pending"
    BY <1>7, DestroyStep
  <2> QED
    BY <2>1 DEF PendingWaits
<1>8. ASSUME NEW t \in Threads, SyncCall(t)
       PROVE  PendingWaits'
  BY <1>2, <1>8 DEF SyncCall, Modes, dispatching
<1>9. ASSUME NEW c \in Clients, AsyncCall(c)
       PROVE  PendingWaits'
  BY <1>2, <1>9 DEF AsyncCall, Modes, dispatching
<1>10. ASSUME NEW m \in Modes, Fire(m)
       PROVE  PendingWaits'
  BY <1>1, <1>10 DEF Fire
<1>11. CASE TakeBatch \/ EndCallback \/ TakeNull
  BY <1>1, <1>11 DEF TakeBatch, EndCallback, TakeNull, queues, dispatching
<1> QED
  BY <1>1, <1>3, <1>4, <1>5, <1>6, <1>7, <1>8, <1>9, <1>10, <1>11,
     StepKinds, Zenon

\* It holds in every run.
LEMMA PendingWaitsInvariant == Spec => []PendingWaits
<1>1. Init => PendingWaits
  BY DEF Init, PendingWaits, Calls
<1>2. IInv /\ PendingWaits /\ [Next]_vars => PendingWaits'
  BY PendingWaitsStep DEF IInv
<1> QED
  BY <1>1, <1>2, Invariance, PTL DEF Spec

(***************************************************************************)
(* ... then each step: which step of the service it is.                    *)
(***************************************************************************)

\* The calls without an answer are the popped one and those in the queue.
LEMMA Unanswered ==
    TypeOK => /\ UnansweredCalls \in Seq(Nat)
              /\ WithoutNull(external_order_queue) \in Seq(Nat)
              /\ elem = Null => UnansweredCalls = WithoutNull(external_order_queue)
              /\ elem # Null =>
                     /\ UnansweredCalls # <<>>
                     /\ Head(UnansweredCalls) = elem
                     /\ Tail(UnansweredCalls) = WithoutNull(external_order_queue)
<1> SUFFICES ASSUME TypeOK
             PROVE  /\ UnansweredCalls \in Seq(Nat)
                    /\ WithoutNull(external_order_queue) \in Seq(Nat)
                    /\ elem = Null => UnansweredCalls = WithoutNull(external_order_queue)
                    /\ elem # Null =>
                           /\ UnansweredCalls # <<>>
                           /\ Head(UnansweredCalls) = elem
                           /\ Tail(UnansweredCalls) = WithoutNull(external_order_queue)
  OBVIOUS
<1> DEFINE w == WithoutNull(external_order_queue)
<1>1. elem \in Nat /\ external_order_queue \in Seq(Nat) /\ <<elem>> \in Seq(Nat)
  BY Numbers
<1>2. w \in Seq(Nat)
  BY <1>1, ProperType
<1>3. UnansweredCalls = WithoutNull(<<elem>>) \o w
  BY <1>1, ProperConcat DEF UnansweredCalls
<1>4. WithoutNull(<<elem>>) = IF elem = Null THEN <<>> ELSE <<elem>>
  BY ProperOne
<1> HIDE DEF w
<1>5. <<>> \o w = w
  BY <1>2, ConcatEmptySeq
<1>6. /\ <<elem>> \o w \in Seq(Nat) /\ <<elem>> \o w # <<>>
      /\ Head(<<elem>> \o w) = elem /\ Tail(<<elem>> \o w) = w
  BY <1>1, <1>2
<1> QED
  BY <1>2, <1>3, <1>4, <1>5, <1>6 DEF w

\* The callbacks to be run are those of the batch and of the queue.
LEMMA Undelivered ==
    TypeOK => /\ UndeliveredCallbacks \in Seq(Nat)
              /\ WithoutNull(batch) \in Seq(Nat)
              /\ WithoutNull(callbacks_async) \in Seq(Nat)
              /\ UndeliveredCallbacks = WithoutNull(batch) \o WithoutNull(callbacks_async)
<1> SUFFICES ASSUME TypeOK
             PROVE  /\ UndeliveredCallbacks \in Seq(Nat)
                    /\ WithoutNull(batch) \in Seq(Nat)
                    /\ WithoutNull(callbacks_async) \in Seq(Nat)
                    /\ UndeliveredCallbacks =
                           WithoutNull(batch) \o WithoutNull(callbacks_async)
  OBVIOUS
<1>1. batch \in Seq(Nat) /\ callbacks_async \in Seq(Nat)
  BY Numbers
<1>2. WithoutNull(batch) \in Seq(Nat) /\ WithoutNull(callbacks_async) \in Seq(Nat)
  BY <1>1, ProperType
<1>3. UndeliveredCallbacks = WithoutNull(batch) \o WithoutNull(callbacks_async)
  BY <1>1, ProperConcat DEF UndeliveredCallbacks
<1> QED
  BY <1>2, <1>3, ConcatProperties

\* The answers are those of the promises.
LEMMA Given ==
    TypeOK => /\ AnswersGiven \in Seq({"pending", "value", "exception", "broken"})
              /\ Len(AnswersGiven) = Len(mode) /\ Calls = 1 .. Len(AnswersGiven)
              /\ \A i \in Calls : AnswersGiven[i] = promise[i].state
<1> SUFFICES ASSUME TypeOK
             PROVE  /\ AnswersGiven \in Seq({"pending", "value", "exception", "broken"})
                    /\ Len(AnswersGiven) = Len(mode) /\ Calls = 1 .. Len(AnswersGiven)
                    /\ \A i \in Calls : AnswersGiven[i] = promise[i].state
  OBVIOUS
<1> DEFINE States == {"pending", "value", "exception", "broken"}
<1>1. /\ promise \in Seq(Answer) /\ Len(promise) = Len(mode) /\ Len(mode) \in Nat
      /\ Calls = 1 .. Len(promise)
  BY Numbers
<1>2. \A i \in 1 .. Len(promise) : promise[i].state \in States
  <2>1. \A i \in 1 .. Len(promise) : promise[i] \in Answer
    BY <1>1, ElementOfSeq
  <2> QED
    BY <2>1 DEF Answer
<1> HIDE DEF States
<1>3. /\ AnswersGiven \in [1 .. Len(promise) -> States]
      /\ \A i \in 1 .. Len(promise) : AnswersGiven[i] = promise[i].state
  BY <1>2 DEF AnswersGiven
<1>4. AnswersGiven \in Seq(States) /\ Len(AnswersGiven) = Len(promise)
  BY <1>1, <1>3, FunIsSeq
<1> QED
  BY <1>1, <1>3, <1>4 DEF States

\* Answers are the same when every call's is.
LEMMA SameAnswers ==
    ASSUME TypeOK, TypeOK', Calls' = Calls,
           \A i \in Calls : promise'[i].state = promise[i].state
    PROVE  AnswersGiven' = AnswersGiven
<1>1. Calls = 1 .. Len(promise) /\ Calls' = 1 .. Len(promise')
  <2>1. TypeOK => Calls = 1 .. Len(promise)
    BY Numbers
  <2>2. (TypeOK => Calls = 1 .. Len(promise))'
    BY Numbers, PTL
  <2> QED
    BY <2>1, <2>2
<1>2. AnswersGiven' = [i \in Calls' |-> promise'[i].state]
  BY <1>1, Zenon DEF AnswersGiven
<1>3. AnswersGiven = [i \in Calls |-> promise[i].state]
  BY <1>1, Zenon DEF AnswersGiven
<1> QED
  BY <1>2, <1>3

\* What the service does in one step, or nothing.
ServiceStep ==
    Service!ServiceNext \/ UNCHANGED <<UnansweredCalls, AnswersGiven, UndeliveredCallbacks>>

\* A call that is made is submitted.
LEMMA PushImplements ==
    ASSUME TypeOK, TypeOK', NEW m \in Modes, PushExternalOrder(m),
           UNCHANGED <<log, elem, batch, callbacks_async>>
    PROVE  ServiceStep
<1> DEFINE n == Len(mode) + 1
<1>1. /\ elem \in Nat /\ external_order_queue \in Seq(Nat) /\ n \in Nat
      /\ n # Null
  BY Numbers DEF Null
<1>2. /\ Calls' = Calls \cup {n} /\ promise'[n] = Pending /\ Len(mode') = n
      /\ \A i \in Calls : promise'[i] = promise[i]
  BY PushStep
<1>3. external_order_queue' = Append(external_order_queue, n)
  BY DEF PushExternalOrder
<1>4. UnansweredCalls' = Append(UnansweredCalls, n)
  <2>1. <<elem>> \in Seq(Nat) /\ <<elem>> \o external_order_queue \in Seq(Nat)
    BY <1>1
  <2> HIDE DEF n
  <2>2. <<elem>> \o external_order_queue' = Append(<<elem>> \o external_order_queue, n)
    BY <1>1, <1>3, <2>1, AppendConcat
  <2>3. WithoutNull(Append(<<elem>> \o external_order_queue, n)) =
        Longer(WithoutNull(<<elem>> \o external_order_queue), n)
    BY <1>1, <2>1, ProperStep
  <2> QED
    BY <1>1, <2>2, <2>3 DEF UnansweredCalls, Longer
<1>5. UndeliveredCallbacks' = UndeliveredCallbacks
  BY DEF UndeliveredCallbacks
<1>6. AnswersGiven' = Append(AnswersGiven, "pending") /\ n = Len(AnswersGiven) + 1
  <2>1. /\ AnswersGiven \in Seq({"pending", "value", "exception", "broken"})
        /\ Len(AnswersGiven) = Len(mode) /\ Calls = 1 .. Len(AnswersGiven)
        /\ \A i \in Calls : AnswersGiven[i] = promise[i].state
    BY Given
  <2>2. /\ AnswersGiven' \in Seq({"pending", "value", "exception", "broken"})
        /\ Len(AnswersGiven') = n
        /\ \A i \in Calls' : AnswersGiven'[i] = promise'[i].state
    <3>1. (TypeOK => /\ AnswersGiven \in Seq({"pending", "value", "exception", "broken"})
                     /\ Len(AnswersGiven) = Len(mode)
                     /\ \A i \in Calls : AnswersGiven[i] = promise[i].state)'
      BY Given, PTL
    <3> QED
      BY <1>2, <3>1
  <2>3. /\ \A i \in Calls : AnswersGiven'[i] = AnswersGiven[i]
        /\ AnswersGiven'[n] = "pending"
    BY <1>2, <2>1, <2>2 DEF Pending
  <2> DEFINE b == Append(AnswersGiven, "pending")
  <2>4. /\ b \in Seq({"pending", "value", "exception", "broken"}) /\ Len(b) = n
        /\ \A i \in Calls : b[i] = AnswersGiven[i]
        /\ b[n] = "pending"
    BY <2>1, AppendProperties
  <2>5. 1 .. n = Calls \cup {n}
    BY <2>1
  <2> HIDE DEF b
  <2>6. AnswersGiven' = b
    <3>1. \A i \in 1 .. n : AnswersGiven'[i] = b[i]
      BY <2>3, <2>4, <2>5
    <3> HIDE DEF n
    <3> QED
      BY <2>2, <2>4, <3>1, SeqEqual
  <2> QED
    BY <2>1, <2>6 DEF b
<1>7. Service!Submit
  BY <1>4, <1>5, <1>6 DEF Service!Submit
<1> QED
  BY <1>7 DEF ServiceStep, Service!ServiceNext

\* The popped call gets its answer.
LEMMA AnswerImplements ==
    ASSUME TypeOK, TypeOK', NEW a \in {"value", "exception", "broken"},
           elem \in Calls, elem' = Null, Calls' = Calls,
           \A i \in Calls : promise'[i].state = IF i = elem THEN a ELSE promise[i].state,
           UNCHANGED external_order_queue,
           UndeliveredCallbacks' = UndeliveredCallbacks
    PROVE  ServiceStep
<1>1. elem # Null
  BY DEF Calls, Null
<1>2. /\ UnansweredCalls # <<>> /\ Head(UnansweredCalls) = elem
      /\ Tail(UnansweredCalls) = WithoutNull(external_order_queue)
  BY <1>1, Unanswered
<1>3. UnansweredCalls' = WithoutNull(external_order_queue)
  <2>1. (TypeOK => (elem = Null => UnansweredCalls = WithoutNull(external_order_queue)))'
    BY Unanswered, PTL
  <2>2. UnansweredCalls' = WithoutNull(external_order_queue')
    BY <2>1
  <2> QED
    BY <2>2
<1>4. AnswersGiven' = [AnswersGiven EXCEPT ![elem] = a]
  <2>1. /\ AnswersGiven = [i \in 1 .. Len(promise) |-> promise[i].state]
        /\ AnswersGiven' = [i \in 1 .. Len(promise') |-> promise'[i].state]
    BY DEF AnswersGiven
  <2>2. 1 .. Len(promise) = Calls /\ 1 .. Len(promise') = Calls
    <3>1. (TypeOK => Calls = 1 .. Len(promise))'
      BY Numbers, PTL
    <3> QED
      BY <3>1, Numbers
  <2> QED
    BY <2>1, <2>2
<1>5. Service!Answer
  BY <1>2, <1>3, <1>4 DEF Service!Answer, Service!Answers
<1> QED
  BY <1>5 DEF ServiceStep, Service!ServiceNext

\* The dispatcher pops a call, which goes on being the first without an answer.
LEMMA PopImplements ==
    ASSUME TypeOK, DispatcherState, Pop
    PROVE  ServiceStep
<1>1. /\ elem = Null /\ external_order_queue # <<>>
      /\ elem' = Head(external_order_queue)
      /\ external_order_queue' = Tail(external_order_queue)
      /\ UNCHANGED <<promise, batch, callbacks_async>>
  BY DEF Pop, DispatcherState, threads
<1>2. external_order_queue \in Seq(Nat)
  BY Numbers
<1>3. <<elem'>> \o external_order_queue' = external_order_queue
  <2>1. <<Head(external_order_queue)>> \o Tail(external_order_queue) = external_order_queue
    BY <1>1, <1>2
  <2> QED
    BY <1>1, <2>1
<1>4. UnansweredCalls' = WithoutNull(external_order_queue)
  BY <1>3 DEF UnansweredCalls
<1>5. UnansweredCalls = WithoutNull(external_order_queue)
  BY <1>1, Unanswered
<1> QED
  BY <1>1, <1>4, <1>5 DEF ServiceStep, AnswersGiven, UndeliveredCallbacks

\* A window produces an asynchronous callback, the last to be delivered.
LEMMA FireImplements ==
    ASSUME TypeOK, DispatcherState, NEW m \in Modes, Fire(m)
    PROVE  ServiceStep
<1> DEFINE n == Len(log) + 1
<1>1. UNCHANGED <<external_order_queue, elem, promise, batch>>
  BY DEF Fire, threads
<1>2. UNCHANGED <<UnansweredCalls, AnswersGiven>>
  BY <1>1 DEF UnansweredCalls, AnswersGiven
<1>3. CASE m = "sync"
  BY <1>1, <1>2, <1>3 DEF Fire, ServiceStep, UndeliveredCallbacks
<1>4. CASE m = "async"
  <2>1. callbacks_async' = Append(callbacks_async, n)
    BY <1>4 DEF Fire
  <2>2. /\ batch \in Seq(Nat) /\ callbacks_async \in Seq(Nat)
        /\ n \in Nat /\ n # Null
    <3>1. Len(log) \in Nat
      BY DEF TypeOK
    <3> QED
      BY <3>1, Numbers DEF Null
  <2>3. batch \o callbacks_async \in Seq(Nat)
    BY <2>2
  <2> HIDE DEF n
  <2>4. batch \o callbacks_async' = Append(batch \o callbacks_async, n)
    BY <2>1, <2>2, <2>3, AppendConcat
  <2>5. WithoutNull(Append(batch \o callbacks_async, n)) =
        Longer(WithoutNull(batch \o callbacks_async), n)
    BY <2>2, <2>3, ProperStep
  <2>6. UndeliveredCallbacks' = Append(UndeliveredCallbacks, n)
    BY <1>1, <2>2, <2>4, <2>5 DEF UndeliveredCallbacks, Longer
  <2>7. UndeliveredCallbacks \in Seq(Nat)
    BY Undelivered
  <2>8. /\ Len(Append(UndeliveredCallbacks, n)) = Len(UndeliveredCallbacks) + 1
        /\ SubSeq(Append(UndeliveredCallbacks, n), 1, Len(UndeliveredCallbacks)) =
               UndeliveredCallbacks
    BY <2>2, <2>7
  <2>9. UnansweredCalls # <<>>
    <3>1. elem # Null
      BY DEF Fire, DispatcherState, Calls, Null
    <3> QED
      BY <3>1, Unanswered
  <2>10. Service!Produce
    BY <1>2, <2>6, <2>8, <2>9 DEF Service!Produce
  <2> QED
    BY <2>10 DEF ServiceStep, Service!ServiceNext
<1> QED
  BY <1>3, <1>4 DEF Modes

\* The callback thread ends its first callback, which is the first to be delivered.
LEMMA EndCallbackImplements ==
    ASSUME TypeOK, TypeOK', BatchState, EndCallback
    PROVE  ServiceStep
<1>1. /\ batch # <<>> /\ Head(batch) # Null /\ batch' = Tail(batch)
      /\ UNCHANGED <<external_order_queue, elem, promise, callbacks_async>>
  BY DEF EndCallback, BatchState, queues, dispatching
<1>2. UNCHANGED <<UnansweredCalls, AnswersGiven>>
  BY <1>1 DEF UnansweredCalls, AnswersGiven
<1> DEFINE h == Head(batch)
           t == Tail(batch)
           w == WithoutNull(t)
           v == WithoutNull(callbacks_async)
<1>3. /\ h \in Nat /\ <<h>> \in Seq(Nat) /\ t \in Seq(Nat) /\ batch = <<h>> \o t
  <2>1. batch \in Seq(Nat)
    BY Numbers
  <2> QED
    BY <1>1, <2>1
<1>4. w \in Seq(Nat) /\ v \in Seq(Nat)
  <2>1. w \in Seq(Nat)
    <3> HIDE DEF t
    <3> QED
      BY <1>3, ProperType
  <2> QED
    BY <2>1, Undelivered
<1>5. WithoutNull(batch) = <<h>> \o w
  <2>1. WithoutNull(<<h>>) = <<h>>
    BY <1>1, ProperOne
  <2>2. WithoutNull(<<h>> \o t) = WithoutNull(<<h>>) \o WithoutNull(t)
    <3> HIDE DEF h, t
    <3> QED
      BY <1>3, ProperConcat
  <2> QED
    BY <1>3, <2>1, <2>2
<1>6. UndeliveredCallbacks = (<<h>> \o w) \o v
  BY <1>5, Undelivered
<1>7. UndeliveredCallbacks' = w \o v
  <2>1. (TypeOK => UndeliveredCallbacks = WithoutNull(batch) \o WithoutNull(callbacks_async))'
    BY Undelivered, PTL
  <2> QED
    BY <1>1, <2>1
<1>8. (<<h>> \o w) \o v # <<>> /\ Tail((<<h>> \o w) \o v) = w \o v
  <2> HIDE DEF h, w, v
  <2>1. (<<h>> \o w) \o v = <<h>> \o (w \o v) /\ w \o v \in Seq(Nat)
    BY <1>3, <1>4, ConcatAssociative, ConcatProperties
  <2>2. \A u \in Seq(Nat) : <<h>> \o u # <<>> /\ Tail(<<h>> \o u) = u
    BY <1>3
  <2> QED
    BY <2>1, <2>2
<1>9. Service!Deliver
  BY <1>2, <1>6, <1>7, <1>8 DEF Service!Deliver
<1> QED
  BY <1>9 DEF ServiceStep, Service!ServiceNext

\* A step that leaves calls and answers alone, and the callbacks but for Null.
LEMMA StutterImplements ==
    ASSUME TypeOK, BatchState, TakeBatch \/ TakeNull
    PROVE  ServiceStep
<1>1. UNCHANGED <<external_order_queue, elem, promise>>
  BY DEF TakeBatch, TakeNull, queues, dispatching
<1>2. UNCHANGED <<UnansweredCalls, AnswersGiven>>
  BY <1>1 DEF UnansweredCalls, AnswersGiven
<1>3. callbacks_async \in Seq(Nat) /\ batch \in Seq(Nat)
  BY Numbers
<1>4. CASE TakeBatch
  <2>1. batch = <<>> /\ batch' = callbacks_async /\ callbacks_async' = <<>>
    BY <1>4 DEF TakeBatch, BatchState
  <2>2. <<>> \o callbacks_async = callbacks_async /\ callbacks_async \o <<>> = callbacks_async
    BY <1>3, ConcatEmptySeq
  <2> QED
    BY <1>2, <2>1, <2>2 DEF ServiceStep, UndeliveredCallbacks
<1>5. CASE TakeNull
  <2>1. batch # <<>> /\ batch[1] = Null /\ batch' = <<>> /\ UNCHANGED callbacks_async
    BY <1>3, <1>5 DEF TakeNull, queues
  <2>2. Len(batch) = 1 /\ callbacks_async = <<>>
    <3>1. 1 \in 1 .. Len(batch)
      BY <1>3, <2>1
    <3> QED
      BY <2>1, <3>1 DEF BatchState
  <2>3. batch = <<Null>>
    BY <1>3, <2>1, <2>2
  <2>4. <<Null>> \o <<>> = <<Null>> /\ <<>> \o <<>> = <<>>
    OBVIOUS
  <2>5. WithoutNull(<<Null>>) = <<>>
    BY ProperOne
  <2> QED
    BY <1>2, <2>1, <2>2, <2>3, <2>4, <2>5, ProperEmpty
       DEF ServiceStep, UndeliveredCallbacks
<1> QED
  BY <1>4, <1>5

\* The dispatcher answers, or leaves its loop and breaks the call that it popped.
LEMMA AnswersImplement ==
    ASSUME TypeOK, TypeOK', DispatcherState, SetValue \/ SetException \/ LeaveLoop
    PROVE  ServiceStep
<1>1. CASE SetValue
  <2>1. /\ elem \in Calls /\ Calls' = Calls /\ elem' = Null
        /\ \A i \in Calls : promise'[i].state = IF i = elem THEN "value" ELSE promise[i].state
    BY <1>1, ValueStep DEF SetValue
  <2>2. UNCHANGED <<external_order_queue, UndeliveredCallbacks>>
    BY <1>1 DEF SetValue, queues, threads, UndeliveredCallbacks
  <2> QED
    BY <2>1, <2>2, AnswerImplements
<1>2. CASE SetException
  <2>1. /\ elem \in Calls /\ Calls' = Calls /\ elem' = Null
        /\ \A i \in Calls : promise'[i].state = IF i = elem THEN "exception" ELSE promise[i].state
    BY <1>2, ExceptionStep DEF SetException
  <2>2. UNCHANGED <<external_order_queue, UndeliveredCallbacks>>
    BY <1>2 DEF SetException, queues, threads, UndeliveredCallbacks
  <2> QED
    BY <2>1, <2>2, AnswerImplements
<1>3. CASE LeaveLoop
  <2>1. /\ Calls' = Calls /\ elem' = Null
        /\ \A i \in Calls : promise'[i].state = IF i = elem THEN "broken" ELSE promise[i].state
    BY <1>3, LeaveStep DEF LeaveLoop
  <2>2. UNCHANGED <<external_order_queue, UndeliveredCallbacks>>
    <3>1. UNCHANGED <<external_order_queue, batch>> /\ callbacks_async' = Append(callbacks_async, Null)
      BY <1>3 DEF LeaveLoop, threads
    <3>2. WithoutNull(batch \o Append(callbacks_async, Null)) = WithoutNull(batch \o callbacks_async)
      BY Numbers, ProperLastNull
    <3> QED
      BY <3>1, <3>2 DEF UndeliveredCallbacks
  <2>3. CASE elem \in Calls
    BY <2>1, <2>2, <2>3, AnswerImplements
  <2>4. CASE elem = Null
    <3>1. \A i \in Calls : i # elem
      BY <2>4 DEF Calls, Null
    <3>2. AnswersGiven' = AnswersGiven
      BY <2>1, <3>1, SameAnswers
    <3> QED
      BY <2>1, <2>2, <2>4, <3>2 DEF ServiceStep, UnansweredCalls
  <2> QED
    BY <2>3, <2>4 DEF TypeOK
<1> QED
  BY <1>1, <1>2, <1>3

\* The destructor sends Null, which is no call.
LEMMA EmplaceNullImplements ==
    ASSUME TypeOK, EmplaceNull
    PROVE  ServiceStep
<1>1. /\ UNCHANGED <<elem, promise, batch, callbacks_async>>
      /\ external_order_queue' = Append(external_order_queue, Null)
  BY DEF EmplaceNull, dispatching, threads
<1>2. WithoutNull(<<elem>> \o Append(external_order_queue, Null)) =
      WithoutNull(<<elem>> \o external_order_queue)
  <2>1. <<elem>> \in Seq(Nat) /\ external_order_queue \in Seq(Nat)
    BY Numbers
  <2> QED
    BY <2>1, ProperLastNull
<1> QED
  BY <1>1, <1>2 DEF ServiceStep, UnansweredCalls, AnswersGiven, UndeliveredCallbacks

\* The end of the destructor abandons the calls that are left.
LEMMA EndDestroyImplements ==
    ASSUME TypeOK, TypeOK', DispatcherState, PendingWaits, EndDestroy
    PROVE  ServiceStep
<1>1. /\ elem = Null /\ elem' = Null /\ external_order_queue' = <<>>
      /\ UNCHANGED UndeliveredCallbacks
  BY DEF EndDestroy, DispatcherState, dispatching, threads, UndeliveredCallbacks
<1>2. UnansweredCalls = WithoutNull(external_order_queue)
  BY <1>1, Unanswered
<1>3. UnansweredCalls' = <<>>
  <2>1. (TypeOK => (elem = Null => UnansweredCalls = WithoutNull(external_order_queue)))'
    BY Unanswered, PTL
  <2> QED
    BY <1>1, <2>1, ProperEmpty
<1>4. /\ Calls' = Calls
      /\ \A i \in Calls : promise'[i].state = IF promise[i].state = "pending"
                                              THEN "broken" ELSE promise[i].state
  BY DestroyStep
<1>5. CASE UnansweredCalls # <<>>
  <2>1. AnswersGiven' = [i \in 1 .. Len(AnswersGiven) |->
                            IF AnswersGiven[i] = "pending" THEN "broken"
                            ELSE AnswersGiven[i]]
    <3>1. AnswersGiven' = [i \in 1 .. Len(promise') |-> promise'[i].state]
      BY DEF AnswersGiven
    <3>2. Calls' = 1 .. Len(promise')
      <4>1. (TypeOK => Calls = 1 .. Len(promise))'
        BY Numbers, PTL
      <4> QED
        BY <4>1
    <3>3. Calls = 1 .. Len(AnswersGiven) /\ \A i \in Calls : AnswersGiven[i] = promise[i].state
      BY Given
    <3> QED
      BY <1>4, <3>1, <3>2, <3>3
  <2>2. Service!Abandon
    BY <1>1, <1>3, <1>5, <2>1 DEF Service!Abandon
  <2> QED
    BY <2>2 DEF ServiceStep, Service!ServiceNext
<1>6. CASE UnansweredCalls = <<>>
  <2>1. ASSUME NEW i \in Calls, promise[i].state = "pending"
        PROVE  FALSE
    <3>1. i # Null
      BY DEF Calls, Null
    <3>2. PICK j \in 1 .. Len(external_order_queue) : external_order_queue[j] = i
      BY <1>1, <2>1, <3>1 DEF PendingWaits
    <3>3. external_order_queue \in Seq(Nat)
      BY Numbers
    <3>4. WithoutNull(external_order_queue) # <<>>
      BY <3>1, <3>2, <3>3, ProperNotEmpty
    <3> QED
      BY <1>2, <1>6, <3>4
  <2>2. AnswersGiven' = AnswersGiven
    BY <1>4, <2>1, SameAnswers
  <2> QED
    BY <1>1, <1>3, <1>6, <2>2 DEF ServiceStep
<1> QED
  BY <1>5, <1>6

\* Every step of the threads is a step of the service, or none.
LEMMA StepsImplement ==
    ASSUME IInv, IInv', PendingWaits, [Next]_vars
    PROVE  ServiceStep
<1>1. /\ TypeOK /\ TypeOK' /\ DispatcherState /\ BatchState /\ Callers
  BY DEF IInv
<1>2. ASSUME UNCHANGED <<external_order_queue, elem, mode, promise, batch, callbacks_async>>
      PROVE  ServiceStep
  BY <1>2 DEF ServiceStep, UnansweredCalls, AnswersGiven, UndeliveredCallbacks
<1>3. ASSUME NEW t \in Threads, SyncCall(t)
      PROVE  ServiceStep
  <2>1. PushExternalOrder("sync") /\ UNCHANGED <<log, elem, batch, callbacks_async>>
    BY <1>3 DEF SyncCall, dispatching
  <2> QED
    BY <1>1, <2>1, PushImplements DEF Modes
<1>4. ASSUME NEW c \in Clients, AsyncCall(c)
      PROVE  ServiceStep
  <2>1. PushExternalOrder("async") /\ UNCHANGED <<log, elem, batch, callbacks_async>>
    BY <1>4 DEF AsyncCall, dispatching, threads
  <2> QED
    BY <1>1, <2>1, PushImplements DEF Modes
<1>5. ASSUME NEW t \in Threads, Get(t)
      PROVE  ServiceStep
  <2>1. AnswersGiven' = AnswersGiven
    BY <1>1, <1>5, GetStep, SameAnswers
  <2>2. UNCHANGED <<external_order_queue, elem, batch, callbacks_async>>
    BY <1>5 DEF Get, queues, dispatching
  <2> QED
    BY <2>1, <2>2 DEF ServiceStep, UnansweredCalls, UndeliveredCallbacks
<1>6. ASSUME NEW m \in Modes, Fire(m)
      PROVE  ServiceStep
  BY <1>1, <1>6, FireImplements
<1>7. CASE Pop
  BY <1>1, <1>7, PopImplements
<1>8. CASE SetValue \/ SetException \/ LeaveLoop
  BY <1>1, <1>8, AnswersImplement
<1>9. CASE TakeBatch \/ TakeNull
  BY <1>1, <1>9, StutterImplements
<1>10. CASE EndCallback
  BY <1>1, <1>10, EndCallbackImplements
<1>11. CASE EmplaceNull
  BY <1>1, <1>11, EmplaceNullImplements
<1>12. CASE EndDestroy
  BY <1>1, <1>12, EndDestroyImplements
<1> QED
  BY <1>2, <1>3, <1>4, <1>5, <1>6, <1>7, <1>8, <1>9, <1>10, <1>11, <1>12,
     StepKinds, Zenon

\* A book that nobody has called has answered nothing.
LEMMA InitImplementsService == Init => Service!ServiceInit
<1> SUFFICES ASSUME Init PROVE Service!ServiceInit
  OBVIOUS
<1>1. /\ elem = Null /\ external_order_queue = <<>> /\ promise = <<>>
      /\ batch = <<>> /\ callbacks_async = <<>>
  BY DEF Init
<1>2. <<Null>> \o <<>> = <<Null>> /\ <<>> \o <<>> = <<>>
  OBVIOUS
<1>3. WithoutNull(<<Null>>) = <<>> /\ WithoutNull(<<>>) = <<>>
  BY ProperOne, ProperEmpty
<1>4. [i \in 1 .. Len(<<>>) |-> <<>>[i].state] = <<>>
  <2>1. Len(<<>>) = 0 /\ 1 .. 0 = {}
    BY EmptySeq
  <2> QED
    BY <2>1
<1> QED
  BY <1>1, <1>2, <1>3, <1>4
     DEF Service!ServiceInit, UnansweredCalls, AnswersGiven, UndeliveredCallbacks

\* The threads do nothing that the service does not: calls are answered once
\* each and in the order in which they were made, also across the destructor,
\* and asynchronous callbacks run once each and in order across windows.
THEOREM ThreadsImplementService == Spec => Service!ServiceSafety
<1>1. IInv /\ IInv' /\ PendingWaits /\ [Next]_vars =>
          [Service!ServiceNext]_(Service!serviceVars)
  BY StepsImplement DEF ServiceStep, Service!serviceVars
<1> QED
  BY <1>1, InitImplementsService, Invariance, PendingWaitsInvariant, PTL
     DEF Spec, Service!ServiceSafety
=============================================================================
