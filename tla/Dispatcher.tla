----------------------------- MODULE Dispatcher -----------------------------
(***************************************************************************)
(* The threads of an orderbook (src/orderbook/core.cpp): clients that call *)
(* it, the dispatcher thread that executes one order per window, the       *)
(* thread that runs asynchronous callbacks, and the destructor.            *)
(*                                                                         *)
(* What a window does to the book is left to Orderbook.  Here a window     *)
(* produces some callbacks, for orders that came in by a synchronous or by *)
(* an asynchronous call, and ends with a value or with an exception.       *)
(*                                                                         *)
(* An action is what a thread does under one lock.  A thread that waits on *)
(* a condition variable with a predicate, and is the only one to wait on   *)
(* it, is an action with that predicate as its guard; the waiters of       *)
(* wait_for_async_callbacks may be many, and are modelled with their       *)
(* wake-ups.                                                               *)
(***************************************************************************)
EXTENDS Naturals, Sequences, SequencesExt

CONSTANTS
    Clients,       \* threads of the program that uses the book
    AsyncThread,   \* the thread that runs asynchronous callbacks
    MaxCalls,      \* bound: calls made in a run
    MaxFires,      \* bound: callbacks produced by one window
    Ops,           \* what clients do
    CallbackCalls  \* TRUE: asynchronous callbacks call the book themselves

ASSUME ThreadsAssumption ==
    /\ AsyncThread \notin Clients
    /\ "nobody" \notin Clients \cup {AsyncThread}

ASSUME OpsAssumption ==
    /\ MaxCalls \in Nat
    /\ MaxFires \in Nat
    /\ Ops \subseteq {"sync", "async", "wait", "destroy"}
    /\ CallbackCalls \in BOOLEAN

VARIABLES
    external_order_queue,   \* calls not yet popped; Null from the destructor
    master_run_flag,
    callbacks_sync,         \* callbacks of windows that no one has taken yet
    callbacks_async,
    async_callbacks_done,
    mode,          \* call -> "sync" or "async", as it was made
    promise,       \* call -> its answer and the callbacks that come with it
    elem,          \* the call the dispatcher has popped
    dispatcher,    \* where the dispatcher thread is
    fires,         \* callbacks that the open window has produced
    copies,        \* callbacks to hand over with the answer
    pc,            \* where a client, or the callback thread, is
    call,          \* the call it waits for
    todo,          \* callbacks of its call that it still has to run
    batch,         \* callbacks that the callback thread has taken
    destructor,    \* where the destructor is
    log,           \* history: every callback, its window, who has run it
    wait_from      \* history: callbacks there were when a wait began

queues == <<external_order_queue, callbacks_sync, callbacks_async>>
dispatching == <<elem, dispatcher, fires, copies>>
threads == <<pc, call, todo, batch>>
vars == <<queues, master_run_flag, async_callbacks_done, mode, promise,
          dispatching, threads, destructor, log, wait_from>>

Modes == {"sync", "async"}
Threads == Clients \cup {AsyncThread}
Null == 0
Nobody == "nobody"
Pending == [state |-> "pending", callbacks |-> <<>>]

Init ==
    /\ external_order_queue = <<>>
    /\ master_run_flag = TRUE
    /\ callbacks_sync = <<>>
    /\ callbacks_async = <<>>
    /\ async_callbacks_done = TRUE
    /\ mode = <<>>
    /\ promise = <<>>
    /\ elem = Null
    /\ dispatcher = "sleep"
    /\ fires = 0
    /\ copies = <<>>
    /\ pc = [t \in Threads |-> IF t = AsyncThread THEN "sleep" ELSE "idle"]
    /\ call = [t \in Threads |-> Null]
    /\ todo = [t \in Threads |-> <<>>]
    /\ batch = <<>>
    /\ destructor = "none"
    /\ log = <<>>
    /\ wait_from = [c \in Clients |-> 0]

-----------------------------------------------------------------------------
(* Calls, from the thread of the caller. *)

\* _push_external_order
PushExternalOrder(m) ==
    /\ Len(mode) < MaxCalls
    /\ mode' = Append(mode, m)
    /\ promise' = Append(promise, Pending)
    /\ external_order_queue' = Append(external_order_queue, Len(mode) + 1)

\* Nobody calls a book that is being destroyed, except its own callbacks.
Alive == destructor = "none"

\* _push_external_order_sync, up to f.get().  A client calls when it has
\* nothing to do, a callback while it runs.
SyncCall(t) ==
    /\ \/ t \in Clients /\ pc[t] = "idle" /\ "sync" \in Ops /\ Alive
       \/ t = AsyncThread /\ pc[t] = "callback" /\ CallbackCalls
    /\ PushExternalOrder("sync")
    /\ call' = [call EXCEPT ![t] = Len(mode) + 1]
    /\ pc' = [pc EXCEPT ![t] = "get"]
    /\ UNCHANGED <<callbacks_sync, callbacks_async, master_run_flag,
                   async_callbacks_done, dispatching, todo, batch,
                   destructor, log, wait_from>>

\* where a thread goes on after a call
Resume(t) == IF t = AsyncThread THEN "callback" ELSE "idle"

\* f.get() returns with the callbacks to run, or throws
Get(t) ==
    /\ pc[t] = "get"
    /\ promise[call[t]].state # "pending"
    /\ IF promise[call[t]].state = "value"
       THEN /\ todo' = [todo EXCEPT ![t] = promise[call[t]].callbacks]
            /\ pc' = [pc EXCEPT ![t] = "run"]
            /\ promise' = [promise EXCEPT ![call[t]].callbacks = <<>>]
            /\ UNCHANGED call
       ELSE /\ pc' = [pc EXCEPT ![t] = Resume(t)]
            /\ call' = [call EXCEPT ![t] = Null]
            /\ UNCHANGED <<todo, promise>>
    /\ UNCHANGED <<queues, master_run_flag, async_callbacks_done, mode,
                   dispatching, batch, destructor, log, wait_from>>

RunSyncCallback(t) ==
    /\ pc[t] = "run"
    /\ todo[t] # <<>>
    /\ log' = [log EXCEPT ![Head(todo[t])].by = t]
    /\ todo' = [todo EXCEPT ![t] = Tail(@)]
    /\ UNCHANGED <<queues, master_run_flag, async_callbacks_done, mode,
                   promise, dispatching, pc, call, batch, destructor,
                   wait_from>>

Return(t) ==
    /\ pc[t] = "run"
    /\ todo[t] = <<>>
    /\ pc' = [pc EXCEPT ![t] = Resume(t)]
    /\ call' = [call EXCEPT ![t] = Null]
    /\ UNCHANGED <<queues, master_run_flag, async_callbacks_done, mode,
                   promise, dispatching, todo, batch, destructor, log,
                   wait_from>>

\* _push_external_order_async: the future is left with the caller
AsyncCall(c) ==
    /\ pc[c] = "idle"
    /\ "async" \in Ops
    /\ Alive
    /\ PushExternalOrder("async")
    /\ UNCHANGED <<callbacks_sync, callbacks_async, master_run_flag,
                   async_callbacks_done, dispatching, threads, destructor,
                   log, wait_from>>

-----------------------------------------------------------------------------
(* wait_for_async_callbacks *)

CallbacksDone == async_callbacks_done /\ callbacks_async = <<>>

\* the first test, when it fails: the client blocks on the condition
\* variable, in one step with the test because it holds the mutex
BeginWait(c) ==
    /\ pc[c] = "idle"
    /\ "wait" \in Ops
    /\ Alive
    /\ ~ CallbacksDone
    /\ pc' = [pc EXCEPT ![c] = "blocked"]
    /\ wait_from' = [wait_from EXCEPT ![c] = Len(log)]
    /\ UNCHANGED <<queues, master_run_flag, async_callbacks_done, mode,
                   promise, dispatching, call, todo, batch, destructor, log>>

\* a condition variable may wake a waiter without a notification
SpuriousWakeup(c) ==
    /\ pc[c] = "blocked"
    /\ pc' = [pc EXCEPT ![c] = "woken"]
    /\ UNCHANGED <<queues, master_run_flag, async_callbacks_done, mode,
                   promise, dispatching, call, todo, batch, destructor, log,
                   wait_from>>

CheckPredicate(c) ==
    /\ pc[c] = "woken"
    /\ pc' = [pc EXCEPT ![c] = IF CallbacksDone THEN "idle" ELSE "blocked"]
    /\ UNCHANGED <<queues, master_run_flag, async_callbacks_done, mode,
                   promise, dispatching, call, todo, batch, destructor, log,
                   wait_from>>

-----------------------------------------------------------------------------
(* _threaded_order_dispatcher *)

Pop ==
    /\ dispatcher = "sleep"
    /\ external_order_queue # <<>>
    /\ elem' = Head(external_order_queue)
    /\ external_order_queue' = Tail(external_order_queue)
    /\ dispatcher' = "popped"
    /\ UNCHANGED <<callbacks_sync, callbacks_async, master_run_flag,
                   async_callbacks_done, mode, promise, fires, copies,
                   threads, destructor, log, wait_from>>

OpenWindow ==
    /\ dispatcher = "popped"
    /\ master_run_flag
    /\ dispatcher' = "window"
    /\ fires' = 0
    /\ UNCHANGED <<queues, master_run_flag, async_callbacks_done, mode,
                   promise, elem, copies, threads, destructor, log, wait_from>>

\* the answer to a call that is destroyed with its promise
Broken(i) == [promise[i] EXCEPT !.state = "broken"]

\* break: the popped call is destroyed unexecuted, then the guard of the
\* callback thread sends it Null and joins it
LeaveLoop ==
    /\ dispatcher = "popped"
    /\ ~ master_run_flag
    /\ promise' = [i \in DOMAIN promise |->
                      IF i = elem THEN Broken(i) ELSE promise[i]]
    /\ elem' = Null
    /\ callbacks_async' = Append(callbacks_async, Null)
    /\ dispatcher' = "join"
    /\ UNCHANGED <<external_order_queue, callbacks_sync, master_run_flag,
                   async_callbacks_done, mode, fires, copies, threads,
                   destructor, log, wait_from>>

JoinAsyncThread ==
    /\ dispatcher = "join"
    /\ pc[AsyncThread] = "exit"
    /\ dispatcher' = "exit"
    /\ UNCHANGED <<queues, master_run_flag, async_callbacks_done, mode,
                   promise, elem, fires, copies, threads, destructor, log,
                   wait_from>>

-----------------------------------------------------------------------------
(* _dispatch_external_order *)

\* Mutant: a callback is queued for an order that has none.
FireWithoutCallback(m) ==
    /\ dispatcher = "window"
    /\ fires < MaxFires
    /\ \E i \in 1 .. Len(mode) :
           mode[i] = m /\ (i = elem \/ promise[i].state = "value")
    /\ fires' = fires + 1
    /\ log' = Append(log, [window |-> elem, mode |-> m, by |-> Nobody])
    /\ IF m = "sync"
       THEN /\ callbacks_sync' = Append(callbacks_sync, Null)
            /\ UNCHANGED callbacks_async
       ELSE /\ callbacks_async' = Append(callbacks_async, Null)
            /\ UNCHANGED callbacks_sync
    /\ UNCHANGED <<external_order_queue, master_run_flag,
                   async_callbacks_done, mode, promise, elem, dispatcher,
                   copies, threads, destructor, wait_from>>

\* _push_exec_callback: a callback goes by the way its ORDER came in, which
\* may have been in an earlier window than this
Fire(m) ==
    /\ dispatcher = "window"
    /\ fires < MaxFires
    /\ \E i \in 1 .. Len(mode) :
           mode[i] = m /\ (i = elem \/ promise[i].state = "value")
    /\ fires' = fires + 1
    /\ log' = Append(log, [window |-> elem, mode |-> m, by |-> Nobody])
    /\ IF m = "sync"
       THEN /\ callbacks_sync' = Append(callbacks_sync, Len(log) + 1)
            /\ UNCHANGED callbacks_async
       ELSE /\ callbacks_async' = Append(callbacks_async, Len(log) + 1)
            /\ UNCHANGED callbacks_sync
    /\ UNCHANGED <<external_order_queue, master_run_flag,
                   async_callbacks_done, mode, promise, elem, dispatcher,
                   copies, threads, destructor, wait_from>>

\* Mutant: the copied callbacks are not cleared.
CloseKeepingCallbacks ==
    /\ dispatcher = "window"
    /\ dispatcher' = "set_value"
    /\ IF mode[elem] = "sync"
       THEN copies' = callbacks_sync /\ UNCHANGED callbacks_sync
       ELSE UNCHANGED <<copies, callbacks_sync>>
    /\ UNCHANGED <<external_order_queue, callbacks_async, master_run_flag,
                   async_callbacks_done, mode, promise, elem, fires, threads,
                   destructor, log, wait_from>>

\* Mutant: one callback is taken, the others wait.
CloseTakingOne ==
    /\ dispatcher = "window"
    /\ dispatcher' = "set_value"
    /\ IF mode[elem] = "sync"
       THEN \/ callbacks_sync = <<>> /\ UNCHANGED <<copies, callbacks_sync>>
            \/ /\ callbacks_sync # <<>>
               /\ copies' = <<Head(callbacks_sync)>>
               /\ callbacks_sync' = Tail(callbacks_sync)
       ELSE UNCHANGED <<copies, callbacks_sync>>
    /\ UNCHANGED <<external_order_queue, callbacks_async, master_run_flag,
                   async_callbacks_done, mode, promise, elem, fires, threads,
                   destructor, log, wait_from>>

CloseWindow ==
    /\ dispatcher = "window"
    /\ dispatcher' = "set_value"
    /\ IF mode[elem] = "sync"
       THEN copies' = callbacks_sync /\ callbacks_sync' = <<>>
       ELSE UNCHANGED <<copies, callbacks_sync>>
    /\ UNCHANGED <<external_order_queue, callbacks_async, master_run_flag,
                   async_callbacks_done, mode, promise, elem, fires, threads,
                   destructor, log, wait_from>>

\* an exception leaves the window; what it has produced stays where it is
ThrowInWindow ==
    /\ dispatcher = "window"
    /\ dispatcher' = "set_exception"
    /\ UNCHANGED <<queues, master_run_flag, async_callbacks_done, mode,
                   promise, elem, fires, copies, threads, destructor, log,
                   wait_from>>

\* Mutant: the answer comes without the callbacks.
SetValueWithoutCopies ==
    /\ dispatcher = "set_value"
    /\ promise' = [promise EXCEPT ![elem] =
                      [state |-> "value", callbacks |-> <<>>]]
    /\ copies' = <<>>
    /\ elem' = Null
    /\ dispatcher' = "sleep"
    /\ UNCHANGED <<queues, master_run_flag, async_callbacks_done, mode, fires,
                   threads, destructor, log, wait_from>>

SetValue ==
    /\ dispatcher = "set_value"
    /\ promise' = [promise EXCEPT ![elem] =
                      [state |-> "value", callbacks |-> copies]]
    /\ copies' = <<>>
    /\ elem' = Null
    /\ dispatcher' = "sleep"
    /\ UNCHANGED <<queues, master_run_flag, async_callbacks_done, mode, fires,
                   threads, destructor, log, wait_from>>

\* Mutant: the handler forgets the promise.
SetNoException ==
    /\ dispatcher = "set_exception"
    /\ elem' = Null
    /\ dispatcher' = "sleep"
    /\ UNCHANGED <<queues, master_run_flag, async_callbacks_done, mode,
                   promise, fires, copies, threads, destructor, log, wait_from>>

SetException ==
    /\ dispatcher = "set_exception"
    /\ promise' = [promise EXCEPT ![elem].state = "exception"]
    /\ elem' = Null
    /\ dispatcher' = "sleep"
    /\ UNCHANGED <<queues, master_run_flag, async_callbacks_done, mode, fires,
                   copies, threads, destructor, log, wait_from>>

-----------------------------------------------------------------------------
(* _threaded_async_callback_executor *)

\* Mutant: the copied callbacks are not cleared.
TakeBatchKeepingQueue ==
    /\ pc[AsyncThread] = "sleep"
    /\ callbacks_async # <<>>
    /\ async_callbacks_done' = FALSE
    /\ batch' = callbacks_async
    /\ pc' = [pc EXCEPT ![AsyncThread] = "batch"]
    /\ UNCHANGED <<queues, master_run_flag, mode,
                   promise, dispatching, call, todo, destructor, log,
                   wait_from>>

\* Mutant: the flag still says done while the batch runs.
TakeBatchStayingDone ==
    /\ pc[AsyncThread] = "sleep"
    /\ callbacks_async # <<>>
    /\ UNCHANGED async_callbacks_done
    /\ batch' = callbacks_async
    /\ callbacks_async' = <<>>
    /\ pc' = [pc EXCEPT ![AsyncThread] = "batch"]
    /\ UNCHANGED <<external_order_queue, callbacks_sync, master_run_flag, mode,
                   promise, dispatching, call, todo, destructor, log,
                   wait_from>>

TakeBatch ==
    /\ pc[AsyncThread] = "sleep"
    /\ callbacks_async # <<>>
    /\ async_callbacks_done' = FALSE
    /\ batch' = callbacks_async
    /\ callbacks_async' = <<>>
    /\ pc' = [pc EXCEPT ![AsyncThread] = "batch"]
    /\ UNCHANGED <<external_order_queue, callbacks_sync, master_run_flag, mode,
                   promise, dispatching, call, todo, destructor, log,
                   wait_from>>

BeginCallback ==
    /\ pc[AsyncThread] = "batch"
    /\ batch # <<>>
    /\ Head(batch) # Null
    /\ pc' = [pc EXCEPT ![AsyncThread] = "callback"]
    /\ UNCHANGED <<queues, master_run_flag, async_callbacks_done, mode,
                   promise, dispatching, call, todo, batch, destructor, log,
                   wait_from>>

EndCallback ==
    /\ pc[AsyncThread] = "callback"
    /\ log' = [log EXCEPT ![Head(batch)].by = AsyncThread]
    /\ batch' = Tail(batch)
    /\ pc' = [pc EXCEPT ![AsyncThread] = "batch"]
    /\ UNCHANGED <<queues, master_run_flag, async_callbacks_done, mode,
                   promise, dispatching, call, todo, destructor, wait_from>>

\* _notify_async_callbacks_done, under the mutex
BatchDone ==
    /\ pc[AsyncThread] = "batch"
    /\ batch = <<>>
    /\ async_callbacks_done' = TRUE
    /\ pc' = [pc EXCEPT ![AsyncThread] = "notify"]
    /\ UNCHANGED <<queues, master_run_flag, mode, promise, dispatching, call,
                   todo, batch, destructor, log, wait_from>>

\* Null ends the thread; what is behind it in the batch is dropped
TakeNull ==
    /\ pc[AsyncThread] = "batch"
    /\ batch # <<>>
    /\ Head(batch) = Null
    /\ async_callbacks_done' = TRUE
    /\ batch' = <<>>
    /\ pc' = [pc EXCEPT ![AsyncThread] = "last_notify"]
    /\ UNCHANGED <<queues, master_run_flag, mode, promise, dispatching, call,
                   todo, destructor, log, wait_from>>

Blocked == {c \in Clients : pc[c] = "blocked"}

\* Mutant: nobody is notified.
NotifyNone ==
    /\ pc[AsyncThread] \in {"notify", "last_notify"}
    /\ LET next == IF pc[AsyncThread] = "notify" THEN "sleep" ELSE "exit"
       IN  pc' = [pc EXCEPT ![AsyncThread] = next]
    /\ UNCHANGED <<queues, master_run_flag, async_callbacks_done, mode,
                   promise, dispatching, call, todo, batch, destructor, log,
                   wait_from>>

\* notify_one: one of the waiters wakes up, if there is one
NotifyOne ==
    /\ pc[AsyncThread] \in {"notify", "last_notify"}
    /\ LET next == IF pc[AsyncThread] = "notify" THEN "sleep" ELSE "exit"
       IN  \/ /\ Blocked = {}
              /\ pc' = [pc EXCEPT ![AsyncThread] = next]
           \/ \E c \in Blocked :
                  pc' = [pc EXCEPT ![AsyncThread] = next, ![c] = "woken"]
    /\ UNCHANGED <<queues, master_run_flag, async_callbacks_done, mode,
                   promise, dispatching, call, todo, batch, destructor, log,
                   wait_from>>

-----------------------------------------------------------------------------
(* ~SimpleOrderbookBase *)

\* Mutant: the callback thread is told to end at once.
BeginDestroySignalling ==
    /\ destructor = "none"
    /\ "destroy" \in Ops
    /\ \A c \in Clients : pc[c] = "idle"
    /\ master_run_flag' = FALSE
    /\ destructor' = "flag"
    /\ callbacks_async' = Append(callbacks_async, Null)
    /\ UNCHANGED <<external_order_queue, callbacks_sync, async_callbacks_done,
                   mode, promise, dispatching, threads, log, wait_from>>

\* no client is inside a call of the book that it destroys; asynchronous
\* calls may still wait in the queue
BeginDestroy ==
    /\ destructor = "none"
    /\ "destroy" \in Ops
    /\ \A c \in Clients : pc[c] = "idle"
    /\ master_run_flag' = FALSE
    /\ destructor' = "flag"
    /\ UNCHANGED <<queues, async_callbacks_done, mode, promise, dispatching,
                   threads, log, wait_from>>

\* Mutant: the dispatcher thread is not woken up.
EmplaceNothing ==
    /\ destructor = "flag"
    /\ UNCHANGED external_order_queue
    /\ destructor' = "join"
    /\ UNCHANGED <<callbacks_sync, callbacks_async, master_run_flag,
                   async_callbacks_done, mode, promise, dispatching, threads,
                   log, wait_from>>

EmplaceNull ==
    /\ destructor = "flag"
    /\ external_order_queue' = Append(external_order_queue, Null)
    /\ destructor' = "join"
    /\ UNCHANGED <<callbacks_sync, callbacks_async, master_run_flag,
                   async_callbacks_done, mode, promise, dispatching, threads,
                   log, wait_from>>

\* the dispatcher thread is joined and the members are destroyed, with them
\* the promises of the calls that are still in the queue
EndDestroy ==
    /\ destructor = "join"
    /\ dispatcher = "exit"
    /\ external_order_queue' = <<>>
    /\ promise' = [i \in DOMAIN promise |->
                      IF promise[i].state = "pending" THEN Broken(i)
                      ELSE promise[i]]
    /\ destructor' = "done"
    /\ UNCHANGED <<callbacks_sync, callbacks_async, master_run_flag,
                   async_callbacks_done, mode, dispatching, threads, log,
                   wait_from>>

-----------------------------------------------------------------------------
Client(c) ==
    \/ SyncCall(c) \/ Get(c) \/ RunSyncCallback(c) \/ Return(c)
    \/ AsyncCall(c)
    \/ BeginWait(c) \/ SpuriousWakeup(c) \/ CheckPredicate(c)

DispatcherThread ==
    \/ Pop \/ OpenWindow \/ LeaveLoop \/ JoinAsyncThread
    \/ \E m \in Modes : Fire(m)
    \/ CloseWindow \/ ThrowInWindow \/ SetValue \/ SetException

CallbackThread ==
    \/ TakeBatch \/ BeginCallback \/ EndCallback \/ BatchDone
    \/ TakeNull \/ NotifyOne
    \/ SyncCall(AsyncThread) \/ Get(AsyncThread)
    \/ RunSyncCallback(AsyncThread) \/ Return(AsyncThread)

Destructor == BeginDestroy \/ EmplaceNull \/ EndDestroy

Next ==
    \/ \E c \in Clients : Client(c)
    \/ DispatcherThread
    \/ CallbackThread
    \/ Destructor

\* A thread that can run does; a callback and a window come to an end; a
\* client inside a call goes on, but no client has to make a call.
Fairness ==
    /\ WF_vars(DispatcherThread)
    /\ WF_vars(CallbackThread)
    /\ WF_vars(EmplaceNull \/ EndDestroy)
    /\ \A c \in Clients :
           WF_vars(Get(c) \/ RunSyncCallback(c) \/ Return(c)
                   \/ CheckPredicate(c))

Spec == Init /\ [][Next]_vars /\ Fairness

-----------------------------------------------------------------------------
(* Properties. *)

Calls == 1 .. Len(mode)
Callbacks == 1 .. Len(log)

\* Every variable has its type.
TypeOK ==
    /\ external_order_queue \in Seq(Calls \cup {Null})
    /\ master_run_flag \in BOOLEAN
    /\ callbacks_sync \in Seq(Callbacks)
    /\ callbacks_async \in Seq(Callbacks \cup {Null})
    /\ async_callbacks_done \in BOOLEAN
    /\ mode \in Seq(Modes)
    /\ promise \in Seq([state : {"pending", "value", "exception", "broken"},
                        callbacks : Seq(Callbacks)])
    /\ Len(promise) = Len(mode)
    /\ elem \in Calls \cup {Null}
    /\ dispatcher \in {"sleep", "popped", "window", "set_value",
                       "set_exception", "join", "exit"}
    /\ fires \in 0 .. MaxFires
    /\ copies \in Seq(Callbacks)
    /\ pc \in [Threads -> {"idle", "get", "run", "blocked", "woken", "sleep",
                           "batch", "callback", "notify", "last_notify",
                           "exit"}]
    /\ call \in [Threads -> Calls \cup {Null}]
    /\ todo \in [Threads -> Seq(Callbacks)]
    /\ batch \in Seq(Callbacks \cup {Null})
    /\ destructor \in {"none", "flag", "join", "done"}
    /\ log \in Seq([window : Calls, mode : Modes, by : Threads \cup {Nobody}])
    /\ wait_from \in [Clients -> Nat]

\* where callback n is waiting to be run
At(queue, n) == {j \in 1 .. Len(queue) : queue[j] = n}

Holders(n) ==
    UNION {{<<"callbacks_sync", 0>>} \X At(callbacks_sync, n),
           {<<"copies", 0>>} \X At(copies, n),
           {<<"callbacks_async", 0>>} \X At(callbacks_async, n),
           {<<"batch", 0>>} \X At(batch, n),
           UNION {{<<"promise", i>>} \X At(promise[i].callbacks, n) :
                      i \in Calls},
           UNION {{<<"todo", t>>} \X At(todo[t], n) : t \in Threads}}

\* A callback that has been run waits nowhere, and one that has not waits in
\* one place and one only: none is lost or run twice on its way through the
\* copies that the windows, the promises and the callback thread make.
CallbacksRunOnce ==
    \A n \in Callbacks :
        IF log[n].by = Nobody THEN \E h \in Holders(n) : Holders(n) = {h}
        ELSE Holders(n) = {}

\* A synchronous callback of a synchronous call that returns a value is run by
\* the thread that made the call, also when several threads make calls and when
\* the order is one that another thread sent: "Callbacks from orders inserted
\* previously will also be executed in the CURRENT calling thread".  Failed and
\* asynchronous windows are the subject of CallbacksRunAsDocumented.
CallersRunTheirCallbacks ==
    [][\A n \in Callbacks :
           LET w == log[n].window
           IN  /\ log[n].mode = "sync"
               /\ log'[n].by # log[n].by
               /\ mode[w] = "sync"
               /\ promise[w].state = "value"
               => call[log'[n].by] = w]_vars

\* call i has been made and its caller has gone on
HasEnded(i) ==
    /\ promise[i].state \in {"value", "exception"}
    /\ \A t \in Threads : call[t] # i

\* A synchronous call does not return before the synchronous callbacks of
\* its window have been run.
ReturnsAfterCallbacks ==
    \A n \in Callbacks :
        LET w == log[n].window
        IN  /\ log[n].mode = "sync"
            /\ mode[w] = "sync"
            /\ promise[w].state = "value"
            /\ HasEnded(w)
            => log[n].by \in Threads

\* The same of a call that ends with an exception: "ALL callbacks that
\* happen within the insertion window" are run "before the call returns, in
\* the thread of the caller".
FailedCallsRunCallbacksToo ==
    \A n \in Callbacks :
        LET w == log[n].window
        IN  log[n].mode = "sync" /\ mode[w] = "sync" /\ HasEnded(w)
            => log[n].by \in Threads

\* "ALL callbacks that happen within the insertion window" of an asynchronous
\* call go to the callback thread: none of them waits for a later caller.
AsyncWindowLeavesNoCallbacks ==
    \A j \in 1 .. Len(callbacks_sync) :
        LET w == log[callbacks_sync[j]].window
        IN  mode[w] = "async" => elem = w /\ dispatcher = "window"

\* What the comments on _push_external_order_sync and _async say of every
\* window, also of one that fails and of one whose order fills an order that
\* came in the other way: its callbacks are run on its account.
CallbacksRunAsDocumented ==
    FailedCallsRunCallbacksToo /\ AsyncWindowLeavesNoCallbacks

\* When a wait_for_async_callbacks that had to block returns, every asynchronous
\* callback that had been produced when it was called has run to its end.  (A
\* call that finds the flag set returns at once and has no step.)
WaitMeansDone ==
    [][\A c \in Clients : pc[c] = "woken" /\ pc'[c] = "idle" =>
           \A n \in 1 .. wait_from[c] :
               log[n].mode = "async" => log[n].by = AsyncThread]_vars

\* When the callback thread leaves, no callback is outstanding: the warning
\* "leaving AsyncCallbackThread with .. outstanding callbacks" never comes.
NothingOutstanding ==
    pc[AsyncThread] \in {"last_notify", "exit"} =>
        \A n \in Callbacks : log[n].mode = "async" => log[n].by = AsyncThread

\* Every synchronous call comes back, also one made by a callback.
CallsReturn ==
    \A t \in Threads : pc[t] = "get" ~> pc[t] = Resume(t)

\* A single thread in wait_for_async_callbacks comes back, whatever is still
\* queued and fires while it waits.  It is no law for several: notify_one wakes
\* one of them and nothing wakes the others.
WaitersReturn == \A c \in Clients : pc[c] = "blocked" ~> pc[c] = "idle"

\* The destructor ends and joins both threads.
DestructorReturns == destructor = "flag" ~> destructor = "done"

-----------------------------------------------------------------------------
(* The service that these threads implement. *)

\* The calls or callbacks in a queue, which may hold Null as well.
WithoutNull(queue) ==
    LET proper[k \in 0 .. Len(queue)] ==
            IF k = 0 THEN <<>>
            ELSE IF queue[k] = Null THEN proper[k - 1]
            ELSE Append(proper[k - 1], queue[k])
    IN  proper[Len(queue)]

UnansweredCalls == WithoutNull(<<elem>> \o external_order_queue)
AnswersGiven == [i \in 1 .. Len(promise) |-> promise[i].state]
UndeliveredCallbacks == WithoutNull(batch \o callbacks_async)

Service == INSTANCE OrderService WITH
    pending <- UnansweredCalls,
    answers <- AnswersGiven,
    undelivered <- UndeliveredCallbacks

\* Calls are answered once each and in order, asynchronous callbacks are run
\* once each and in order across windows, and both come to an end.
ImplementsOrderService == Service!ServiceSpec
=============================================================================
