----------------------------- MODULE PythonBook -----------------------------
(***************************************************************************)
(* The Python extension's use of a book (python/src/orderbook_py.cpp and   *)
(* callback_py.cpp): the interpreter lock and the book's _master_mtx, and  *)
(* the references that the copies of a callback hold on the Python object. *)
(*                                                                         *)
(* A method of the Python class gives the interpreter lock up around the   *)
(* native call (Py_BEGIN_ALLOW_THREADS).  Copies of a callback are made    *)
(* and destroyed in whatever thread the native code does it: each takes    *)
(* the interpreter lock for itself (PyGILState_Ensure), the dispatcher     *)
(* inside its window, so with _master_mtx held.  A book is reduced to the  *)
(* orders that rest in it, each known by its callback; Dispatcher and      *)
(* Orderbook have the rest.                                                *)
(***************************************************************************)
EXTENDS Integers, Sequences, FiniteSets, SequencesExt

CONSTANTS Threads,      \* Python threads
          Callbacks,    \* Python functions passed as callbacks, one an order
          Calls,        \* subset of {"trade", "pull", "replace", "query",
                        \*            "is_valid_price"}
          MaxCalls,     \* bound on the calls of all threads
          NoOne,        \* holds neither lock
          Worker        \* the book's dispatcher thread

ASSUME PythonAssumption ==
    /\ IsFiniteSet(Threads) /\ IsFiniteSet(Callbacks)
    /\ Calls \subseteq {"trade", "pull", "replace", "query", "is_valid_price"}
    /\ MaxCalls \in Nat
    /\ NoOne \notin Threads /\ Worker \notin Threads /\ Worker # NoOne

VARIABLES
    gil,        \* the thread that holds the interpreter lock
    master,     \* the thread that holds _master_mtx
    pc,         \* where each Python thread is
    ret,        \* where it goes on after the native call it is in
    arg,        \* the callback it passed, if any, which its frame refers to
    target,     \* the order it asks to be pulled, if any
    toRun,      \* the callbacks its call has to run, from the window's answer
    calls,      \* the calls made so far
    refs,       \* the reference count of each callback
    queue,      \* _order_queue
    dpc, cur,   \* the dispatcher, and the element it works on
    resting,    \* the callbacks of the orders in the book
    deferred    \* _callbacks_sync

frame == <<pc, ret, arg, target, toRun, calls>>
book  == <<queue, dpc, cur, resting, deferred>>
vars  == <<gil, master, frame, refs, book>>

Places == {"idle", "python", "sending", "waiting", "answered", "running",
           "wants_master", "reading", "wants_gil", "leaving"}

\* a callback or order that may be absent
OneOrNone == {{}} \cup {{c} : c \in Callbacks}

\* external_order_queue_elem: the callback of an order to insert, which a pull
\* has not, and the order to pull, which only a pull and a replace have
Elem == [from : Threads, cb : OneOrNone, pulls : OneOrNone]

TypeOK ==
    /\ gil \in Threads \cup {NoOne}
    /\ master \in Threads \cup {NoOne, Worker}
    /\ pc \in [Threads -> Places]
    /\ ret \in [Threads -> {"leaving", "running"}]
    /\ arg \in [Threads -> OneOrNone]
    /\ target \in [Threads -> OneOrNone]
    /\ toRun \in [Threads -> Seq(Callbacks)]
    /\ calls \in 0..MaxCalls
    /\ refs \in [Callbacks -> Nat]
    /\ queue \in Seq(Elem)
    /\ dpc \in {"idle", "pull", "pulled", "insert", "filled", "processed",
                "answering", "dropping"}
    /\ cur \in Seq(Elem)
    /\ resting \subseteq Callbacks
    /\ deferred \in Seq(Callbacks)

Init ==
    /\ gil = NoOne /\ master = NoOne
    /\ pc = [t \in Threads |-> "idle"]
    /\ ret = [t \in Threads |-> "leaving"]
    /\ arg = [t \in Threads |-> {}]
    /\ target = [t \in Threads |-> {}]
    /\ toRun = [t \in Threads |-> <<>>]
    /\ calls = 0
    /\ refs = [c \in Callbacks |-> 0]
    /\ queue = <<>> /\ dpc = "idle" /\ cur = <<>>
    /\ resting = {} /\ deferred = <<>>

-----------------------------------------------------------------------------
(* The callback object. *)

\* Mutant: the copy constructor copies the pointer only.
WrapWithoutRef(C) == refs

\* PyFuncWrap's constructors
Wrap(C) == [c \in Callbacks |-> IF c \in C THEN refs[c] + 1 ELSE refs[c]]

\* ~PyFuncWrap
Unwrap(C) == [c \in Callbacks |-> IF c \in C THEN refs[c] - 1 ELSE refs[c]]

-----------------------------------------------------------------------------
(* Python threads. *)

Goto(t, place) == pc' = [pc EXCEPT ![t] = place]

\* Python code that has the interpreter lock calls a method
Enter(t) ==
    /\ pc[t] = "idle" /\ gil = NoOne /\ calls < MaxCalls
    /\ gil' = t /\ Goto(t, "python") /\ calls' = calls + 1
    /\ UNCHANGED <<master, ret, arg, target, toRun, refs, book>>

\* the interpreter lock is given up before the callback is wrapped
BeginCall(t, C, D) ==
    /\ pc[t] = "python" /\ \A c \in C : refs[c] = 0
    /\ refs' = Wrap(C)
    /\ arg' = [arg EXCEPT ![t] = C]
    /\ target' = [target EXCEPT ![t] = D]
    /\ gil' = NoOne /\ Goto(t, "sending")
    /\ UNCHANGED <<master, ret, toRun, calls, book>>

\* SOB_trade_*, SOB_pull_order and SOB_replace_*; the order that is to go may
\* have been filled, or never have been there
Trade(t, c) == "trade" \in Calls /\ BeginCall(t, {c}, {})
PullOrder(t, d) == "pull" \in Calls /\ BeginCall(t, {}, {d})
ReplaceOrder(t, c, d) == "replace" \in Calls /\ c # d /\ BeginCall(t, {c}, {d})

\* wrap_cb, where there is a callback, and _push_external_order_sync, which
\* waits for the window
Send(t) ==
    /\ pc[t] = "sending"
    /\ arg[t] # {} => gil = NoOne
    /\ refs' = Wrap(arg[t])
    /\ queue' = Append(queue, [from |-> t, cb |-> arg[t], pulls |-> target[t]])
    /\ target' = [target EXCEPT ![t] = {}]
    /\ Goto(t, "waiting")
    /\ UNCHANGED <<gil, master, ret, arg, toRun, calls, dpc, cur, resting, deferred>>

\* ExecCallbackWrap::operator(), in the thread of the caller
StartCallback(t) ==
    /\ pc[t] = "answered" /\ toRun[t] # <<>> /\ gil = NoOne
    /\ gil' = t /\ Goto(t, "running")
    /\ UNCHANGED <<master, ret, arg, target, toRun, calls, refs, book>>

EndCallback(t) ==
    /\ pc[t] = "running"
    /\ refs' = Unwrap({Head(toRun[t])})
    /\ toRun' = [toRun EXCEPT ![t] = Tail(@)]
    /\ gil' = NoOne /\ Goto(t, "answered")
    /\ UNCHANGED <<master, ret, arg, target, calls, book>>

\* the native call returns to Py_END_ALLOW_THREADS
CallbacksDone(t) ==
    /\ pc[t] = "answered" /\ toRun[t] = <<>>
    /\ Goto(t, "wants_gil") /\ ret' = [ret EXCEPT ![t] = "leaving"]
    /\ UNCHANGED <<gil, master, arg, target, toRun, calls, refs, book>>

\* A method that reads the book, from Python code or from a callback; in a
\* callback it is one more call
ReadBook(t, lock) ==
    /\ \/ pc[t] = "python" /\ ret' = [ret EXCEPT ![t] = "leaving"] /\ calls' = calls
       \/ pc[t] = "running" /\ ret' = [ret EXCEPT ![t] = "running"]
          /\ calls < MaxCalls /\ calls' = calls + 1
    /\ gil' = lock /\ Goto(t, "wants_master")
    /\ UNCHANGED <<master, arg, target, toRun, refs, book>>

\* Mutant: the interpreter lock is kept, as SOB_is_valid_price does.
QueryKeepingLock(t) == "query" \in Calls /\ ReadBook(t, t)

\* CALLDOWN_FOR_STATE, CALLDOWN_TO_DUMP, get_order_info, market_depth, ...
Query(t) == "query" \in Calls /\ ReadBook(t, NoOne)

LockMaster(t) ==
    /\ pc[t] = "wants_master" /\ master = NoOne
    /\ master' = t /\ Goto(t, "reading")
    /\ UNCHANGED <<gil, ret, arg, target, toRun, calls, refs, book>>

UnlockMaster(t) ==
    /\ pc[t] = "reading"
    /\ master' = NoOne
    /\ Goto(t, IF gil = t THEN ret[t] ELSE "wants_gil")
    /\ UNCHANGED <<gil, ret, arg, target, toRun, calls, refs, book>>

\* Py_END_ALLOW_THREADS
TakeGil(t) ==
    /\ pc[t] = "wants_gil" /\ gil = NoOne
    /\ gil' = t /\ Goto(t, ret[t])
    /\ UNCHANGED <<master, ret, arg, target, toRun, calls, refs, book>>

\* the method returns, and the caller's reference to its argument goes
Leave(t) ==
    /\ pc[t] = "leaving"
    /\ refs' = Unwrap(arg[t])
    /\ arg' = [arg EXCEPT ![t] = {}]
    /\ gil' = NoOne /\ Goto(t, "idle")
    /\ UNCHANGED <<master, ret, target, toRun, calls, book>>

-----------------------------------------------------------------------------
(* The dispatcher. *)

OpenWindow ==
    /\ dpc = "idle" /\ queue # <<>> /\ master = NoOne
    /\ master' = Worker
    /\ dpc' = IF Head(queue).pulls = {} THEN "insert" ELSE "pull"
    /\ cur' = <<Head(queue)>> /\ queue' = Tail(queue)
    /\ UNCHANGED <<gil, frame, refs, resting, deferred>>

\* _pull_order: the order is popped off its chain, and a copy of its callback
\* waits to be called with the cancel
PopOrder ==
    /\ dpc = "pull" /\ gil = NoOne
    /\ cur[1].pulls \subseteq resting
    /\ refs' = Wrap(cur[1].pulls)
    /\ \E d \in cur[1].pulls : deferred' = <<d>>
    /\ dpc' = "pulled"
    /\ UNCHANGED <<gil, master, frame, queue, cur, resting>>

\* its bundle goes out of scope; a replace goes on to insert
DropPopped ==
    /\ dpc = "pulled" /\ gil = NoOne
    /\ refs' = Unwrap(cur[1].pulls)
    /\ resting' = resting \ cur[1].pulls
    /\ dpc' = IF cur[1].cb = {} THEN "processed" ELSE "insert"
    /\ UNCHANGED <<gil, master, frame, queue, cur, deferred>>

\* OrderNotInCache: the answer is false or 0, and a replace inserts nothing
NothingToPull ==
    /\ dpc = "pull"
    /\ ~ cur[1].pulls \subseteq resting
    /\ dpc' = "processed"
    /\ UNCHANGED <<gil, master, frame, refs, queue, cur, resting, deferred>>

\* the order rests: the bundle in its chain has a copy of the callback
Rest ==
    /\ dpc = "insert" /\ gil = NoOne
    /\ refs' = Wrap(cur[1].cb)
    /\ resting' = resting \cup cur[1].cb
    /\ dpc' = "processed"
    /\ UNCHANGED <<gil, master, frame, queue, cur, deferred>>

\* The order fills one that rests: _push_exec_callback copies the callbacks of
\* both.  The step stands for the several copies made one after the other.
Fill(c) ==
    /\ dpc = "insert" /\ gil = NoOne
    /\ c \in resting
    /\ refs' = Wrap({c} \cup cur[1].cb)
    /\ \E e \in cur[1].cb : deferred' = deferred \o <<e, c>>
    /\ dpc' = "filled"
    /\ UNCHANGED <<gil, master, frame, queue, cur, resting>>

\* the bundle that was filled is erased from its chain
EraseFilled ==
    /\ dpc = "filled" /\ gil = NoOne
    /\ refs' = Unwrap({Last(deferred)})
    /\ resting' = resting \ {Last(deferred)}
    /\ dpc' = "processed"
    /\ UNCHANGED <<gil, master, frame, queue, cur, deferred>>

\* the callbacks of the window, if there are any, are copied and the originals
\* destroyed, before _master_mtx is given back
CloseWindow ==
    /\ dpc = "processed"
    /\ deferred # <<>> => gil = NoOne
    /\ master' = NoOne /\ dpc' = "answering"
    /\ UNCHANGED <<gil, frame, refs, queue, cur, resting, deferred>>

\* the promise gets its value, and a copy of the callbacks of the window
Answer ==
    /\ dpc = "answering"
    /\ deferred # <<>> => gil = NoOne
    /\ LET t == cur[1].from
       IN  /\ toRun' = [toRun EXCEPT ![t] = deferred]
           /\ Goto(t, "answered")
    /\ deferred' = <<>> /\ dpc' = "dropping"
    /\ UNCHANGED <<gil, master, ret, arg, target, calls, refs, queue, cur, resting>>

\* the queue element goes out of scope, with the callback it may have
DropElement ==
    /\ dpc = "dropping"
    /\ cur[1].cb # {} => gil = NoOne
    /\ refs' = Unwrap(cur[1].cb)
    /\ cur' = <<>> /\ dpc' = "idle"
    /\ UNCHANGED <<gil, master, frame, queue, resting, deferred>>

-----------------------------------------------------------------------------

DispatcherStep ==
    \/ OpenWindow \/ PopOrder \/ DropPopped \/ NothingToPull
    \/ Rest
    \/ \E c \in Callbacks : Fill(c)
    \/ EraseFilled
    \/ CloseWindow \/ Answer \/ DropElement

ThreadStep(t) ==
    \/ \E c \in Callbacks : Trade(t, c) \/ PullOrder(t, c)
    \/ \E c, d \in Callbacks : ReplaceOrder(t, c, d)
    \/ Send(t) \/ StartCallback(t) \/ EndCallback(t) \/ CallbacksDone(t)
    \/ Query(t)
    \/ LockMaster(t) \/ UnlockMaster(t) \/ TakeGil(t) \/ Leave(t)

Next == DispatcherStep \/ \E t \in Threads : Enter(t) \/ ThreadStep(t)

\* A thread that has what it needs goes on; nobody has to make a call.
Fairness == WF_vars(DispatcherStep) /\ \A t \in Threads : WF_vars(ThreadStep(t))

Spec == Init /\ [][Next]_vars /\ Fairness

\* SOB_is_valid_price and SOB_ticks_in_range ask the book, which takes
\* _master_mtx, without giving the interpreter lock up
IsValidPrice(t) == "is_valid_price" \in Calls /\ ReadBook(t, t)

KeepingSpec ==
    /\ Init
    /\ [][Next \/ \E t \in Threads : IsValidPrice(t)]_vars
    /\ WF_vars(DispatcherStep)
    /\ \A t \in Threads : WF_vars(ThreadStep(t) \/ IsValidPrice(t))

-----------------------------------------------------------------------------
(* Properties. *)

\* The places of a callback in a sequence
At(c, s) == {i \in DOMAIN s : s[i] = c}

\* The places of the elements that have it, in a sequence of queue elements
ElemsWith(c, s) == {i \in DOMAIN s : c \in s[i].cb}

\* 1 for a member of a set, 0 for the others
In(c, S) == IF c \in S THEN 1 ELSE 0

\* The threads whose frame refers to a callback
Frames(c, a) == {t \in Threads : c \in a[t]}

\* The places of a callback in one sequence a thread
RunPlaces(c, r) == UNION {{t} \X At(c, r[t]) : t \in Threads}

\* The holders of a callback: frames of Python threads, the queue, the element
\* the dispatcher works on, the book, and the callbacks that wait for the end
\* of the window or, afterwards, in the thread that has to run them
InFrames(c)  == Cardinality(Frames(c, arg))
InQueue(c)   == Cardinality(ElemsWith(c, queue))
InWork(c)    == Cardinality(ElemsWith(c, cur))
InBook(c)    == In(c, resting)
IsDeferred(c) == Cardinality(At(c, deferred))
IsToRun(c)   == Cardinality(RunPlaces(c, toRun))

\* The reference count of a callback is the number of its holders.  So an
\* object is alive when the thread that happens to fill or pull its order calls
\* it, long after the call that passed it returned, and it is not kept for ever.
RefsCountHolders ==
    \A c \in Callbacks :
        refs[c] = InFrames(c) + InQueue(c) + InWork(c) + InBook(c)
                  + IsDeferred(c) + IsToRun(c)

\* Every call of a method returns, one that waits for a window with a pull in it
\* as well: no cycle of threads waits for the interpreter lock, _master_mtx and
\* the dispatcher's answer.
CallsReturn == \A t \in Threads : pc[t] # "idle" ~> pc[t] = "idle"

\* Every window that is opened is closed.
WindowsClose == master = Worker ~> master # Worker
=============================================================================
