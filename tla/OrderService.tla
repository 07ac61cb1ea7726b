---------------------------- MODULE OrderService ----------------------------
(***************************************************************************)
(* What the threads of an orderbook promise their callers: calls are       *)
(* answered one at a time in the order they were made, each exactly once,  *)
(* and every asynchronous callback is run exactly once, in the order the   *)
(* windows produced them.  Dispatcher is shown to implement this.          *)
(***************************************************************************)
EXTENDS Naturals, Sequences

VARIABLES
    pending,     \* the calls that wait for an answer, oldest first
    answers,     \* what became of each call
    undelivered  \* asynchronous callbacks that have not been run to the end

serviceVars == <<pending, answers, undelivered>>

Answers == {"value", "exception", "broken"}

ServiceInit ==
    /\ pending = <<>>
    /\ answers = <<>>
    /\ undelivered = <<>>

Submit ==
    /\ answers' = Append(answers, "pending")
    /\ pending' = Append(pending, Len(answers) + 1)
    /\ UNCHANGED undelivered

Answer ==
    /\ pending # <<>>
    /\ \E a \in Answers : answers' = [answers EXCEPT ![Head(pending)] = a]
    /\ pending' = Tail(pending)
    /\ UNCHANGED undelivered

\* the book is destroyed: what is left is never executed
Abandon ==
    /\ pending # <<>>
    /\ answers' = [i \in 1 .. Len(answers) |->
                      IF answers[i] = "pending" THEN "broken" ELSE answers[i]]
    /\ pending' = <<>>
    /\ UNCHANGED undelivered

\* callbacks come only from the window of the oldest call
Produce ==
    /\ pending # <<>>
    /\ Len(undelivered') = Len(undelivered) + 1
    /\ SubSeq(undelivered', 1, Len(undelivered)) = undelivered
    /\ UNCHANGED <<pending, answers>>

Deliver ==
    /\ undelivered # <<>>
    /\ undelivered' = Tail(undelivered)
    /\ UNCHANGED <<pending, answers>>

ServiceNext == Submit \/ Answer \/ Abandon \/ Produce \/ Deliver

\* what may happen ...
ServiceSafety == ServiceInit /\ [][ServiceNext]_serviceVars

\* ... and what must
ServiceSpec ==
    /\ ServiceSafety
    /\ WF_serviceVars(Answer \/ Abandon)
    /\ WF_serviceVars(Deliver)
=============================================================================
