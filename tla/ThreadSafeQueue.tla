--------------------------- MODULE ThreadSafeQueue ---------------------------
(***************************************************************************)
(* ThreadSafe_queue: a queue, a mutex and a condition variable. A2W_ and   *)
(* A2U_send_queue are such queues, with the threads that call push as      *)
(* producers and the one thread that sends as consumer; the class itself   *)
(* supports any number of either.                                          *)
(*                                                                         *)
(* A thread is outside the class ("idle"), waits for the mutex on behalf   *)
(* of an operation, or holds it (Holding). A consumer in cv.wait sleeps    *)
(* without the mutex until it is notified or wakes up spuriously, and then *)
(* waits for the mutex again.                                              *)
(***************************************************************************)
EXTENDS Naturals, Sequences, FiniteSets

CONSTANTS Producers, Consumers, Messages,
          NoMessage,  \* content of a variable that nothing was popped into
          MaxLen      \* bound: no push beyond this length, the code has none

ASSUME ThreadsAssumption == /\ IsFiniteSet(Consumers)
                            /\ Producers \cap Consumers = {}
ASSUME LenAssumption == MaxLen \in Nat

NoThread == "no thread"
ASSUME NoThreadAssumption == NoThread \notin Producers \cup Consumers

VARIABLES data_queue,
          mtx,      \* the thread that holds the mutex
          pc,
          msg,      \* per producer: newValue
          value     \* per consumer: what it popped last

vars == <<data_queue, mtx, pc, msg, value>>

Threads == Producers \cup Consumers

\* Where a thread waits for the mutex, and where it goes on when it has it.
AtMutex == {"want_push", "want_pop", "woken", "want_try"}
\* Mutant: the loop of wait_and_pop is an if.
AfterNoRetest(label) == CASE label = "want_push" -> "push"
                          [] label = "want_pop" -> "test"
                          [] label = "woken" -> "pop"
                          [] label = "want_try" -> "try"
After(label) == CASE label = "want_push" -> "push"
                  [] label \in {"want_pop", "woken"} -> "test"
                  [] label = "want_try" -> "try"
Holding == {"push", "test", "wait", "pop", "try"}
Labels  == AtMutex \cup Holding \cup {"idle", "asleep"}

Asleep == {c \in Consumers : pc[c] = "asleep"}

Init == /\ data_queue = <<>>
        /\ mtx = NoThread
        /\ pc = [t \in Threads |-> "idle"]
        /\ msg = [p \in Producers |-> NoMessage]
        /\ value = [c \in Consumers |-> NoMessage]

-----------------------------------------------------------------------------
\* The calls: the thread is at the mutex.
CallPush(p, m) == /\ pc[p] = "idle"
                  /\ Len(data_queue) < MaxLen
                  /\ pc' = [pc EXCEPT ![p] = "want_push"]
                  /\ msg' = [msg EXCEPT ![p] = m]
                  /\ UNCHANGED <<data_queue, mtx, value>>

Call(c, label) == /\ pc[c] = "idle"
                  /\ pc' = [pc EXCEPT ![c] = label]
                  /\ UNCHANGED <<data_queue, mtx, msg, value>>
CallWaitAndPop(c) == Call(c, "want_pop")
CallTryPop(c)     == Call(c, "want_try")

\* lock_guard, unique_lock, and the end of cv.wait.
Lock(t) == /\ pc[t] \in AtMutex
           /\ mtx = NoThread
           /\ mtx' = t
           /\ pc' = [pc EXCEPT ![t] = After(@)]
           /\ UNCHANGED <<data_queue, msg, value>>

\* Mutant: a consumer is notified only of the first message of the queue.
PushNotifyFirst(p) ==
  /\ pc[p] = "push"
  /\ data_queue' = Append(data_queue, msg[p])
  /\ mtx' = NoThread
  /\ \/ /\ Asleep = {} \/ data_queue # <<>>
        /\ pc' = [pc EXCEPT ![p] = "idle"]
     \/ /\ data_queue = <<>>
        /\ \E c \in Asleep : pc' = [pc EXCEPT ![p] = "idle", ![c] = "woken"]
  /\ UNCHANGED <<msg, value>>

\* Mutant: push notifies nobody.
PushSilently(p) == /\ pc[p] = "push"
                   /\ data_queue' = Append(data_queue, msg[p])
                   /\ mtx' = NoThread
                   /\ pc' = [pc EXCEPT ![p] = "idle"]
                   /\ UNCHANGED <<msg, value>>

\* push: notify_one wakes one sleeper, if there is one, with the mutex held.
Push(p) == /\ pc[p] = "push"
           /\ data_queue' = Append(data_queue, msg[p])
           /\ mtx' = NoThread
           /\ \/ Asleep = {} /\ pc' = [pc EXCEPT ![p] = "idle"]
              \/ \E c \in Asleep :
                   pc' = [pc EXCEPT ![p] = "idle", ![c] = "woken"]
           /\ UNCHANGED <<msg, value>>

\* Mutant: the mutex is released before the queue is tested.
TestUnlocked(c) == /\ pc[c] = "test"
                   /\ mtx' = NoThread
                   /\ pc' = [pc EXCEPT ![c] =
                                IF data_queue = <<>> THEN "wait" ELSE "pop"]
                   /\ UNCHANGED <<data_queue, msg, value>>

\* wait_and_pop: the condition of the loop ...
Test(c) == /\ pc[c] = "test"
           /\ pc' = [pc EXCEPT ![c] = IF data_queue = <<>> THEN "wait" ELSE "pop"]
           /\ UNCHANGED <<data_queue, mtx, msg, value>>

\* ... cv.wait, which releases the mutex and falls asleep in one step ...
Wait(c) == /\ pc[c] = "wait"
           /\ mtx' = NoThread
           /\ pc' = [pc EXCEPT ![c] = "asleep"]
           /\ UNCHANGED <<data_queue, msg, value>>

SpuriousWakeup(c) == /\ pc[c] = "asleep"
                     /\ pc' = [pc EXCEPT ![c] = "woken"]
                     /\ UNCHANGED <<data_queue, mtx, msg, value>>

\* Mutant: front without pop.
TakeFrontOnly(c) == /\ value' = [value EXCEPT ![c] = Head(data_queue)]
                    /\ UNCHANGED data_queue

\* ... and front and pop, after which the call returns. The two are undefined for
\* an empty queue: the caller gets no message.
TakeFront(c) ==
  \/ /\ data_queue # <<>>
     /\ value' = [value EXCEPT ![c] = Head(data_queue)]
     /\ data_queue' = Tail(data_queue)
  \/ /\ data_queue = <<>>
     /\ value' = [value EXCEPT ![c] = "undefined"]
     /\ UNCHANGED data_queue

Return(c) == /\ mtx' = NoThread
             /\ pc' = [pc EXCEPT ![c] = "idle"]
             /\ UNCHANGED msg

Pop(c) == pc[c] = "pop" /\ TakeFront(c) /\ Return(c)

TryPop(c) == /\ pc[c] = "try"
             /\ IF data_queue = <<>> THEN UNCHANGED <<data_queue, value>>
                                     ELSE TakeFront(c)
             /\ Return(c)

-----------------------------------------------------------------------------
ProducerStep(p) == Lock(p) \/ Push(p)
ConsumerStep(c) == \/ CallWaitAndPop(c) \/ Lock(c) \/ Test(c) \/ Wait(c)
                   \/ Pop(c) \/ TryPop(c)

Next == \/ \E p \in Producers : ProducerStep(p) \/ \E m \in Messages : CallPush(p, m)
        \/ \E c \in Consumers :
             ConsumerStep(c) \/ CallTryPop(c) \/ SpuriousWakeup(c)

Spec == Init /\ [][Next]_vars

\* A thread inside the class goes on, and gets the mutex if it is free again and
\* again (the producers sleep a second between two pushes); the sending thread
\* calls wait_and_pop again and again.
FairSpec == /\ Spec
            /\ \A p \in Producers : WF_vars(Push(p)) /\ SF_vars(Lock(p))
            /\ \A c \in Consumers : WF_vars(ConsumerStep(c)) /\ SF_vars(Lock(c))

-----------------------------------------------------------------------------
\* Every variable has a value of its type.
TypeOK == /\ data_queue \in Seq(Messages)
          /\ mtx \in Threads \cup {NoThread}
          /\ pc \in [Threads -> Labels]
          /\ msg \in [Producers -> Messages \cup {NoMessage}]
          /\ value \in [Consumers -> Messages \cup {NoMessage}]

\* The consumers that will look at the queue before they can fall asleep.
Awake == {c \in Consumers : pc[c] \in {"want_pop", "woken", "test", "pop"}}

\* No wake-up is lost: when a consumer sleeps in wait_and_pop, every message in
\* the queue has a consumer of its own that is on its way to it. notify_one wakes
\* one consumer only, and what it wakes has to compete for the mutex.
NoLostWakeup == Asleep # {} => Len(data_queue) <= Cardinality(Awake)

\* Between the test of the loop and front, and between the test and the moment
\* the consumer sleeps, no other thread gets to the queue.
TestStillHolds ==
  \A c \in Consumers : /\ pc[c] = "pop"  => data_queue # <<>>
                       /\ pc[c] = "wait" => data_queue = <<>>

\* To its users the class is a queue: in order, nothing lost, nothing twice.
Fifo == INSTANCE FifoQueue WITH queue <- data_queue
IsFifo == Fifo!Spec

\* "block current thread until it get an value": while a message is there, a
\* consumer comes to take one.
Served == data_queue # <<>> ~> \E c \in Consumers : pc[c] \in {"pop", "try"}
=============================================================================
