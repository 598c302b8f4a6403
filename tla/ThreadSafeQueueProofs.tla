----------------------- MODULE ThreadSafeQueueProofs -----------------------
(***************************************************************************)
(* Proofs about ThreadSafe_queue for any number of producers, consumers    *)
(* and messages.                                                           *)
(***************************************************************************)
EXTENDS ThreadSafeQueue, FiniteSetTheorems, TLAPS

\* A thread inside a critical section holds the mutex, and only producers push,
\* with a message.
MutexInv ==
  /\ \A t \in Threads : pc[t] \in Holding => mtx = t
  /\ \A p \in Producers : /\ pc[p] \in {"idle", "want_push", "push"}
                          /\ pc[p] # "idle" => msg[p] \in Messages
  /\ \A c \in Consumers : pc[c] \notin {"want_push", "push"}

\* What a step relies on: no invariant alone is inductive.
IInv == TypeOK /\ MutexInv /\ TestStillHolds

USE ThreadsAssumption, NoThreadAssumption DEF Threads, Labels, AtMutex, Holding, After

\* The queue keeps its types, and what a consumer found in its test stays so until
\* it pops or sleeps.
LEMMA Inductive == IInv /\ [Next]_vars => IInv'
<1> SUFFICES ASSUME IInv, [Next]_vars PROVE IInv'
  OBVIOUS
<1> USE DEF IInv, TypeOK, MutexInv, TestStillHolds
<1>1. ASSUME NEW p \in Producers, NEW m \in Messages, CallPush(p, m) PROVE IInv'
  BY <1>1 DEF CallPush
<1>2. ASSUME NEW t \in Threads, Lock(t) PROVE IInv'
  BY <1>2 DEF Lock
<1>3. ASSUME NEW p \in Producers, Push(p) PROVE IInv'
  BY <1>3 DEF Push, Asleep
<1>4. ASSUME NEW c \in Consumers, CallWaitAndPop(c) \/ CallTryPop(c) PROVE IInv'
  BY <1>4 DEF CallWaitAndPop, CallTryPop, Call
<1>5. ASSUME NEW c \in Consumers, Test(c) PROVE IInv'
  BY <1>5 DEF Test
<1>6. ASSUME NEW c \in Consumers, Wait(c) PROVE IInv'
  BY <1>6 DEF Wait
<1>7. ASSUME NEW c \in Consumers, SpuriousWakeup(c) PROVE IInv'
  BY <1>7 DEF SpuriousWakeup
<1>8. ASSUME NEW c \in Consumers, Pop(c) PROVE IInv'
  <2>1. data_queue # <<>>
    BY <1>8 DEF Pop
  <2>2. Head(data_queue) \in Messages /\ Tail(data_queue) \in Seq(Messages)
    BY <2>1
  <2>3. /\ value' = [value EXCEPT ![c] = Head(data_queue)]
        /\ data_queue' = Tail(data_queue)
    BY <1>8, <2>1 DEF Pop, TakeFront
  <2>4. TypeOK'
    BY <1>8, <2>2, <2>3 DEF Pop, Return
  <2>5. MutexInv'
    BY <1>8 DEF Pop, Return
  <2>6. TestStillHolds'
    BY <1>8 DEF Pop, Return
  <2> QED
    BY <2>4, <2>5, <2>6
<1>9. ASSUME NEW c \in Consumers, TryPop(c) PROVE IInv'
  BY <1>9 DEF TryPop, TakeFront, Return
<1>10. CASE UNCHANGED vars
  BY <1>10 DEF vars
<1> QED
  BY <1>1, <1>2, <1>3, <1>4, <1>5, <1>6, <1>7, <1>8, <1>9, <1>10
     DEF Next, ProducerStep, ConsumerStep

LEMMA Initially == Init => IInv /\ NoLostWakeup
<1> SUFFICES ASSUME Init PROVE IInv /\ NoLostWakeup
  OBVIOUS
<1>1. IInv
  BY DEF Init, IInv, TypeOK, MutexInv, TestStillHolds
<1>2. Asleep = {}
  BY DEF Init, Asleep
<1> QED
  BY <1>1, <1>2 DEF NoLostWakeup

-----------------------------------------------------------------------------
(* No lost wake-up                                                         *)

LEMMA AwakeFinite == IsFiniteSet(Awake) /\ Cardinality(Awake) \in Nat
  BY FS_Subset, FS_CardinalityType DEF Awake

\* The count of the messages against the consumers that are on their way, through
\* every step: a consumer leaves Awake with a message, or to sleep when there is
\* none; a push adds a message and, if anyone sleeps, a consumer.
LEMMA WakeupStep == IInv /\ NoLostWakeup /\ [Next]_vars => NoLostWakeup'
<1> SUFFICES ASSUME IInv, NoLostWakeup, [Next]_vars, Asleep' # {}
             PROVE  Len(data_queue)' <= Cardinality(Awake)'
  BY DEF NoLostWakeup
<1> USE DEF IInv, TypeOK
<1> DEFINE n == Len(data_queue)
           k == Cardinality(Awake)
<1>0. /\ n \in Nat /\ k \in Nat /\ IsFiniteSet(Awake)
      /\ Asleep # {} => n <= k
  BY AwakeFinite DEF NoLostWakeup
<1>1. ASSUME NEW p \in Producers, NEW m \in Messages, CallPush(p, m)
      PROVE  n' <= k'
  <2>1. Awake' = Awake /\ Asleep' = Asleep
    BY <1>1 DEF CallPush, Awake, Asleep
  <2> QED
    BY <1>0, <1>1, <2>1 DEF CallPush
<1>2. ASSUME NEW t \in Threads, Lock(t) PROVE n' <= k'
  <2>1. Asleep' = Asleep
    BY <1>2 DEF Lock, Asleep
  <2>2. Awake' = Awake
    BY <1>2 DEF Lock, Awake, MutexInv
  <2> QED
    BY <1>0, <1>2, <2>1, <2>2 DEF Lock
<1>3. ASSUME NEW p \in Producers, Push(p) PROVE n' <= k'
  <2>1. n' = n + 1
    BY <1>3 DEF Push, MutexInv
  <2>2. PICK c \in Asleep : pc' = [pc EXCEPT ![p] = "idle", ![c] = "woken"]
    <3>1. CASE Asleep = {} /\ pc' = [pc EXCEPT ![p] = "idle"]
      <4>1. Asleep' = {}
        BY <3>1 DEF Asleep
      <4> QED
        BY <4>1
    <3> QED
      BY <1>3, <3>1 DEF Push
  <2>3. Awake' = Awake \cup {c} /\ c \notin Awake
    BY <1>3, <2>2 DEF Push, Awake, Asleep
  <2>4. k' = k + 1
    BY <1>0, <2>3, FS_AddElement
  <2>5. Asleep # {}
    BY <2>2
  <2> QED
    BY <1>0, <2>1, <2>4, <2>5
<1>4. ASSUME NEW c \in Consumers, CallWaitAndPop(c) PROVE n' <= k'
  <2>1. Asleep' = Asleep
    BY <1>4 DEF CallWaitAndPop, Call, Asleep
  <2>2. Awake' = Awake \cup {c} /\ c \notin Awake
    BY <1>4 DEF CallWaitAndPop, Call, Awake
  <2>3. k' = k + 1
    BY <1>0, <2>2, FS_AddElement
  <2>4. n' = n
    BY <1>4 DEF CallWaitAndPop, Call
  <2> QED
    BY <1>0, <2>1, <2>3, <2>4
<1>5. ASSUME NEW c \in Consumers, CallTryPop(c) PROVE n' <= k'
  <2>1. Awake' = Awake /\ Asleep' = Asleep
    BY <1>5 DEF CallTryPop, Call, Awake, Asleep
  <2> QED
    BY <1>0, <1>5, <2>1 DEF CallTryPop, Call
<1>6. ASSUME NEW c \in Consumers, Test(c) PROVE n' <= k'
  <2>1. Asleep' = Asleep /\ n' = n
    BY <1>6 DEF Test, Asleep
  <2>2. CASE data_queue = <<>>
    <3>1. Awake' = Awake \ {c}
      BY <1>6, <2>2 DEF Test, Awake
    <3>2. k' \in Nat
      BY <1>0, <3>1, FS_RemoveElement, FS_CardinalityType
    <3> QED
      BY <2>1, <2>2, <3>2
  <2>3. CASE data_queue # <<>>
    <3>1. Awake' = Awake
      BY <1>6, <2>3 DEF Test, Awake
    <3> QED
      BY <1>0, <2>1, <3>1
  <2> QED
    BY <2>2, <2>3
<1>7. ASSUME NEW c \in Consumers, Wait(c) PROVE n' <= k'
  <2>1. data_queue = <<>> /\ data_queue' = data_queue
    BY <1>7 DEF Wait, TestStillHolds
  <2>2. n' = 0
    BY <2>1
  <2>3. Awake' = Awake
    BY <1>7 DEF Wait, Awake
  <2> QED
    BY <1>0, <2>2, <2>3
<1>8. ASSUME NEW c \in Consumers, SpuriousWakeup(c) PROVE n' <= k'
  <2>1. Awake' = Awake \cup {c} /\ c \notin Awake /\ c \in Asleep
    BY <1>8 DEF SpuriousWakeup, Awake, Asleep
  <2>2. k' = k + 1
    BY <1>0, <2>1, FS_AddElement
  <2>3. n' = n
    BY <1>8 DEF SpuriousWakeup
  <2> QED
    BY <1>0, <2>1, <2>2, <2>3
<1>9. ASSUME NEW c \in Consumers, Pop(c) PROVE n' <= k'
  <2>1. Asleep' = Asleep
    BY <1>9 DEF Pop, Return, Asleep
  <2>2. Awake' = Awake \ {c} /\ c \in Awake
    BY <1>9 DEF Pop, Return, Awake
  <2>3. k' = k - 1
    BY <1>0, <2>2, FS_RemoveElement
  <2>4. data_queue # <<>> /\ data_queue' = Tail(data_queue)
    BY <1>9 DEF Pop, TakeFront, TestStillHolds
  <2>5. Len(Tail(data_queue)) = n - 1
    BY <2>4
  <2> QED
    BY <1>0, <2>1, <2>3, <2>4, <2>5
<1>10. ASSUME NEW c \in Consumers, TryPop(c) PROVE n' <= k'
  <2>1. Awake' = Awake /\ Asleep' = Asleep
    BY <1>10 DEF TryPop, Return, Awake, Asleep
  <2>2. \/ data_queue' = data_queue
        \/ data_queue # <<>> /\ data_queue' = Tail(data_queue)
    BY <1>10 DEF TryPop, TakeFront
  <2>3. data_queue # <<>> => Len(Tail(data_queue)) = n - 1
    OBVIOUS
  <2> QED
    BY <1>0, <2>1, <2>2, <2>3
<1>11. CASE UNCHANGED vars
  <2>1. Awake' = Awake /\ Asleep' = Asleep /\ n' = n
    BY <1>11 DEF vars, Awake, Asleep
  <2> QED
    BY <1>0, <2>1
<1> QED
  BY <1>1, <1>2, <1>3, <1>4, <1>5, <1>6, <1>7, <1>8, <1>9, <1>10, <1>11
     DEF Next, ProducerStep, ConsumerStep

-----------------------------------------------------------------------------
(* The class implements a queue                                            *)

LEMMA FifoStep == IInv /\ [Next]_vars => [Fifo!Next]_Fifo!fifoVars
<1> SUFFICES ASSUME IInv, [Next]_vars PROVE [Fifo!Next]_Fifo!fifoVars
  OBVIOUS
<1> USE DEF IInv, Fifo!Next, Fifo!fifoVars
<1>1. ASSUME NEW p \in Producers, Push(p) PROVE [Fifo!Next]_Fifo!fifoVars
  <2>1. msg[p] \in Messages
    BY <1>1 DEF Push, MutexInv
  <2>2. Fifo!Put(msg[p])
    BY <1>1 DEF Push, Fifo!Put
  <2> QED
    BY <2>1, <2>2
<1>2. ASSUME NEW c \in Consumers, Pop(c) PROVE [Fifo!Next]_Fifo!fifoVars
  <2>1. Fifo!Take(c)
    BY <1>2 DEF Pop, TakeFront, TestStillHolds, Fifo!Take
  <2> QED
    BY <2>1
<1>3. ASSUME NEW c \in Consumers, TryPop(c) PROVE [Fifo!Next]_Fifo!fifoVars
  <2>1. CASE data_queue = <<>>
    BY <1>3, <2>1 DEF TryPop
  <2>2. CASE data_queue # <<>>
    <3>1. Fifo!Take(c)
      BY <1>3, <2>2 DEF TryPop, TakeFront, Fifo!Take
    <3> QED
      BY <3>1
  <2> QED
    BY <2>1, <2>2
<1>4. CASE UNCHANGED <<data_queue, value>>
  BY <1>4
<1> QED
  BY <1>1, <1>2, <1>3, <1>4
     DEF Next, ProducerStep, ConsumerStep, CallPush, Call, CallWaitAndPop,
         CallTryPop, Lock, Test, Wait, SpuriousWakeup, vars

-----------------------------------------------------------------------------
\* For any number of threads: types hold, what the test of wait_and_pop finds
\* still holds when it is used, and no wake-up is lost.
THEOREM QueueSafe == Spec => [](TypeOK /\ TestStillHolds /\ NoLostWakeup)
<1>1. IInv /\ NoLostWakeup /\ [Next]_vars => (IInv /\ NoLostWakeup)'
  BY Inductive, WakeupStep
<1>2. IInv /\ NoLostWakeup => TypeOK /\ TestStillHolds /\ NoLostWakeup
  BY DEF IInv
<1> QED
  BY Initially, <1>1, <1>2, PTL DEF Spec

\* For any number of threads the variables keep their types.
THEOREM QueueTypes == Spec => []TypeOK
  BY QueueSafe, PTL

\* A pop never finds the queue empty that was not empty when it was tested, although
\* any number of consumers compete.
THEOREM TestTheorem == Spec => []TestStillHolds
  BY QueueSafe, PTL

\* For any number of threads the class is a first-in first-out queue: pushes and
\* pops take effect one at a time, and no message is lost, repeated or overtaken.
THEOREM QueueIsFifo == Spec => IsFifo
<1>1. Init => Fifo!Init
  BY DEF Init, Fifo!Init
<1> QED
  BY <1>1, Initially, Inductive, FifoStep, PTL DEF Spec, IsFifo, Fifo!Spec
=============================================================================
