--------------------------- MODULE SafeQueueProofs ---------------------------
(***************************************************************************)
(* SafeQueue is a first-in first-out queue for any number of threads.      *)
(*                                                                         *)
(* The mutex makes it one: only the thread that holds it is between taking *)
(* it and giving it up, so the element that a Pop has copied is still at   *)
(* the front when the Pop removes it.  That is the strengthening below.    *)
(***************************************************************************)
EXTENDS SafeQueue, SequenceTheorems, TLAPS

\* The places in which a thread holds the mutex.
Inside == {"push", "check", "sleep", "take", "remove"}

\* Exactly the thread that holds the mutex is inside.
MutexHeld == \A t \in Thread : pc[t] \in Inside <=> mutex = t

\* What a Pop has copied is at the front, and a Push has its element.
CopyAtFront ==
    /\ \A c \in Consumers : pc[c] = "remove" => queue # <<>> /\ element[c] = Head(queue)
    /\ \A p \in Producers : pc[p] = "push" => pushes[p] \in 1 .. MaxPushes

\* A producer is never in Pop, a consumer never in Push.
Places ==
    /\ \A p \in Producers : pc[p] \in {"idle", "push", "notify"}
    /\ \A c \in Consumers : pc[c] \notin {"push", "notify"}

IInv == TypeOK /\ MutexHeld /\ CopyAtFront /\ Places

-----------------------------------------------------------------------------
LEMMA InitIInv == Init => IInv
<1> SUFFICES ASSUME Init PROVE IInv
  OBVIOUS
<1> USE QueueAssumption DEF Init
<1>1. TypeOK
  BY DEF TypeOK, Thread, Element
<1>2. MutexHeld /\ CopyAtFront /\ Places
  BY DEF MutexHeld, CopyAtFront, Places, Thread, Inside
<1> QED
  BY <1>1, <1>2 DEF IInv

\* The step of a producer.
LEMMA ProducerStep ==
    ASSUME NEW p \in Producers, IInv, Producer(p)
    PROVE  IInv'
<1> USE QueueAssumption DEF IInv, Goto, Lock, Unlock, Thread, Inside
<1> p \in Thread /\ p # NoThread /\ p \notin Consumers
  BY DEF TypeOK
<1>1. CASE Push(p)
  <2>1. TypeOK'
    BY <1>1 DEF Push, TypeOK
  <2>2. MutexHeld'
    BY <1>1 DEF Push, TypeOK, MutexHeld
  <2>3. CopyAtFront'
    BY <1>1 DEF Push, TypeOK, CopyAtFront
  <2>4. Places'
    BY <1>1 DEF Push, TypeOK, Places
  <2> QED
    BY <2>1, <2>2, <2>3, <2>4
<1>2. CASE pushBack(p)
  <2>0. Value(p) \in Element
    BY <1>2 DEF pushBack, Value, Element, CopyAtFront
  <2>1. queue' \in Seq(Element)
    BY <1>2, <2>0 DEF pushBack, TypeOK
  <2>2. TypeOK'
    BY <1>2, <2>1 DEF pushBack, TypeOK
  <2>3. MutexHeld'
    BY <1>2 DEF pushBack, TypeOK, MutexHeld
  <2>4. CopyAtFront'
    <3>1. ASSUME NEW c \in Consumers PROVE pc'[c] # "remove"
      <4>1. pc[c] # "remove"
        BY <1>2, <3>1 DEF pushBack, TypeOK, MutexHeld
      <4> QED
        BY <1>2, <4>1 DEF pushBack, TypeOK
    <3> QED
      BY <1>2, <3>1 DEF pushBack, TypeOK, CopyAtFront
  <2>5. Places'
    BY <1>2 DEF pushBack, TypeOK, Places
  <2> QED
    BY <2>2, <2>3, <2>4, <2>5
<1>3. CASE notifyOne(p)
  <2>1. TypeOK'
    BY <1>3 DEF notifyOne, TypeOK
  <2>2. MutexHeld'
    BY <1>3 DEF notifyOne, TypeOK, MutexHeld
  <2>3. CopyAtFront'
    BY <1>3 DEF notifyOne, TypeOK, CopyAtFront
  <2>4. Places'
    BY <1>3 DEF notifyOne, TypeOK, Places
  <2> QED
    BY <2>1, <2>2, <2>3, <2>4
<1> QED
  BY <1>1, <1>2, <1>3 DEF Producer

\* The step of a consumer.
LEMMA ConsumerStep ==
    ASSUME NEW c \in Consumers, IInv, Consumer(c) \/ spuriousWake(c)
    PROVE  IInv'
<1> USE QueueAssumption DEF IInv, Goto, Lock, Unlock, Thread, Inside
<1> c \in Thread /\ c # NoThread /\ c \notin Producers
  BY DEF TypeOK
<1>1. CASE Pop(c)
  BY <1>1 DEF Pop, TypeOK, MutexHeld, CopyAtFront, Places
<1>2. CASE check(c)
  BY <1>2 DEF check, TypeOK, MutexHeld, CopyAtFront, Places
<1>3. CASE wait(c)
  BY <1>3 DEF wait, TypeOK, MutexHeld, CopyAtFront, Places
<1>4. CASE wake(c)
  BY <1>4 DEF wake, TypeOK, MutexHeld, CopyAtFront, Places
<1>5. CASE spuriousWake(c)
  BY <1>5 DEF spuriousWake, TypeOK, MutexHeld, CopyAtFront, Places
<1>6. CASE front(c)
  <2>0. Head(queue) \in Element
    BY <1>6, HeadTailProperties DEF front, TypeOK
  <2>1. TypeOK'
    BY <1>6, <2>0 DEF front, TypeOK
  <2>2. MutexHeld' /\ Places'
    BY <1>6 DEF front, TypeOK, MutexHeld, Places
  <2>3. CopyAtFront'
    BY <1>6 DEF front, TypeOK, CopyAtFront, Places
  <2> QED
    BY <2>1, <2>2, <2>3
<1>7. CASE popFront(c)
  <2>0. element[c] \in Element /\ SubSeq(queue, 2, Len(queue)) = Tail(queue)
    <3>1. queue \in Seq(Element) /\ queue # <<>> /\ element[c] = Head(queue)
      BY <1>7 DEF popFront, TypeOK, CopyAtFront
    <3> QED
      BY <3>1, HeadTailProperties
  <2>1. queue' \in Seq(Element) /\ popped' \in Seq(Element)
    <3>1. queue \in Seq(Element) /\ queue # <<>>
      BY <1>7 DEF popFront, TypeOK, CopyAtFront
    <3> QED
      BY <1>7, <2>0, <3>1, HeadTailProperties DEF popFront, TypeOK
  <2>2. TypeOK'
    BY <1>7, <2>1 DEF popFront, TypeOK
  <2>3. MutexHeld' /\ Places'
    BY <1>7 DEF popFront, TypeOK, MutexHeld, Places
  <2>4. ASSUME NEW d \in Consumers PROVE pc'[d] # "remove"
    <3>1. mutex = c /\ (pc[d] = "remove" => mutex = d)
      BY <1>7 DEF popFront, MutexHeld
    <3> QED
      BY <1>7, <3>1 DEF popFront, TypeOK
  <2>5. CopyAtFront'
    BY <1>7, <2>4 DEF popFront, TypeOK, CopyAtFront, Places
  <2> QED
    BY <2>2, <2>3, <2>5
<1>8. CASE throw(c)
  BY <1>8 DEF throw, TypeOK, MutexHeld, CopyAtFront, Places
<1> QED
  BY <1>1, <1>2, <1>3, <1>4, <1>5, <1>6, <1>7, <1>8 DEF Consumer

\* The step of the thread that releases the queue, and a stuttering step.
LEMMA OtherStep ==
    ASSUME IInv, Release \/ UNCHANGED vars
    PROVE  IInv'
BY DEF IInv, Release, store, notifyAll, vars, TypeOK, MutexHeld, CopyAtFront, Places

\* The mutex excludes: the strengthened invariant holds in every state.
THEOREM Invariance == Spec => []IInv
<1>1. IInv /\ [Next]_vars => IInv'
  BY ProducerStep, ConsumerStep, OtherStep DEF Next
<1> QED
  BY InitIInv, <1>1, PTL DEF Spec

\* Type correctness: every thread is where the code can be, and what is popped
\* was pushed.
THEOREM TypeCorrect == Spec => []TypeOK
<1>1. IInv => TypeOK
  BY DEF IInv
<1> QED
  BY Invariance, <1>1, PTL

-----------------------------------------------------------------------------
(* The refinement: pushBack, popFront and store are the steps of the queue, *)
(* every other step leaves it alone.                                        *)

LEMMA QueueInit == Init => Queue!Init
BY DEF Init, Queue!Init

LEMMA QueueStep ==
    ASSUME IInv, [Next]_vars
    PROVE  [Queue!Next]_<<queue, popped, ~ blockThreads>>
<1> DEFINE Same == UNCHANGED <<queue, popped, ~ blockThreads>>
<1>1. ASSUME NEW p \in Producers, pushBack(p) PROVE Queue!Next
  <2>1. Value(p) \in Element
    BY <1>1 DEF IInv, CopyAtFront, pushBack, Goto, Value, Element
  <2>2. Queue!Push(Value(p))
    BY <1>1 DEF pushBack, Queue!Push
  <2> QED
    BY <2>1, <2>2 DEF Queue!Next
<1>2. ASSUME NEW c \in Consumers, popFront(c) PROVE Queue!Next
  <2>1. queue \in Seq(Element) /\ queue # <<>> /\ element[c] = Head(queue)
    BY <1>2 DEF IInv, TypeOK, CopyAtFront, popFront, Goto
  <2>2. SubSeq(queue, 2, Len(queue)) = Tail(queue)
    BY <2>1, HeadTailProperties
  <2>3. Queue!Pop
    BY <1>2, <2>1, <2>2 DEF popFront, Queue!Pop
  <2> QED
    BY <2>3 DEF Queue!Next
<1>3. CASE store
  BY <1>3 DEF store, Queue!Next, Queue!Release
<1>4. ASSUME NEW p \in Producers, Push(p) \/ notifyOne(p) PROVE Same
  BY <1>4 DEF Push, notifyOne
<1>5. ASSUME NEW c \in Consumers,
             Pop(c) \/ check(c) \/ wait(c) \/ wake(c) \/ front(c) \/ throw(c) \/ spuriousWake(c)
      PROVE Same
  BY <1>5 DEF Pop, check, wait, wake, front, throw, spuriousWake
<1>6. CASE notifyAll \/ UNCHANGED vars
  BY <1>6 DEF notifyAll, vars
<1> QED
  BY <1>1, <1>2, <1>3, <1>4, <1>5, <1>6 DEF Next, Producer, Consumer, Release

\* SafeQueue implements the queue that the game loop and the server loop rely
\* on: what Pop returns is the front, and each element is returned once.
THEOREM QueueIsFifo == Spec => ImplementsFifo
<1>1. IInv /\ [Next]_vars => [Queue!Next]_<<queue, popped, ~ blockThreads>>
  BY QueueStep
<1> QED
  BY QueueInit, <1>1, Invariance, PTL DEF Spec, ImplementsFifo, Queue!Spec
=============================================================================
