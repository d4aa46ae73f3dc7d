------------------------------ MODULE SafeQueue ------------------------------
(***************************************************************************)
(* SafeQueue, the blocking queue of the game loop and of the server loop   *)
(* (one class, present twice): a mutex, a condition variable and a flag.   *)
(*                                                                         *)
(* The wait of Pop is taken apart: the predicate is evaluated with the     *)
(* mutex held; if it is false the thread joins the waiting threads and     *)
(* gives the mutex up in one step.  A notification reaches only a thread   *)
(* that waits already.  A consumer calls Pop again and again until it      *)
(* throws, as the loops that use the queue do.                             *)
(***************************************************************************)
EXTENDS Integers, FiniteSets, Sequences

CONSTANTS
    Producers,      \* Threads that push.
    Consumers,      \* Threads that pop.
    NoThread,       \* Holds the mutex when no thread does.
    MaxPushes       \* Bound: elements pushed by one producer.

ASSUME QueueAssumption ==
    /\ Producers \cap Consumers = {}
    /\ NoThread \notin Producers \cup Consumers
    /\ MaxPushes \in Nat

VARIABLES
    queue,          \* m_queue
    mutex,          \* The thread that holds m_mutex.
    blockThreads,   \* m_blockThreads
    waiting,        \* The threads that wait on m_condition.
    pushes,         \* Calls of Push begun by each producer.
    pc,             \* Where each thread is.
    element,        \* The local variable of each Pop.
    releasePc,      \* Where the thread that calls Release is.
    popped          \* What the calls of Pop returned.

vars == <<queue, mutex, blockThreads, waiting, pushes, pc, element, releasePc, popped>>

Thread == Producers \cup Consumers

\* The elements are told apart by who pushed them and when.
Element == Producers \X (1 .. MaxPushes)

Value(p) == <<p, pushes[p]>>

-----------------------------------------------------------------------------
TypeOK ==
    /\ queue \in Seq(Element)
    /\ mutex \in Thread \cup {NoThread}
    /\ blockThreads \in BOOLEAN
    /\ waiting \subseteq Consumers
    /\ pushes \in [Producers -> 0 .. MaxPushes]
    /\ pc \in [Thread -> {"idle", "push", "notify", "check", "sleep", "waiting",
                          "take", "remove", "ended"}]
    /\ element \in [Consumers -> {<<>>} \cup Element]
    /\ releasePc \in {"store", "notify", "done"}
    /\ popped \in Seq(Element)

Init ==
    /\ queue = <<>>
    /\ mutex = NoThread
    /\ blockThreads = TRUE
    /\ waiting = {}
    /\ pushes = [p \in Producers |-> 0]
    /\ pc = [t \in Thread |-> "idle"]
    /\ element = [c \in Consumers |-> <<>>]
    /\ releasePc = "store"
    /\ popped = <<>>

Goto(t, from, to) == pc[t] = from /\ pc' = [pc EXCEPT ![t] = to]

Lock(t) == mutex = NoThread /\ mutex' = t

\* What the destructor of the lock does, and giving it up in order to wait.
Unlock(t) == mutex = t /\ mutex' = NoThread

-----------------------------------------------------------------------------
(* Push.                                                                   *)

Push(p) ==
    /\ pushes[p] < MaxPushes
    /\ Goto(p, "idle", "push")
    /\ Lock(p)
    /\ pushes' = [pushes EXCEPT ![p] = @ + 1]
    /\ UNCHANGED <<queue, blockThreads, waiting, element, releasePc, popped>>

pushBack(p) ==
    /\ Goto(p, "push", "notify")
    /\ Unlock(p)
    /\ queue' = Append(queue, Value(p))
    /\ UNCHANGED <<blockThreads, waiting, pushes, element, releasePc, popped>>

\* A mutation of notifyOne: no thread is woken.
NotifyNone(p) ==
    /\ Goto(p, "notify", "idle")
    /\ UNCHANGED <<queue, mutex, blockThreads, waiting, pushes, element, releasePc, popped>>

\* One of the threads that wait, if there are any, stops waiting.
notifyOne(p) ==
    /\ Goto(p, "notify", "idle")
    /\ waiting' \in {waiting \ {c} : c \in IF waiting = {} THEN Consumers ELSE waiting}
    /\ UNCHANGED <<queue, mutex, blockThreads, pushes, element, releasePc, popped>>

Producer(p) == Push(p) \/ pushBack(p) \/ notifyOne(p)

-----------------------------------------------------------------------------
(* Pop.                                                                    *)

Pop(c) ==
    /\ Goto(c, "idle", "check")
    /\ Lock(c)
    /\ UNCHANGED <<queue, blockThreads, waiting, pushes, element, releasePc, popped>>

\* The predicate of the wait, evaluated with the mutex held.
check(c) ==
    /\ Goto(c, "check", IF queue = <<>> /\ blockThreads THEN "sleep" ELSE "take")
    /\ mutex = c
    /\ UNCHANGED <<queue, mutex, blockThreads, waiting, pushes, element, releasePc, popped>>

wait(c) ==
    /\ Goto(c, "sleep", "waiting")
    /\ Unlock(c)
    /\ waiting' = waiting \cup {c}
    /\ UNCHANGED <<queue, blockThreads, pushes, element, releasePc, popped>>

\* A thread that was notified takes the mutex and looks at the predicate again.
wake(c) ==
    /\ c \notin waiting
    /\ Goto(c, "waiting", "check")
    /\ Lock(c)
    /\ UNCHANGED <<queue, blockThreads, waiting, pushes, element, releasePc, popped>>

\* A condition variable may wake a thread that nobody notified.
spuriousWake(c) ==
    /\ c \in waiting
    /\ waiting' = waiting \ {c}
    /\ UNCHANGED <<queue, mutex, blockThreads, pushes, pc, element, releasePc, popped>>

\* A mutation of front: the mutex is given up before the element is removed.
FrontThenUnlock(c) ==
    /\ queue # <<>>
    /\ Goto(c, "take", "remove")
    /\ Unlock(c)
    /\ element' = [element EXCEPT ![c] = Head(queue)]
    /\ UNCHANGED <<queue, blockThreads, waiting, pushes, releasePc, popped>>

front(c) ==
    /\ queue # <<>>
    /\ Goto(c, "take", "remove")
    /\ mutex = c
    /\ element' = [element EXCEPT ![c] = Head(queue)]
    /\ UNCHANGED <<queue, mutex, blockThreads, waiting, pushes, releasePc, popped>>

popFront(c) ==
    /\ Goto(c, "remove", "idle")
    /\ mutex' = NoThread
    /\ queue' = SubSeq(queue, 2, Len(queue))
    /\ popped' = Append(popped, element[c])
    /\ UNCHANGED <<blockThreads, waiting, pushes, element, releasePc>>

\* Released and empty: Pop throws.
throw(c) ==
    /\ queue = <<>>
    /\ Goto(c, "take", "ended")
    /\ Unlock(c)
    /\ UNCHANGED <<queue, blockThreads, waiting, pushes, element, releasePc, popped>>

Consumer(c) == \/ Pop(c) \/ check(c) \/ wait(c) \/ wake(c)
               \/ front(c) \/ popFront(c) \/ throw(c)

-----------------------------------------------------------------------------
(* Release, which does not take the mutex.                                 *)

store ==
    /\ releasePc = "store"
    /\ releasePc' = "notify"
    /\ blockThreads' = FALSE
    /\ UNCHANGED <<queue, mutex, waiting, pushes, pc, element, popped>>

\* A mutation of notifyAll: only one of the waiting threads is woken.
NotifyOnlyOne ==
    /\ releasePc = "notify"
    /\ releasePc' = "done"
    /\ waiting' \in {waiting \ {c} : c \in Consumers}
    /\ UNCHANGED <<queue, mutex, blockThreads, pushes, pc, element, popped>>

notifyAll ==
    /\ releasePc = "notify"
    /\ releasePc' = "done"
    /\ waiting' = {}
    /\ UNCHANGED <<queue, mutex, blockThreads, pushes, pc, element, popped>>

Release == store \/ notifyAll

-----------------------------------------------------------------------------
Next ==
    \/ \E p \in Producers : Producer(p)
    \/ \E c \in Consumers : Consumer(c) \/ spuriousWake(c)
    \/ Release

\* Every thread in a call goes on, and a consumer calls Pop again.  Nobody need
\* push or release, and spurious wake-ups cannot be relied upon.
Spec ==
    /\ Init /\ [][Next]_vars
    /\ \A p \in Producers : WF_vars(pushBack(p) \/ notifyOne(p))
    /\ \A c \in Consumers : WF_vars(Consumer(c))
    /\ WF_vars(notifyAll)

-----------------------------------------------------------------------------
(* Properties.                                                             *)

Queue == INSTANCE Fifo WITH
    items <- queue, taken <- popped, released <- ~ blockThreads

\* The queue is a first-in first-out queue: what Pop returns is the front of the
\* queue, and each element is returned once, whatever the threads do.
ImplementsFifo == Queue!Spec

\* An element that was pushed is popped, unless the queue is released: no
\* notification of Push is lost.
EveryElementPopped ==
    \A e \in Element :
        (\E i \in 1 .. Len(queue) : queue[i] = e)
            ~> ~ blockThreads \/ \E i \in 1 .. Len(popped) : popped[i] = e

\* A thread that waits when Release has stored the flag does not wait for ever.
ReleaseWakesWaiting ==
    \A c \in Consumers : c \in waiting /\ releasePc = "notify" ~> pc[c] # "waiting"

\* SafeQueue.hpp on Release: "Stop blocking the threads trying to pop an element
\* from the queue."  After it no thread stays blocked.
ReleaseStopsBlocking ==
    \A c \in Consumers : releasePc = "done" ~> pc[c] # "waiting"
=============================================================================
