---------------------------- MODULE OrderedQueue ----------------------------
(***************************************************************************)
(* What cxxll::bounded_ordered_queue promises its callers, without mutex   *)
(* and condition variables: a bounded priority queue with a count of       *)
(* registered producers.  A push blocks while the queue is full, a pop     *)
(* blocks while it is empty and producers are left, a pop returns false    *)
(* when it is empty and no producer is left.                               *)
(***************************************************************************)
EXTENDS Naturals, FiniteSets

CONSTANTS
  Threads,       \* the threads that use the queue
  Items,         \* the elements that can be pushed
  KeyOf,         \* KeyOf[i]: the key of element i
  Capacity,      \* capacity_
  MaxProducers,  \* bound on the producer count
  None           \* no element

VARIABLES
  content,    \* the elements in the queue
  producers,  \* the number of registered producers
  writing,    \* writing[t]: the element thread t is blocked with in push
  reading     \* the threads blocked in pop

qvars == <<content, producers, writing, reading>>

\* The elements of S that no element of S precedes.
Smallest(S) == {i \in S : \A j \in S : KeyOf[i] <= KeyOf[j]}

Free(t) == writing[t] = None /\ t \notin reading

\* Elements inside the queue or held by a blocked push.
InFlight == content \cup {writing[t] : t \in Threads}

QInit ==
  /\ content = {}
  /\ producers \in 0..MaxProducers
  /\ writing = [t \in Threads |-> None]
  /\ reading = {}

-----------------------------------------------------------------------------
(* What a call can do once it has the mutex.                               *)

Insert(t, i) ==
  /\ Cardinality(content) < Capacity
  /\ content' = content \cup {i}
  /\ writing' = [writing EXCEPT ![t] = None]
  /\ UNCHANGED <<producers, reading>>

WaitForRoom(t, i) ==
  /\ Cardinality(content) >= Capacity
  /\ writing' = [writing EXCEPT ![t] = i]
  /\ UNCHANGED <<content, producers, reading>>

\* pop returns true and the element i.
Remove(t, i) ==
  /\ i \in Smallest(content)
  /\ content' = content \ {i}
  /\ reading' = reading \ {t}
  /\ UNCHANGED <<producers, writing>>

\* pop returns false.
NothingLeft(t) ==
  /\ content = {}
  /\ producers = 0
  /\ reading' = reading \ {t}
  /\ UNCHANGED <<content, producers, writing>>

WaitForElement(t) ==
  /\ content = {}
  /\ producers # 0
  /\ reading' = reading \cup {t}
  /\ UNCHANGED <<content, producers, writing>>

-----------------------------------------------------------------------------
(* The calls.  push and remove_producer throw without a producer: nothing  *)
(* changes then.                                                           *)

BeginPush(t, i) ==
  /\ Free(t)
  /\ i \notin InFlight
  /\ producers # 0
  /\ Insert(t, i) \/ WaitForRoom(t, i)

EndPush(t) == writing[t] # None /\ Insert(t, writing[t])

BeginPop(t) ==
  /\ Free(t)
  /\ (\E i \in content : Remove(t, i)) \/ NothingLeft(t) \/ WaitForElement(t)

EndPop(t) ==
  /\ t \in reading
  /\ (\E i \in content : Remove(t, i)) \/ NothingLeft(t)

AddProducer(t) ==
  /\ Free(t)
  /\ producers < MaxProducers
  /\ producers' = producers + 1
  /\ UNCHANGED <<content, writing, reading>>

RemoveProducer(t) ==
  /\ Free(t)
  /\ producers # 0
  /\ producers' = producers - 1
  /\ UNCHANGED <<content, writing, reading>>

QNext ==
  \E t \in Threads :
    \/ \E i \in Items : BeginPush(t, i)
    \/ EndPush(t) \/ BeginPop(t) \/ EndPop(t)
    \/ AddProducer(t) \/ RemoveProducer(t)

(* A blocked call ends: while some push is blocked and there is room, some *)
(* blocked push ends; while some pop is blocked and there is an element or *)
(* no producer, some blocked pop ends.                                     *)
QFairness ==
  /\ WF_qvars(\E t \in Threads : EndPush(t))
  /\ WF_qvars(\E t \in Threads : EndPop(t))

QSafety == QInit /\ [][QNext]_qvars

QSpec == QSafety /\ QFairness
=============================================================================
