------------------------ MODULE BoundedOrderedQueue ------------------------
(***************************************************************************)
(* cxxll::bounded_ordered_queue (include/cxxll/bounded_ordered_queue.hpp): *)
(* a multimap behind one mutex with two condition variables.  A method     *)
(* holds the mutex from its first to its last line except inside           *)
(* cond::wait, so the part of a call between two waits is one step.  A     *)
(* thread in a wait set is inside pthread_cond_wait; a woken thread has    *)
(* left it and takes the mutex again before it retests its condition.      *)
(* Any thread may call any method in any order.                            *)
(***************************************************************************)
EXTENDS Naturals, FiniteSets

CONSTANTS Threads, Items, KeyOf, Capacity, MaxProducers, None

VARIABLES
  map_,          \* the elements; those pushed at one time are distinct
  producers_,
  writer_wait,   \* threads inside writer_.wait
  writer_woken,  \* threads that left writer_.wait and have not retested yet
  reader_wait,   \* threads inside reader_.wait
  reader_woken,
  arg            \* arg[t]: the element of the push thread t is blocked in

vars == <<map_, producers_, writer_wait, writer_woken, reader_wait,
          reader_woken, arg>>

writers == writer_wait \cup writer_woken
readers == reader_wait \cup reader_woken

(* A blocked push is one that is in a wait or on its way out of it.        *)
Abstract == INSTANCE OrderedQueue WITH
  content <- map_, producers <- producers_, writing <- arg, reading <- readers

ASSUME BoundedQueueAssumption ==
  /\ IsFiniteSet(Threads)
  /\ KeyOf \in [Items -> Nat]
  /\ Capacity \in Nat \ {0}
  /\ MaxProducers \in Nat \ {0}
  /\ None \notin Items

Idle(t) == t \notin writers \cup readers

Init ==
  /\ map_ = {}
  /\ producers_ \in 0..MaxProducers
  /\ writer_wait = {} /\ writer_woken = {}
  /\ reader_wait = {} /\ reader_woken = {}
  /\ arg = [t \in Threads |-> None]

-----------------------------------------------------------------------------
(* cond::signal: one waiter leaves the wait set, if there is one.  That    *)
(* more may leave is covered by SpuriousWakeup.                            *)
SignalReader ==
  IF reader_wait = {}
  THEN UNCHANGED <<reader_wait, reader_woken>>
  ELSE \E t \in reader_wait : /\ reader_wait' = reader_wait \ {t}
                              /\ reader_woken' = reader_woken \cup {t}

BroadcastReader ==
  /\ reader_wait' = {}
  /\ reader_woken' = reader_woken \cup reader_wait

(* Called by pop.  t is the popping thread, woken or fresh.                *)
SignalWriter ==
  IF writer_wait = {}
  THEN UNCHANGED <<writer_wait, writer_woken>>
  ELSE \E t \in writer_wait : /\ writer_wait' = writer_wait \ {t}
                              /\ writer_woken' = writer_woken \cup {t}

-----------------------------------------------------------------------------
\* MUTANT: the room is tested once, not again after the wait.
PushOnce(t, i) ==
  \/ /\ Cardinality(map_) < Capacity \/ t \in writer_woken
     /\ map_' = map_ \cup {i}
     /\ arg' = [arg EXCEPT ![t] = None]
     /\ writer_woken' = writer_woken \ {t}
     /\ SignalReader
     /\ UNCHANGED writer_wait
  \/ /\ Cardinality(map_) >= Capacity /\ t \notin writer_woken
     /\ arg' = [arg EXCEPT ![t] = i]
     /\ writer_wait' = writer_wait \cup {t}
     /\ UNCHANGED <<map_, writer_woken, reader_wait, reader_woken>>

(* The loop of push, from one test of the size to the next wait or return. *)
PushLoop(t, i) ==
  \/ /\ Cardinality(map_) < Capacity
     /\ map_' = map_ \cup {i}
     /\ arg' = [arg EXCEPT ![t] = None]
     /\ writer_woken' = writer_woken \ {t}
     /\ SignalReader
     /\ UNCHANGED writer_wait
  \/ /\ Cardinality(map_) >= Capacity
     /\ arg' = [arg EXCEPT ![t] = i]
     /\ writer_wait' = writer_wait \cup {t}
     /\ writer_woken' = writer_woken \ {t}
     /\ UNCHANGED <<map_, reader_wait, reader_woken>>

(* Without a producer push throws a logic_error and changes nothing.       *)
push(t, i) ==
  /\ Idle(t)
  /\ i \notin map_ \cup {arg[u] : u \in Threads}
  /\ UNCHANGED producers_
  /\ \/ /\ producers_ = 0
        /\ UNCHANGED <<map_, arg, writer_wait, writer_woken, reader_wait,
                       reader_woken>>
     \/ producers_ # 0 /\ PushLoop(t, i)

RetestPush(t) ==
  /\ t \in writer_woken
  /\ PushLoop(t, arg[t])
  /\ UNCHANGED producers_

-----------------------------------------------------------------------------
\* MUTANT: the element with the largest key is taken.
Back == {i \in map_ : \A j \in map_ : KeyOf[j] <= KeyOf[i]}

(* map_.begin(): the smallest key.  Elements with equal keys are in the    *)
(* order of their insertion in a multimap; any of them may be first here.  *)
Front == {i \in map_ : \A j \in map_ : KeyOf[i] <= KeyOf[j]}

\* MUTANT: pop forgets to wake a blocked push.
PopNoSignal(t) ==
  \/ /\ \E i \in Front : map_' = map_ \ {i}
     /\ reader_woken' = reader_woken \ {t}
     /\ UNCHANGED <<reader_wait, writer_wait, writer_woken>>
  \/ /\ map_ = {} /\ producers_ = 0
     /\ reader_woken' = reader_woken \ {t}
     /\ UNCHANGED <<map_, reader_wait, writer_wait, writer_woken>>
  \/ /\ map_ = {} /\ producers_ # 0
     /\ reader_wait' = reader_wait \cup {t}
     /\ reader_woken' = reader_woken \ {t}
     /\ UNCHANGED <<map_, writer_wait, writer_woken>>

(* The loop of pop, from one test of the map to the next wait or return.   *)
PopLoop(t) ==
  \/ /\ \E i \in Front : map_' = map_ \ {i}
     /\ reader_woken' = reader_woken \ {t}
     /\ SignalWriter
     /\ UNCHANGED reader_wait
  \/ /\ map_ = {} /\ producers_ = 0
     /\ reader_woken' = reader_woken \ {t}
     /\ UNCHANGED <<map_, reader_wait, writer_wait, writer_woken>>
  \/ /\ map_ = {} /\ producers_ # 0
     /\ reader_wait' = reader_wait \cup {t}
     /\ reader_woken' = reader_woken \ {t}
     /\ UNCHANGED <<map_, writer_wait, writer_woken>>

pop(t) == Idle(t) /\ PopLoop(t) /\ UNCHANGED <<producers_, arg>>

RetestPop(t) ==
  /\ t \in reader_woken
  /\ PopLoop(t)
  /\ UNCHANGED <<producers_, arg>>

-----------------------------------------------------------------------------
(* The count is an unsigned int; it would wrap at 2^32 producers, beyond   *)
(* any number of threads, and MaxProducers bounds it here.                 *)
add_producer(t) ==
  /\ Idle(t)
  /\ producers_ < MaxProducers
  /\ producers_' = producers_ + 1
  /\ UNCHANGED <<map_, writer_wait, writer_woken, reader_wait, reader_woken,
                 arg>>

\* MUTANT: the last producer wakes one reader only.
remove_producer_signal(t) ==
  /\ Idle(t)
  /\ producers_ # 0
  /\ producers_' = producers_ - 1
  /\ IF producers_' = 0 THEN SignalReader
     ELSE UNCHANGED <<reader_wait, reader_woken>>
  /\ UNCHANGED <<map_, writer_wait, writer_woken, arg>>

(* Without a producer remove_producer throws queue_without_producers.      *)
remove_producer(t) ==
  /\ Idle(t)
  /\ \/ /\ producers_ = 0
        /\ UNCHANGED <<producers_, reader_wait, reader_woken>>
     \/ /\ producers_ # 0
        /\ producers_' = producers_ - 1
        /\ IF producers_' = 0 THEN BroadcastReader
           ELSE UNCHANGED <<reader_wait, reader_woken>>
  /\ UNCHANGED <<map_, writer_wait, writer_woken, arg>>

(* "Spurious wake-ups may happen" (include/cxxll/cond.hpp).                *)
SpuriousWakeup(t) ==
  /\ \/ /\ t \in writer_wait
        /\ writer_wait' = writer_wait \ {t}
        /\ writer_woken' = writer_woken \cup {t}
        /\ UNCHANGED <<reader_wait, reader_woken>>
     \/ /\ t \in reader_wait
        /\ reader_wait' = reader_wait \ {t}
        /\ reader_woken' = reader_woken \cup {t}
        /\ UNCHANGED <<writer_wait, writer_woken>>
  /\ UNCHANGED <<map_, producers_, arg>>

Next ==
  \E t \in Threads :
    \/ \E i \in Items : push(t, i)
    \/ RetestPush(t) \/ pop(t) \/ RetestPop(t)
    \/ add_producer(t) \/ remove_producer(t)
    \/ SpuriousWakeup(t)

Spec == Init /\ [][Next]_vars

(* A thread that left a wait gets the mutex again: no method holds it      *)
(* across anything that blocks.  Nothing else is fair: callers may stop.   *)
Fairness == \A t \in Threads : WF_vars(RetestPush(t)) /\ WF_vars(RetestPop(t))

FairSpec == Spec /\ Fairness

-----------------------------------------------------------------------------
(* Types, and the bookkeeping of a blocked call: a thread is blocked in at *)
(* most one way, and carries an element exactly while it is in push.       *)
TypeOK ==
  /\ map_ \subseteq Items
  /\ producers_ \in 0..MaxProducers
  /\ writer_wait \subseteq Threads /\ writer_woken \subseteq Threads
  /\ reader_wait \subseteq Threads /\ reader_woken \subseteq Threads
  /\ writer_wait \cap writer_woken = {}
  /\ reader_wait \cap reader_woken = {}
  /\ writers \cap readers = {}
  /\ arg \in [Threads -> Items \cup {None}]
  /\ \A t \in Threads : arg[t] # None <=> t \in writers

(* The queue never holds more than capacity_ elements, whatever woke the   *)
(* threads blocked in push and in whatever order they get the mutex.       *)
CapacityRespected == Cardinality(map_) <= Capacity

(* No wakeup of a push is lost: while a push waits unsignalled, every free *)
(* place is spoken for by a push that has been woken and has not retested. *)
NoLostWriterWakeup ==
  writer_wait # {} =>
    Capacity <= Cardinality(map_) + Cardinality(writer_woken)

(* No wakeup of a pop is lost: while a pop waits unsignalled there is a    *)
(* producer left, and every element is spoken for by a woken pop.          *)
NoLostReaderWakeup ==
  reader_wait # {} =>
    producers_ # 0 /\ Cardinality(map_) <= Cardinality(reader_woken)

(* The monitor implements the abstract queue: waking and waiting again are *)
(* stutters, an element is inserted once and removed once with the         *)
(* smallest key first, and a call that can end does end.                   *)
ImplementsOrderedQueue == Abstract!QSpec
=============================================================================
