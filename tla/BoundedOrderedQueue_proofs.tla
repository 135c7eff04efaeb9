-------------------- MODULE BoundedOrderedQueue_proofs ---------------------
(***************************************************************************)
(* For any finite set of threads, any elements and keys, any capacity and  *)
(* any number of producers: the queue never overflows, no wakeup is lost,  *)
(* and every step of the monitor is a step of the abstract queue.          *)
(***************************************************************************)
EXTENDS BoundedOrderedQueue, FiniteSetTheorems, TLAPS

(* The element of a blocked push is not in the map and differs from those  *)
(* of the other blocked pushes: inserting it makes the map grow.           *)
PendingFresh ==
  \A t \in Threads : arg[t] # None =>
    /\ arg[t] \notin map_
    /\ \A u \in Threads \ {t} : arg[u] # arg[t]

Counting ==
  /\ IsFiniteSet(map_)
  /\ CapacityRespected
  /\ NoLostWriterWakeup
  /\ NoLostReaderWakeup

(* Neither count can be shown on its own: a push grows the map only if its *)
(* element is new, and that a signal moves one waiter needs the wait sets  *)
(* to be disjoint.                                                         *)
IInv == TypeOK /\ PendingFresh /\ Counting

-----------------------------------------------------------------------------
(* Adding a new element to a finite set, or taking one out of it, changes  *)
(* its cardinality by one.                                                 *)
LEMMA CountByOne ==
  ASSUME NEW S, IsFiniteSet(S), NEW x
  PROVE  /\ Cardinality(S) \in Nat
         /\ IsFiniteSet(S \cup {x}) /\ IsFiniteSet(S \ {x})
         /\ x \notin S => Cardinality(S \cup {x}) = Cardinality(S) + 1
         /\ x \in S => Cardinality(S \ {x}) = Cardinality(S) - 1
         /\ x \in S => Cardinality(S \cup {x}) = Cardinality(S)
         /\ x \notin S => Cardinality(S \ {x}) = Cardinality(S)
BY FS_AddElement, FS_RemoveElement, FS_CardinalityType

(* Sets of threads are finite.                                             *)
LEMMA ThreadsFinite ==
  ASSUME NEW S \in SUBSET Threads
  PROVE  IsFiniteSet(S) /\ Cardinality(S) \in Nat
BY FS_Subset, FS_CardinalityType, BoundedQueueAssumption

(* A queue starts empty, with nobody blocked.                              *)
LEMMA InitIInv == Init => IInv
<1> SUFFICES ASSUME Init PROVE IInv
  OBVIOUS
<1>1. TypeOK
  BY BoundedQueueAssumption DEF Init, TypeOK, writers, readers
<1>2. PendingFresh
  BY DEF Init, PendingFresh
<1>3. Counting
  BY FS_EmptySet, BoundedQueueAssumption
     DEF Init, Counting, CapacityRespected, NoLostWriterWakeup,
         NoLostReaderWakeup
<1> QED BY <1>1, <1>2, <1>3 DEF IInv

-----------------------------------------------------------------------------
(* Every call keeps the bookkeeping of blocked threads.                    *)
LEMMA TypeStep == IInv /\ [Next]_vars => TypeOK' /\ PendingFresh'
<1> SUFFICES ASSUME IInv, [Next]_vars PROVE TypeOK' /\ PendingFresh'
  OBVIOUS
<1> USE BoundedQueueAssumption
<1>0. TypeOK /\ PendingFresh
  BY DEF IInv
<1>1. ASSUME NEW t \in Threads, NEW i \in Items, push(t, i)
      PROVE  TypeOK' /\ PendingFresh'
  BY <1>0, <1>1
     DEF TypeOK, PendingFresh, push, PushLoop, SignalReader, Idle,
         writers, readers
<1>2. ASSUME NEW t \in Threads, RetestPush(t)
      PROVE  TypeOK' /\ PendingFresh'
  BY <1>0, <1>2
     DEF TypeOK, PendingFresh, RetestPush, PushLoop, SignalReader, writers, readers
<1>3. ASSUME NEW t \in Threads, pop(t)
      PROVE  TypeOK' /\ PendingFresh'
  BY <1>0, <1>3
     DEF TypeOK, PendingFresh, pop, PopLoop, SignalWriter, Front, Idle, writers, readers
<1>4. ASSUME NEW t \in Threads, RetestPop(t)
      PROVE  TypeOK' /\ PendingFresh'
  BY <1>0, <1>4
     DEF TypeOK, PendingFresh, RetestPop, PopLoop, SignalWriter, Front,
         writers, readers
<1>5. ASSUME NEW t \in Threads, add_producer(t)
      PROVE  TypeOK' /\ PendingFresh'
  BY <1>0, <1>5
     DEF TypeOK, PendingFresh, add_producer, writers, readers
<1>6. ASSUME NEW t \in Threads, remove_producer(t)
      PROVE  TypeOK' /\ PendingFresh'
  BY <1>0, <1>6
     DEF TypeOK, PendingFresh, remove_producer, BroadcastReader, writers, readers
<1>7. ASSUME NEW t \in Threads, SpuriousWakeup(t)
      PROVE  TypeOK' /\ PendingFresh'
  BY <1>0, <1>7
     DEF TypeOK, PendingFresh, SpuriousWakeup, writers, readers
<1>8. CASE UNCHANGED vars
  BY <1>0, <1>8 DEF TypeOK, PendingFresh, vars, writers, readers
<1> QED BY <1>1, <1>2, <1>3, <1>4, <1>5, <1>6, <1>7, <1>8 DEF Next

(* A step of push from one test of the size to the next.                   *)
LEMMA PushLoopCounting ==
  ASSUME IInv, NEW t \in Threads, NEW i, PushLoop(t, i), i \notin map_,
         t \notin writer_wait, t \notin readers,
         producers_' = producers_
  PROVE  Counting'
<1> DEFINE n == Cardinality(map_)
           w == Cardinality(writer_woken)
           r == Cardinality(reader_woken)
<1> USE BoundedQueueAssumption
<1>0. /\ TypeOK /\ Counting
      /\ n \in Nat /\ w \in Nat /\ r \in Nat
      /\ IsFiniteSet(map_) /\ IsFiniteSet(writer_woken)
      /\ IsFiniteSet(reader_woken)
  BY ThreadsFinite, FS_CardinalityType DEF IInv, TypeOK, Counting
<1>1. CASE n < Capacity
  <2>1. /\ map_' = map_ \cup {i}
        /\ writer_wait' = writer_wait
        /\ writer_woken' = writer_woken \ {t}
        /\ SignalReader
    BY <1>0, <1>1 DEF PushLoop, n
  <2>2. IsFiniteSet(map_') /\ Cardinality(map_') = n + 1
    BY <1>0, <2>1, CountByOne
  <2>3. Cardinality(writer_woken') \in {w, w - 1}
    BY <1>0, <2>1, CountByOne
  <2>4. CapacityRespected'
    BY <1>0, <1>1, <2>2 DEF CapacityRespected
  <2>5. NoLostWriterWakeup'
    BY <1>0, <2>1, <2>2, <2>3 DEF Counting, NoLostWriterWakeup
  <2>6. NoLostReaderWakeup'
    <3>1. CASE reader_wait = {}
      BY <2>1, <3>1 DEF SignalReader, NoLostReaderWakeup
    <3>2. CASE reader_wait # {}
      <4>1. PICK u \in reader_wait : /\ reader_wait' = reader_wait \ {u}
                                     /\ reader_woken' = reader_woken \cup {u}
        BY <2>1, <3>2 DEF SignalReader
      <4>2. u \notin reader_woken
        BY <1>0, <4>1 DEF TypeOK
      <4>3. Cardinality(reader_woken') = r + 1
        BY <1>0, <4>1, <4>2, CountByOne
      <4> QED BY <1>0, <2>2, <3>2, <4>3 DEF Counting, NoLostReaderWakeup
    <3> QED BY <3>1, <3>2
  <2> QED BY <2>2, <2>4, <2>5, <2>6 DEF Counting
<1>2. CASE ~(n < Capacity)
  <2>1. /\ map_' = map_
        /\ reader_wait' = reader_wait /\ reader_woken' = reader_woken
        /\ writer_woken' = writer_woken \ {t}
    BY <1>2 DEF PushLoop, n
  <2>2. Cardinality(writer_woken') \in Nat
    BY <1>0, <2>1, CountByOne
  <2> QED
    BY <1>0, <1>2, <2>1, <2>2
       DEF Counting, CapacityRespected, NoLostWriterWakeup,
           NoLostReaderWakeup
<1> QED BY <1>1, <1>2

(* A step of pop from one test of the map to the next.                     *)
LEMMA PopLoopCounting ==
  ASSUME IInv, NEW t \in Threads, PopLoop(t), t \notin reader_wait,
         producers_' = producers_
  PROVE  Counting'
<1> DEFINE n == Cardinality(map_)
           w == Cardinality(writer_woken)
           r == Cardinality(reader_woken)
<1> USE BoundedQueueAssumption
<1>0. /\ TypeOK /\ Counting
      /\ n \in Nat /\ w \in Nat /\ r \in Nat
      /\ IsFiniteSet(map_) /\ IsFiniteSet(writer_woken)
      /\ IsFiniteSet(reader_woken)
  BY ThreadsFinite, FS_CardinalityType DEF IInv, TypeOK, Counting
<1>1. CASE map_ # {}
  <2>1. PICK i \in map_ : map_' = map_ \ {i}
    BY <1>1 DEF PopLoop, Front
  <2>2. /\ reader_wait' = reader_wait
        /\ reader_woken' = reader_woken \ {t}
        /\ SignalWriter
    BY <1>1 DEF PopLoop
  <2>3. IsFiniteSet(map_') /\ Cardinality(map_') = n - 1
    BY <1>0, <2>1, CountByOne
  <2>4. Cardinality(reader_woken') \in {r, r - 1}
    BY <1>0, <2>2, CountByOne
  <2>5. NoLostReaderWakeup'
    BY <1>0, <2>2, <2>3, <2>4 DEF Counting, NoLostReaderWakeup
  <2>6. NoLostWriterWakeup'
    <3>1. CASE writer_wait = {}
      BY <2>2, <3>1 DEF SignalWriter, NoLostWriterWakeup
    <3>2. CASE writer_wait # {}
      <4>1. PICK u \in writer_wait : /\ writer_wait' = writer_wait \ {u}
                                     /\ writer_woken' = writer_woken \cup {u}
        BY <2>2, <3>2 DEF SignalWriter
      <4>2. u \notin writer_woken
        BY <1>0, <4>1 DEF TypeOK
      <4>3. Cardinality(writer_woken') = w + 1
        BY <1>0, <4>1, <4>2, CountByOne
      <4> QED BY <1>0, <2>3, <3>2, <4>3 DEF Counting, NoLostWriterWakeup
    <3> QED BY <3>1, <3>2
  <2>7. CapacityRespected'
    BY <1>0, <2>3 DEF Counting, CapacityRespected
  <2> QED BY <2>3, <2>5, <2>6, <2>7 DEF Counting
<1>2. CASE map_ = {}
  <2>0. n = 0
    BY <1>2, FS_EmptySet
  <2>1. /\ map_' = map_
        /\ writer_wait' = writer_wait /\ writer_woken' = writer_woken
        /\ reader_woken' = reader_woken \ {t}
        /\ \/ reader_wait' = reader_wait /\ producers_ = 0
           \/ reader_wait' = reader_wait \cup {t} /\ producers_ # 0
    BY <1>2 DEF PopLoop, Front
  <2>2. Cardinality(reader_woken') \in Nat
    BY <1>0, <2>1, CountByOne
  <2>3. NoLostReaderWakeup'
    BY <1>0, <2>0, <2>1, <2>2 DEF Counting, NoLostReaderWakeup
  <2> QED
    BY <1>0, <2>1, <2>3
       DEF Counting, CapacityRespected, NoLostWriterWakeup
<1> QED BY <1>1, <1>2

(* Every step keeps the counts.                                            *)
LEMMA CountingStep == IInv /\ [Next]_vars => Counting'
<1> SUFFICES ASSUME IInv, [Next]_vars PROVE Counting'
  OBVIOUS
<1>0. /\ TypeOK /\ PendingFresh /\ Counting
      /\ Cardinality(map_) \in Nat
      /\ IsFiniteSet(writer_woken) /\ IsFiniteSet(reader_woken)
  BY ThreadsFinite, FS_CardinalityType DEF IInv, TypeOK, Counting
<1>1. ASSUME NEW t \in Threads, NEW i \in Items, push(t, i)
      PROVE  Counting'
  <2>1. CASE producers_ = 0 /\ UNCHANGED <<map_, writer_wait, writer_woken,
                                           reader_wait, reader_woken>>
    BY <1>0, <1>1, <2>1
       DEF push, Counting, CapacityRespected, NoLostWriterWakeup,
           NoLostReaderWakeup
  <2>2. CASE PushLoop(t, i)
    BY <1>1, <2>2, PushLoopCounting DEF push, Idle, writers
  <2> QED BY <1>1, <2>1, <2>2 DEF push
<1>2. ASSUME NEW t \in Threads, RetestPush(t)
      PROVE  Counting'
  <2>1. arg[t] \notin map_ /\ t \notin writer_wait /\ t \notin readers
    BY <1>0, <1>2 DEF RetestPush, TypeOK, PendingFresh, writers
  <2> QED BY <1>2, <2>1, PushLoopCounting DEF RetestPush
<1>3. ASSUME NEW t \in Threads, pop(t)
      PROVE  Counting'
  BY <1>3, PopLoopCounting DEF pop, Idle, readers
<1>4. ASSUME NEW t \in Threads, RetestPop(t)
      PROVE  Counting'
  BY <1>0, <1>4, PopLoopCounting DEF RetestPop, TypeOK
<1>5. ASSUME NEW t \in Threads, add_producer(t)
      PROVE  Counting'
  BY <1>0, <1>5
     DEF add_producer, TypeOK, Counting, CapacityRespected,
         NoLostWriterWakeup, NoLostReaderWakeup
<1>6. ASSUME NEW t \in Threads, remove_producer(t)
      PROVE  Counting'
  BY <1>0, <1>6
     DEF remove_producer, BroadcastReader, Counting, CapacityRespected,
         NoLostWriterWakeup, NoLostReaderWakeup
<1>7. ASSUME NEW t \in Threads, SpuriousWakeup(t)
      PROVE  Counting'
  <2>1. CASE t \in writer_wait /\ writer_woken' = writer_woken \cup {t}
             /\ writer_wait' = writer_wait \ {t}
             /\ UNCHANGED <<reader_wait, reader_woken>>
    <3>1. Cardinality(writer_woken') = Cardinality(writer_woken) + 1
          /\ Cardinality(writer_woken) \in Nat
      BY <1>0, <2>1, CountByOne DEF TypeOK
    <3> QED
      BY <1>0, <1>7, <2>1, <3>1, BoundedQueueAssumption
         DEF SpuriousWakeup, Counting, CapacityRespected,
             NoLostWriterWakeup, NoLostReaderWakeup
  <2>2. CASE t \in reader_wait /\ reader_woken' = reader_woken \cup {t}
             /\ reader_wait' = reader_wait \ {t}
             /\ UNCHANGED <<writer_wait, writer_woken>>
    <3>1. Cardinality(reader_woken') = Cardinality(reader_woken) + 1
          /\ Cardinality(reader_woken) \in Nat
      BY <1>0, <2>2, CountByOne DEF TypeOK
    <3> QED
      BY <1>0, <1>7, <2>2, <3>1
         DEF SpuriousWakeup, Counting, CapacityRespected,
             NoLostWriterWakeup, NoLostReaderWakeup
  <2> QED BY <1>7, <2>1, <2>2 DEF SpuriousWakeup
<1>8. CASE UNCHANGED vars
  BY <1>0, <1>8
     DEF vars, Counting, CapacityRespected, NoLostWriterWakeup,
         NoLostReaderWakeup
<1> QED BY <1>1, <1>2, <1>3, <1>4, <1>5, <1>6, <1>7, <1>8 DEF Next

-----------------------------------------------------------------------------
(* The inductive invariant holds in every reachable state.                 *)
THEOREM Inductive == Spec => []IInv
<1>1. IInv /\ [Next]_vars => IInv'
  BY TypeStep, CountingStep DEF IInv
<1> QED BY InitIInv, <1>1, PTL DEF Spec

(* A thread is blocked in at most one call, and carries an element exactly *)
(* while it is blocked in push.                                            *)
THEOREM TypeCorrect == Spec => []TypeOK
BY Inductive, PTL DEF IInv

(* The queue never holds more than capacity_ elements.                     *)
THEOREM NeverOverfull == Spec => []CapacityRespected
BY Inductive, PTL DEF IInv, Counting

(* One signal per pop is enough: no push sleeps while a place is free that *)
(* no woken push is about to take.                                         *)
THEOREM WritersWoken == Spec => []NoLostWriterWakeup
BY Inductive, PTL DEF IInv, Counting

(* One signal per push and a broadcast by the last producer are enough: no *)
(* pop sleeps beside an element nobody else was woken for, or without a    *)
(* producer that could still wake it.                                      *)
THEOREM ReadersWoken == Spec => []NoLostReaderWakeup
BY Inductive, PTL DEF IInv, Counting

-----------------------------------------------------------------------------
(* Every step of the monitor is a step of the abstract queue or leaves it  *)
(* alone: a wakeup and a renewed wait are invisible to the callers.        *)
THEOREM StepRefinement == IInv /\ [Next]_vars => [Abstract!QNext]_Abstract!qvars
<1> SUFFICES ASSUME IInv, [Next]_vars
             PROVE  [Abstract!QNext]_Abstract!qvars
  OBVIOUS
<1> USE BoundedQueueAssumption
    DEF Abstract!qvars, Abstract!Free, Abstract!InFlight, Abstract!Insert,
        Abstract!WaitForRoom, Abstract!Remove, Abstract!Smallest,
        Abstract!NothingLeft, Abstract!WaitForElement, Idle, writers, readers
<1>0. TypeOK
  BY DEF IInv
<1>a. \A t \in Threads : t \notin writers => arg[t] = None
  BY <1>0 DEF TypeOK
<1>b. \A S : Abstract!Cardinality(S) = Cardinality(S)
  BY Zenon DEF Cardinality, Abstract!Cardinality
<1>1. ASSUME NEW t \in Threads, NEW i \in Items, push(t, i)
      PROVE  Abstract!BeginPush(t, i) \/ UNCHANGED Abstract!qvars
  BY <1>0, <1>a, <1>b, <1>1
     DEF push, PushLoop, SignalReader, Abstract!BeginPush, TypeOK
<1>2. ASSUME NEW t \in Threads, RetestPush(t)
      PROVE  Abstract!EndPush(t) \/ UNCHANGED Abstract!qvars
  BY <1>0, <1>b, <1>2
     DEF RetestPush, PushLoop, SignalReader, Abstract!EndPush, TypeOK
<1>3. ASSUME NEW t \in Threads, pop(t)
      PROVE  Abstract!BeginPop(t)
  BY <1>0, <1>a, <1>3
     DEF pop, PopLoop, SignalWriter, Front, Abstract!BeginPop, TypeOK
<1>4. ASSUME NEW t \in Threads, RetestPop(t)
      PROVE  Abstract!EndPop(t) \/ UNCHANGED Abstract!qvars
  BY <1>0, <1>4
     DEF RetestPop, PopLoop, SignalWriter, Front, Abstract!EndPop, TypeOK
<1>5. ASSUME NEW t \in Threads, add_producer(t)
      PROVE  Abstract!AddProducer(t)
  BY <1>0, <1>a, <1>5 DEF add_producer, Abstract!AddProducer
<1>6. ASSUME NEW t \in Threads, remove_producer(t)
      PROVE  Abstract!RemoveProducer(t) \/ UNCHANGED Abstract!qvars
  BY <1>0, <1>a, <1>6
     DEF remove_producer, BroadcastReader, Abstract!RemoveProducer
<1>7. ASSUME NEW t \in Threads, SpuriousWakeup(t)
      PROVE  UNCHANGED Abstract!qvars
  BY <1>0, <1>7 DEF SpuriousWakeup
<1>8. CASE UNCHANGED vars
  BY <1>8 DEF vars
<1> QED
  BY <1>1, <1>2, <1>3, <1>4, <1>5, <1>6, <1>7, <1>8
     DEF Next, Abstract!QNext

(* The monitor implements the safety part of the abstract queue.           *)
THEOREM SafetyRefinement == Spec => Abstract!QSafety
<1>1. Init => Abstract!QInit
  BY DEF Init, Abstract!QInit, readers
<1> QED BY <1>1, Inductive, StepRefinement, PTL DEF Spec, Abstract!QSafety
=============================================================================
