----------------------------- MODULE QueueProofs -----------------------------
(***************************************************************************)
(* Queue, for every number of threads, items and spurious wake-ups.        *)
(*                                                                         *)
(* TypeInv and MutexProtects are inductive together.  MutexProtects says   *)
(* that the owner of mutex_ is the only thread inside, so that the front a *)
(* consumer copied is the front it pops: what the type of received and the *)
(* refinement of FifoQueue both need.  NoLostWakeup is inductive given     *)
(* those: each action moves a thread between the three sets it counts.     *)
(***************************************************************************)
EXTENDS Queue, FiniteSetTheorems, TLAPS

USE DEF Threads, At, Goto, Lock, Unlock

\* A producer inside enqueue has an item left to push: what TypeOK needs to be
\* inductive, because the bound MaxItems is tested one step before the push.
MayPush == \A p \in Producers : pc[p] = "e_push" => sent[p] < MaxItems

TypeInv == TypeOK /\ MayPush

\* TypeInv holds initially and every action of Queue.hpp's two methods keeps it.
LEMMA TypeInit == Init => TypeInv
  BY QueueAssumption DEF Init, TypeInv, TypeOK, MayPush, Items, ProducerLabels, ConsumerLabels

\* Every action keeps TypeInv, given that the mutex protects.
LEMMA TypeStep == TypeInv /\ MutexProtects /\ [Next]_vars => TypeInv'
<1> SUFFICES ASSUME TypeInv, MutexProtects, [Next]_vars PROVE TypeInv'
  OBVIOUS
<1> USE QueueAssumption DEF TypeInv, TypeOK, MayPush, ProducerLabels, ConsumerLabels
<1>1. ASSUME NEW p \in Producers, ELock(p) PROVE TypeInv'
  BY <1>1 DEF ELock
<1>2. ASSUME NEW p \in Producers, EPush(p) PROVE TypeInv'
  <2>1. sent[p] + 1 \in 1..MaxItems /\ <<p, sent[p] + 1>> \in Items
    BY <1>2 DEF EPush, Items
  <2>2. queue_' \in Seq(Items)
    BY <1>2, <2>1 DEF EPush
  <2>3. sent' \in [Producers -> 0..MaxItems]
    BY <1>2, <2>1 DEF EPush
  <2> QED
    BY <1>2, <2>2, <2>3 DEF EPush
<1>3. ASSUME NEW p \in Producers, EUnlock(p) PROVE TypeInv'
  BY <1>3 DEF EUnlock
<1>4. ASSUME NEW p \in Producers, ENotify(p) PROVE TypeInv'
  <2>1. CASE pc' = [pc EXCEPT ![p] = "e_lock"]
    BY <1>4, <2>1 DEF ENotify
  <2>2. ASSUME NEW c \in Waiting, pc' = [pc EXCEPT ![p] = "e_lock", ![c] = "relock"]
        PROVE  TypeInv'
    BY <1>4, <2>2 DEF ENotify, Waiting
  <2> QED
    BY <1>4, <2>1, <2>2 DEF ENotify
<1>5. ASSUME NEW c \in Consumers, DLock(c) PROVE TypeInv'
  BY <1>5 DEF DLock
<1>6. ASSUME NEW c \in Consumers, DTest(c) PROVE TypeInv'
  BY <1>6 DEF DTest
<1>7. ASSUME NEW c \in Consumers, Relock(c) PROVE TypeInv'
  BY <1>7 DEF Relock
<1>8. ASSUME NEW c \in Consumers, DFront(c) PROVE TypeInv'
  BY <1>8 DEF DFront, MutexProtects
<1>9. ASSUME NEW c \in Consumers, DPop(c) PROVE TypeInv'
  <2>0. pc[c] = "d_pop" /\ queue_ \in Seq(Items) /\ queue_ # <<>> /\ item[c] = Head(queue_)
    BY <1>9 DEF DPop, MutexProtects
  <2>1. item[c] \in Items
    BY <2>0
  <2>2. queue_' \in Seq(Items)
    BY <1>9, <2>0 DEF DPop
  <2>3. received' \in [Consumers -> Seq(Items)]
    BY <1>9, <2>1 DEF DPop
  <2> QED
    BY <1>9, <2>2, <2>3 DEF DPop
<1>10. ASSUME NEW c \in Consumers, DUnlock(c) PROVE TypeInv'
  BY <1>10 DEF DUnlock
<1>11. ASSUME NEW c \in Consumers, SpuriousWake(c) PROVE TypeInv'
  BY <1>11 DEF SpuriousWake
<1>12. CASE UNCHANGED vars
  BY <1>12 DEF vars
<1> QED
  BY <1>1, <1>2, <1>3, <1>4, <1>5, <1>6, <1>7, <1>8, <1>9, <1>10, <1>11, <1>12
     DEF Next, Enqueue, Dequeue

-----------------------------------------------------------------------------
\* MutexProtects holds initially and every action keeps it.
LEMMA MutexInit == Init => MutexProtects
  BY QueueAssumption DEF Init, MutexProtects, InCritical

\* Every action keeps MutexProtects.
LEMMA MutexStep == TypeInv /\ MutexProtects /\ [Next]_vars => MutexProtects'
<1> SUFFICES ASSUME TypeInv, MutexProtects, [Next]_vars PROVE MutexProtects'
  OBVIOUS
<1> USE QueueAssumption DEF TypeInv, TypeOK, MutexProtects, InCritical,
        ProducerLabels, ConsumerLabels
<1>1. ASSUME NEW p \in Producers, ELock(p) PROVE MutexProtects'
  BY <1>1 DEF ELock
<1>2. ASSUME NEW p \in Producers, EPush(p) PROVE MutexProtects'
  BY <1>2 DEF EPush
<1>3. ASSUME NEW p \in Producers, EUnlock(p) PROVE MutexProtects'
  BY <1>3 DEF EUnlock
<1>4. ASSUME NEW p \in Producers, ENotify(p) PROVE MutexProtects'
  <2>1. CASE pc' = [pc EXCEPT ![p] = "e_lock"]
    BY <1>4, <2>1 DEF ENotify
  <2>2. ASSUME NEW c \in Waiting, pc' = [pc EXCEPT ![p] = "e_lock", ![c] = "relock"]
        PROVE  MutexProtects'
    BY <1>4, <2>2 DEF ENotify, Waiting
  <2> QED
    BY <1>4, <2>1, <2>2 DEF ENotify
<1>5. ASSUME NEW c \in Consumers, DLock(c) PROVE MutexProtects'
  BY <1>5 DEF DLock
<1>6. ASSUME NEW c \in Consumers, DTest(c) PROVE MutexProtects'
  BY <1>6 DEF DTest
<1>7. ASSUME NEW c \in Consumers, Relock(c) PROVE MutexProtects'
  BY <1>7 DEF Relock
<1>8. ASSUME NEW c \in Consumers, DFront(c) PROVE MutexProtects'
  BY <1>8 DEF DFront
<1>9. ASSUME NEW c \in Consumers, DPop(c) PROVE MutexProtects'
  BY <1>9 DEF DPop
<1>10. ASSUME NEW c \in Consumers, DUnlock(c) PROVE MutexProtects'
  BY <1>10 DEF DUnlock
<1>11. ASSUME NEW c \in Consumers, SpuriousWake(c) PROVE MutexProtects'
  BY <1>11 DEF SpuriousWake
<1>12. CASE UNCHANGED vars
  BY <1>12 DEF vars
<1> QED
  BY <1>1, <1>2, <1>3, <1>4, <1>5, <1>6, <1>7, <1>8, <1>9, <1>10, <1>11, <1>12
     DEF Next, Enqueue, Dequeue

\* Every variable of Queue.hpp's model keeps its type, for every set of threads.
THEOREM TypeCorrect == Spec => []TypeOK
<1>1. TypeInv /\ MutexProtects /\ [Next]_vars => (TypeInv /\ MutexProtects)'
  BY TypeStep, MutexStep
<1>2. TypeInv => TypeOK
  BY DEF TypeInv
<1> QED
  BY TypeInit, MutexInit, <1>1, <1>2, PTL DEF Spec

\* Only the owner of mutex_ is between a lock and an unlock, and the front it
\* copied is the front it pops (Queue.hpp:22-26).
THEOREM MutexCorrect == Spec => []MutexProtects
<1>1. TypeInv /\ MutexProtects /\ [Next]_vars => (TypeInv /\ MutexProtects)'
  BY TypeStep, MutexStep
<1> QED
  BY TypeInit, MutexInit, <1>1, PTL DEF Spec

-----------------------------------------------------------------------------
(* No lost wake-up.                                                        *)

\* Adding one new thread to, or taking one thread out of, the finite sets that
\* NoLostWakeup counts.
LEMMA CountOneMore ==
  ASSUME NEW S, NEW x, IsFiniteSet(S), x \notin S
  PROVE  /\ IsFiniteSet(S \cup {x})
         /\ Cardinality(S) \in Nat
         /\ Cardinality(S \cup {x}) = Cardinality(S) + 1
  BY FS_AddElement, FS_CardinalityType

\* The other direction: taking one thread out lowers the count by one.
LEMMA CountOneLess ==
  ASSUME NEW S, NEW x, IsFiniteSet(S), x \in S
  PROVE  /\ IsFiniteSet(S \ {x})
         /\ Cardinality(S \ {x}) \in Nat
         /\ Cardinality(S) = Cardinality(S \ {x}) + 1
<1>1. IsFiniteSet(S \ {x}) /\ x \notin S \ {x} /\ S = (S \ {x}) \cup {x}
  BY FS_RemoveElement
<1> QED
  BY <1>1, CountOneMore

\* The counted sets are sets of threads, hence finite.
LEMMA Counted == /\ IsFiniteSet(Signallers) /\ Cardinality(Signallers) \in Nat
                 /\ IsFiniteSet(Awake) /\ Cardinality(Awake) \in Nat
<1>1. Signallers \subseteq Producers /\ Awake \subseteq Consumers
  BY DEF Signallers, Awake
<1> QED
  BY <1>1, QueueAssumption, FS_Subset, FS_CardinalityType

\* NoLostWakeup holds initially (nobody waits) and every action keeps it.
LEMMA NoLostWakeupInit == Init => NoLostWakeup
  BY QueueAssumption DEF Init, NoLostWakeup, Waiting

\* Every action keeps the balance: what it adds to the queue it adds to the sum.
LEMMA NoLostWakeupStep ==
  TypeInv /\ MutexProtects /\ NoLostWakeup /\ [Next]_vars => NoLostWakeup'
<1> SUFFICES ASSUME TypeInv, MutexProtects, NoLostWakeup, [Next]_vars
             PROVE  NoLostWakeup'
  OBVIOUS
<1> USE QueueAssumption DEF TypeInv, TypeOK
<1>0. /\ Cardinality(Signallers) \in Nat /\ Cardinality(Awake) \in Nat
      /\ Cardinality(Signallers') \in Nat /\ Cardinality(Awake') \in Nat
      /\ IsFiniteSet(Signallers) /\ IsFiniteSet(Awake)
      /\ Len(queue_) \in Nat
  <2>1. IsFiniteSet(Signallers)' /\ IsFiniteSet(Awake)'
    <3>1. Signallers' \subseteq Producers /\ Awake' \subseteq Consumers
      BY DEF Signallers, Awake
    <3> QED
      BY <3>1, FS_Subset
  <2> QED
    BY <2>1, Counted, FS_CardinalityType
\* A step that moves nobody in or out of the counted sets and pushes nothing.
<1>a. ASSUME Waiting' = Waiting, queue_' = queue_, Signallers' = Signallers, Awake' = Awake
      PROVE  NoLostWakeup'
  BY <1>a DEF NoLostWakeup
\* A step after which one more consumer is awake.
<1>b. ASSUME NEW c \in Consumers, c \notin Awake, Awake' = Awake \cup {c},
             Waiting' \subseteq Waiting, queue_' = queue_, Signallers' = Signallers
      PROVE  NoLostWakeup'
  <2>1. Cardinality(Awake') = Cardinality(Awake) + 1
    BY <1>0, <1>b, CountOneMore
  <2> QED
    BY <1>0, <1>b, <2>1 DEF NoLostWakeup
<1>1. ASSUME NEW p \in Producers, ELock(p) PROVE NoLostWakeup'
  BY <1>1, <1>a DEF ELock, Waiting, Signallers, Awake
<1>2. ASSUME NEW p \in Producers, EPush(p) PROVE NoLostWakeup'
  <2>1. p \notin Signallers /\ Signallers' = Signallers \cup {p}
    BY <1>2 DEF EPush, Signallers
  <2>2. Awake' = Awake /\ Waiting' = Waiting
    BY <1>2 DEF EPush, Awake, Waiting
  <2>3. Cardinality(Signallers') = Cardinality(Signallers) + 1
    BY <1>0, <2>1, CountOneMore
  <2>4. Len(queue_') = Len(queue_) + 1
    BY <1>2 DEF EPush
  <2> QED
    BY <1>0, <2>2, <2>3, <2>4 DEF NoLostWakeup
<1>3. ASSUME NEW p \in Producers, EUnlock(p) PROVE NoLostWakeup'
  BY <1>3, <1>a DEF EUnlock, Waiting, Signallers, Awake
<1>4. ASSUME NEW p \in Producers, ENotify(p) PROVE NoLostWakeup'
  <2>1. CASE Waiting = {} /\ pc' = [pc EXCEPT ![p] = "e_lock"]
    BY <2>1 DEF NoLostWakeup, Waiting
  <2>2. ASSUME NEW c \in Waiting, pc' = [pc EXCEPT ![p] = "e_lock", ![c] = "relock"]
        PROVE  NoLostWakeup'
    <3>1. p \in Signallers /\ Signallers' = Signallers \ {p}
      BY <1>4, <2>2 DEF ENotify, Signallers, Waiting
    <3>2. c \notin Awake /\ Awake' = Awake \cup {c}
      BY <1>4, <2>2 DEF ENotify, Awake, Waiting
    <3>3. /\ Cardinality(Signallers) = Cardinality(Signallers') + 1
          /\ Cardinality(Awake') = Cardinality(Awake) + 1
      BY <1>0, <3>1, <3>2, CountOneMore, CountOneLess
    <3>4. queue_' = queue_ /\ Waiting # {}
      BY <1>4, <2>2 DEF ENotify
    <3>5. Len(queue_) <= Cardinality(Signallers) + Cardinality(Awake)
      BY <3>4 DEF NoLostWakeup
    <3> QED
      BY <1>0, <3>3, <3>4, <3>5 DEF NoLostWakeup
  <2> QED
    BY <1>4, <2>1, <2>2 DEF ENotify
<1>5. ASSUME NEW c \in Consumers, DLock(c) PROVE NoLostWakeup'
  <2>1. c \notin Awake /\ Awake' = Awake \cup {c}
    BY <1>5 DEF DLock, Awake
  <2>2. Waiting' = Waiting /\ Signallers' = Signallers /\ queue_' = queue_
    BY <1>5 DEF DLock, Waiting, Signallers
  <2> QED
    BY <2>1, <2>2, <1>b
<1>6. ASSUME NEW c \in Consumers, DTest(c) PROVE NoLostWakeup'
  <2>1. CASE queue_ = <<>> /\ queue_' = queue_
    BY <1>0, <2>1 DEF NoLostWakeup
  <2>2. CASE queue_ # <<>> /\ Goto(c, "d_front")
    <3>1. queue_' = queue_ /\ pc' = [pc EXCEPT ![c] = "d_front"] /\ pc[c] = "d_test"
      BY <1>6, <2>2 DEF DTest
    <3> QED
      BY <3>1, <1>a DEF Waiting, Signallers, Awake
  <2> QED
    BY <1>6, <2>1, <2>2 DEF DTest
<1>7. ASSUME NEW c \in Consumers, Relock(c) PROVE NoLostWakeup'
  BY <1>7, <1>a DEF Relock, Waiting, Signallers, Awake
<1>8. ASSUME NEW c \in Consumers, DFront(c) PROVE NoLostWakeup'
  BY <1>8, <1>a DEF DFront, Waiting, Signallers, Awake
<1>9. ASSUME NEW c \in Consumers, DPop(c) PROVE NoLostWakeup'
  <2>1. c \in Awake /\ Awake' = Awake \ {c}
    BY <1>9 DEF DPop, Awake
  <2>2. Signallers' = Signallers /\ Waiting' = Waiting
    BY <1>9 DEF DPop, Signallers, Waiting
  <2>3. Cardinality(Awake) = Cardinality(Awake') + 1
    BY <1>0, <2>1, CountOneLess
  <2>4. Len(queue_') = Len(queue_) - 1
    BY <1>9 DEF DPop, MutexProtects
  <2> QED
    BY <1>0, <2>2, <2>3, <2>4 DEF NoLostWakeup
<1>10. ASSUME NEW c \in Consumers, DUnlock(c) PROVE NoLostWakeup'
  BY <1>10, <1>a DEF DUnlock, Waiting, Signallers, Awake
<1>11. ASSUME NEW c \in Consumers, SpuriousWake(c) PROVE NoLostWakeup'
  <2>1. c \notin Awake /\ Awake' = Awake \cup {c}
    BY <1>11 DEF SpuriousWake, Awake
  <2>2. Waiting' \subseteq Waiting /\ Signallers' = Signallers /\ queue_' = queue_
    BY <1>11 DEF SpuriousWake, Waiting, Signallers
  <2> QED
    BY <2>1, <2>2, <1>b
<1>12. CASE UNCHANGED vars
  BY <1>12, <1>a DEF vars, Waiting, Signallers, Awake
<1> QED
  BY <1>1, <1>2, <1>3, <1>4, <1>5, <1>6, <1>7, <1>8, <1>9, <1>10, <1>11, <1>12
     DEF Next, Enqueue, Dequeue

\* No lost wake-up, for any number of threads and items: while a consumer sleeps
\* every queued item is owed to a notify still to come or to a consumer that is
\* awake (Queue.hpp:15-17 against 23-24).
THEOREM WakeupsCorrect == Spec => []NoLostWakeup
<1>1. TypeInv /\ MutexProtects /\ NoLostWakeup /\ [Next]_vars
        => (TypeInv /\ MutexProtects /\ NoLostWakeup)'
  BY TypeStep, MutexStep, NoLostWakeupStep
<1> QED
  BY TypeInit, MutexInit, NoLostWakeupInit, <1>1, PTL DEF Spec

-----------------------------------------------------------------------------
(* Queue implements FifoQueue.                                             *)

\* The initial states map to the initial state of the abstract queue.
LEMMA FifoInitial == Init => Fifo!FifoInit
  BY DEF Init, Fifo!FifoInit

\* EPush is a Put, DPop is a Take, and every other action is a stutter.
LEMMA FifoStep == TypeInv /\ MutexProtects /\ [Next]_vars => [Fifo!FifoNext]_Fifo!fifoVars
<1> SUFFICES ASSUME TypeInv, MutexProtects, [Next]_vars
             PROVE  [Fifo!FifoNext]_Fifo!fifoVars
  OBVIOUS
<1>1. ASSUME NEW p \in Producers, EPush(p) PROVE Fifo!FifoNext
  <2>1. <<p, sent[p] + 1>> \in Items
    BY <1>1, QueueAssumption DEF EPush, Items, TypeInv, TypeOK, MayPush
  <2>2. Fifo!Put(<<p, sent[p] + 1>>)
    BY <1>1 DEF EPush, Fifo!Put
  <2> QED
    BY <2>1, <2>2 DEF Fifo!FifoNext
<1>2. ASSUME NEW c \in Consumers, DPop(c) PROVE Fifo!FifoNext
  <2>1. queue_ # <<>> /\ item[c] = Head(queue_)
    BY <1>2 DEF DPop, MutexProtects
  <2>2. Fifo!Take(c)
    BY <1>2, <2>1 DEF DPop, Fifo!Take
  <2> QED
    BY <2>2 DEF Fifo!FifoNext
<1>3. ASSUME NEW p \in Producers, ELock(p) \/ EUnlock(p) \/ ENotify(p)
      PROVE  UNCHANGED Fifo!fifoVars
  BY <1>3 DEF ELock, EUnlock, ENotify, Fifo!fifoVars
<1>4. ASSUME NEW c \in Consumers,
             \/ DLock(c) \/ DTest(c) \/ Relock(c) \/ DFront(c)
             \/ DUnlock(c) \/ SpuriousWake(c)
      PROVE  UNCHANGED Fifo!fifoVars
  BY <1>4 DEF DLock, DTest, Relock, DFront, DUnlock, SpuriousWake, Fifo!fifoVars
<1>5. CASE UNCHANGED vars
  BY <1>5 DEF vars, Fifo!fifoVars
<1> QED
  BY <1>1, <1>2, <1>3, <1>4, <1>5 DEF Next, Enqueue, Dequeue

\* Queue.hpp's two methods behave as the atomic first-in first-out queue of
\* FifoQueue, which is how the pipeline's model uses them.
THEOREM QueueImplementsFifo == Spec => ImplementsFifo
<1>1. TypeInv /\ MutexProtects /\ [Next]_vars => (TypeInv /\ MutexProtects)'
  BY TypeStep, MutexStep
<1> QED
  BY TypeInit, MutexInit, FifoInitial, FifoStep, <1>1, PTL
     DEF Spec, ImplementsFifo, Fifo!FifoSpec
=============================================================================
