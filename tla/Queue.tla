-------------------------------- MODULE Queue --------------------------------
(***************************************************************************)
(* Queue<T> of Assignment-5/Queue.hpp, one action per step of a thread:    *)
(* the mutex is taken and released, condition_.wait gives it back, sleeps  *)
(* and takes it again, notify_one is called after the mutex was released.  *)
(*                                                                         *)
(* Each producer calls enqueue MaxItems times and each consumer calls      *)
(* dequeue for ever, as ActiveObject's thread does.  The k-th item of      *)
(* producer p is <<p, k>>.                                                 *)
(*                                                                         *)
(* std::mutex and std::condition_variable are modelled from what the       *)
(* standard says of them: notify_one wakes one of the waiting threads and  *)
(* is lost when there is none, a wait may also end by itself (a spurious   *)
(* wake-up), and nothing says who gets a free mutex.                       *)
(***************************************************************************)
EXTENDS Naturals, Sequences, FiniteSets

CONSTANTS Producers,    \* the threads that call enqueue
          Consumers,    \* the threads that call dequeue
          NoThread,     \* owner of a free mutex
          MaxItems,     \* bound: calls of enqueue by one producer
          MaxSpurious   \* bound: spurious wake-ups in one behaviour

Threads == Producers \cup Consumers

ASSUME QueueAssumption == /\ IsFiniteSet(Producers)
                          /\ IsFiniteSet(Consumers)
                          /\ Producers \cap Consumers = {}
                          /\ NoThread \notin Threads
                          /\ MaxItems \in Nat
                          /\ MaxSpurious \in Nat

Items == Producers \X (1..MaxItems)

VARIABLES queue_,     \* std::queue<T> queue_
          mutex_,     \* the owner of mutex_, or NoThread
          pc,         \* [Threads -> label]: the step a thread takes next
          sent,       \* [Producers -> Nat]: items pushed so far
          item,       \* [Consumers -> Items \cup {NoThread}]: dequeue's local item
          received,   \* [Consumers -> Seq(Items)]: history of what dequeue returns
          spurious    \* spurious wake-ups so far

vars == <<queue_, mutex_, pc, sent, item, received, spurious>>

(***************************************************************************)
(* The labels.  A thread at "wait" sleeps in condition_.wait without the   *)
(* mutex; at "relock" it was woken and wants the mutex back.               *)
(***************************************************************************)
ProducerLabels == {"e_lock", "e_push", "e_unlock", "e_notify"}
ConsumerLabels == {"d_lock", "d_test", "wait", "relock", "d_front", "d_pop", "d_unlock"}

Init == /\ queue_ = <<>>
        /\ mutex_ = NoThread
        /\ pc = [t \in Threads |-> IF t \in Producers THEN "e_lock" ELSE "d_lock"]
        /\ sent = [p \in Producers |-> 0]
        /\ item = [c \in Consumers |-> NoThread]
        /\ received = [c \in Consumers |-> <<>>]
        /\ spurious = 0

At(t, label) == pc[t] = label
Goto(t, label) == pc' = [pc EXCEPT ![t] = label]

Waiting == {c \in Consumers : At(c, "wait")}

Lock(t) == mutex_ = NoThread /\ mutex_' = t
Unlock(t) == mutex_ = t /\ mutex_' = NoThread

-----------------------------------------------------------------------------
(* Variants: mistakes that Queue.hpp does not make.  None is part of Next. *)

\* The predicate is not tested again after a wake-up ("if" for "while").
RelockNoTest(c) == /\ At(c, "relock")
                   /\ Lock(c)
                   /\ Goto(c, "d_front")
                   /\ UNCHANGED <<queue_, sent, item, received, spurious>>

\* notify_one only when the queue was empty before the push.
ENotifyFirstOnly(p) ==
  /\ At(p, "e_notify")
  /\ \/ /\ Waiting = {} \/ Len(queue_) # 1
        /\ Goto(p, "e_lock")
     \/ /\ Len(queue_) = 1
        /\ \E c \in Waiting : pc' = [pc EXCEPT ![p] = "e_lock", ![c] = "relock"]
  /\ UNCHANGED <<queue_, mutex_, sent, item, received, spurious>>

\* notify_one forgotten.
ENotifyNobody(p) == /\ At(p, "e_notify")
                    /\ Goto(p, "e_lock")
                    /\ UNCHANGED <<queue_, mutex_, sent, item, received, spurious>>

\* back() for front().
DFrontBack(c) == /\ At(c, "d_front")
                 /\ item' = [item EXCEPT ![c] = queue_[Len(queue_)]]
                 /\ Goto(c, "d_pop")
                 /\ UNCHANGED <<queue_, mutex_, sent, received, spurious>>

\* The front is not copied before it is popped.
DFrontNoCopy(c) == /\ At(c, "d_front")
                   /\ Goto(c, "d_pop")
                   /\ UNCHANGED <<queue_, mutex_, sent, item, received, spurious>>

-----------------------------------------------------------------------------
(* enqueue *)

ELock(p) == /\ At(p, "e_lock")
            /\ sent[p] < MaxItems
            /\ Lock(p)
            /\ Goto(p, "e_push")
            /\ UNCHANGED <<queue_, sent, item, received, spurious>>

EPush(p) == /\ At(p, "e_push")
            /\ queue_' = Append(queue_, <<p, sent[p] + 1>>)
            /\ sent' = [sent EXCEPT ![p] = @ + 1]
            /\ Goto(p, "e_unlock")
            /\ UNCHANGED <<mutex_, item, received, spurious>>

EUnlock(p) == /\ At(p, "e_unlock")
              /\ Unlock(p)
              /\ Goto(p, "e_notify")
              /\ UNCHANGED <<queue_, sent, item, received, spurious>>

\* notify_one, outside the mutex: wakes one waiting thread if there is one
ENotify(p) == /\ At(p, "e_notify")
              /\ \/ /\ Waiting = {}
                    /\ Goto(p, "e_lock")
                 \/ \E c \in Waiting :
                      pc' = [pc EXCEPT ![p] = "e_lock", ![c] = "relock"]
              /\ UNCHANGED <<queue_, mutex_, sent, item, received, spurious>>

Enqueue(p) == ELock(p) \/ EPush(p) \/ EUnlock(p) \/ ENotify(p)

-----------------------------------------------------------------------------
(* dequeue *)

DLock(c) == /\ At(c, "d_lock")
            /\ Lock(c)
            /\ Goto(c, "d_test")
            /\ UNCHANGED <<queue_, sent, item, received, spurious>>

\* the predicate of wait: nothing to take means release the mutex and sleep,
\* in one step
DTest(c) == /\ At(c, "d_test")
            /\ \/ /\ queue_ = <<>>
                  /\ Unlock(c)
                  /\ Goto(c, "wait")
               \/ /\ queue_ # <<>>
                  /\ Goto(c, "d_front")
                  /\ UNCHANGED mutex_
            /\ UNCHANGED <<queue_, sent, item, received, spurious>>

SpuriousWake(c) == /\ At(c, "wait")
                   /\ spurious < MaxSpurious
                   /\ spurious' = spurious + 1
                   /\ Goto(c, "relock")
                   /\ UNCHANGED <<queue_, mutex_, sent, item, received>>

\* awake again: take the mutex back, then test the predicate again
Relock(c) == /\ At(c, "relock")
             /\ Lock(c)
             /\ Goto(c, "d_test")
             /\ UNCHANGED <<queue_, sent, item, received, spurious>>

DFront(c) == /\ At(c, "d_front")
             /\ item' = [item EXCEPT ![c] = Head(queue_)]
             /\ Goto(c, "d_pop")
             /\ UNCHANGED <<queue_, mutex_, sent, received, spurious>>

\* pop discards the front; what the call will return is item
DPop(c) == /\ At(c, "d_pop")
           /\ queue_' = Tail(queue_)
           /\ received' = [received EXCEPT ![c] = Append(@, item[c])]
           /\ Goto(c, "d_unlock")
           /\ UNCHANGED <<mutex_, sent, item, spurious>>

\* return: lock's destructor releases the mutex, and the caller calls again
DUnlock(c) == /\ At(c, "d_unlock")
              /\ Unlock(c)
              /\ item' = [item EXCEPT ![c] = NoThread]
              /\ Goto(c, "d_lock")
              /\ UNCHANGED <<queue_, sent, received, spurious>>

Dequeue(c) == \/ DLock(c) \/ DTest(c) \/ Relock(c)
              \/ DFront(c) \/ DPop(c) \/ DUnlock(c)

-----------------------------------------------------------------------------
Next == \/ \E p \in Producers : Enqueue(p)
        \/ \E c \in Consumers : Dequeue(c) \/ SpuriousWake(c)

Spec == Init /\ [][Next]_vars

\* Every thread that can take a step eventually does; nothing obliges a wait
\* to end by itself.
FairSpec == /\ Spec
            /\ \A p \in Producers : WF_vars(Enqueue(p))
            /\ \A c \in Consumers : WF_vars(Dequeue(c))

-----------------------------------------------------------------------------
(* Properties *)

\* The type of every variable.
TypeOK == /\ queue_ \in Seq(Items)
          /\ mutex_ \in Threads \cup {NoThread}
          /\ pc \in [Threads -> ProducerLabels \cup ConsumerLabels]
          /\ \A p \in Producers : pc[p] \in ProducerLabels
          /\ \A c \in Consumers : pc[c] \in ConsumerLabels
          /\ sent \in [Producers -> 0..MaxItems]
          /\ item \in [Consumers -> Items \cup {NoThread}]
          /\ received \in [Consumers -> Seq(Items)]
          /\ spurious \in 0..MaxSpurious

\* The threads that are between taking and releasing mutex_.
InCritical == {t \in Threads :
                 pc[t] \in {"e_push", "e_unlock", "d_test", "d_front", "d_pop", "d_unlock"}}

\* queue_ is only ever touched by the owner of mutex_: whoever is between a lock
\* and its unlock owns the mutex (so there is one such thread at most), and the
\* front that dequeue copied is still the front when it pops (Queue.hpp:22-26).
MutexProtects == /\ \A t \in Threads : t \in InCritical <=> mutex_ = t
                 /\ \A c \in Consumers :
                      /\ pc[c] \in {"d_front", "d_pop"} => queue_ # <<>>
                      /\ At(c, "d_pop") => item[c] = Head(queue_)

\* Producers that have pushed and not yet notified.
Signallers == {p \in Producers : pc[p] \in {"e_unlock", "e_notify"}}
\* Consumers inside wait, or past it, that will look at the queue again.
Awake == {c \in Consumers : pc[c] \in {"relock", "d_test", "d_front", "d_pop"}}

\* No lost wake-up.  notify_one is called after the mutex was released and is
\* lost when nobody waits, yet while a consumer sleeps every item in the queue
\* is owed to a producer that will still notify or to a consumer that is awake
\* (Queue.hpp:15-17 against 23-24).
NoLostWakeup == Waiting # {} =>
                  Len(queue_) <= Cardinality(Signallers) + Cardinality(Awake)

\* What an observer sees is an atomic first-in first-out queue: every item that
\* was pushed goes to one consumer, once, in the order of the pushes.
Fifo == INSTANCE FifoQueue WITH content <- queue_

ImplementsFifo == Fifo!FifoSpec

\* Every call of enqueue ends in a delivery: no item stays in the queue although
\* a consumer is calling dequeue (Queue.hpp:12-28 together).
Delivered == \A x \in Items :
               (\E i \in DOMAIN queue_ : queue_[i] = x)
                 ~> (\E c \in Consumers : \E i \in DOMAIN received[c] : received[c][i] = x)
=============================================================================
