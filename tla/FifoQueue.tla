------------------------------ MODULE FifoQueue ------------------------------
(***************************************************************************)
(* What Queue<T> of Assignment-5/Queue.hpp promises to the threads that    *)
(* share it: an unbounded first-in first-out queue whose two operations    *)
(* happen at one instant each.  Nothing is said here of mutexes, condition *)
(* variables or wake-ups; module Queue shows that they implement this.     *)
(***************************************************************************)
EXTENDS Sequences

CONSTANTS Items,       \* what can be put in the queue
          Consumers    \* the threads that take from it

VARIABLES content,     \* the items put and not yet taken, oldest first
          received     \* [Consumers -> Seq(Items)]: what each consumer was given

fifoVars == <<content, received>>

FifoInit == /\ content = <<>>
            /\ received = [c \in Consumers |-> <<>>]

\* enqueue: the item goes behind everything that is already there
Put(x) == /\ content' = Append(content, x)
          /\ UNCHANGED received

\* dequeue: blocks while there is nothing; gives the oldest item to c alone
Take(c) == /\ content # <<>>
           /\ content' = Tail(content)
           /\ received' = [received EXCEPT ![c] = Append(@, Head(content))]

FifoNext == \/ \E x \in Items : Put(x)
            \/ \E c \in Consumers : Take(c)

FifoSpec == FifoInit /\ [][FifoNext]_fifoVars
=============================================================================
