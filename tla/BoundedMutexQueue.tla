-------------------------- MODULE BoundedMutexQueue --------------------------
(***************************************************************************)
(* The bounded queue built on a mutex and two condition variables          *)
(* (include/latency_lab/mutex_queue.hpp), for any number of producer and   *)
(* consumer threads and one call of close().                               *)
(*                                                                         *)
(* Everything between locking mutex_ and unlocking it, or waiting on a     *)
(* condition variable, is one step.  A condition variable is the set of    *)
(* the threads that wait on it; a thread taken out of that set is woken:   *)
(* it still has to get the mutex back and to test its predicate again, and *)
(* other threads may get the mutex first.  Threads also wake up without a  *)
(* notification.                                                           *)
(***************************************************************************)
EXTENDS Integers, Sequences, FiniteSets

CONSTANTS Items,       \* what the queue carries
          NoItem,      \* what a producer outside push carries
          Capacity,    \* the constructor's argument
          Producers,   \* the threads that call push or push_with_mutation
          Consumers,   \* the threads that call pop until it returns false
          MaxPushes    \* bound: how many pushes are called

ASSUME QueueCapacityAssumption == Capacity \in Nat
ASSUME ThreadsAssumption == /\ IsFiniteSet(Producers) /\ IsFiniteSet(Consumers)
                            /\ Producers \cap Consumers = {}
ASSUME NoItemAssumption == NoItem \notin Items
ASSUME MaxPushesAssumption == MaxPushes \in Nat

VARIABLES queue_, closed_,
          not_full_,    \* the producers waiting on this condition variable
          not_empty_,   \* the consumers waiting on this condition variable
          woken,        \* threads woken up that have not got the mutex yet
          pending,      \* producer -> the item of the push it is waiting in
          closing,      \* how far close() has come
          finished,     \* consumers whose pop has returned false
          calls,        \* how many pushes were called
          accepted, delivered   \* history: items pushed and popped

vars == <<queue_, closed_, not_full_, not_empty_, woken, pending, closing,
          finished, calls, accepted, delivered>>

Init ==
    /\ queue_ = <<>> /\ closed_ = FALSE
    /\ not_full_ = {} /\ not_empty_ = {} /\ woken = {}
    /\ pending = [t \in Producers |-> NoItem]
    /\ closing = "not_called"
    /\ finished = {}
    /\ calls = 0
    /\ accepted = <<>> /\ delivered = <<>>

-----------------------------------------------------------------------------
\* Mutated form of has_room: one item too many is let in.
has_room_OffByOne == Len(queue_) <= Capacity

has_room == Len(queue_) < Capacity

\* Thread t has the mutex for a push of item: it has just called, or it was
\* waiting inside the call and has been woken.
in_push(t, item) ==
    \/ /\ pending[t] = NoItem
       /\ calls < MaxPushes
       /\ calls' = calls + 1
    \/ /\ t \in woken
       /\ pending[t] = item
       /\ UNCHANGED calls

\* notify_one, by a thread t that is done waiting: one waiter, if any, wakes.
notify_one(waiting, t) ==
    \/ waiting = {} /\ waiting' = waiting /\ woken' = woken \ {t}
    \/ \E u \in waiting : /\ waiting' = waiting \ {u}
                          /\ woken' = (woken \ {t}) \union {u}

\* Mutated form of push_wait: the thread is not taken off the woken ones.
push_wait_StillWoken(t, item) ==
    /\ in_push(t, item)
    /\ ~closed_ /\ ~has_room
    /\ not_full_' = not_full_ \union {t}
    /\ pending' = [pending EXCEPT ![t] = item]
    /\ UNCHANGED <<queue_, closed_, not_empty_, woken, closing, finished,
                   accepted, delivered>>

\* push: the predicate of not_full_.wait is false.
push_wait(t, item) ==
    /\ in_push(t, item)
    /\ ~closed_ /\ ~has_room
    /\ not_full_' = not_full_ \union {t}
    /\ woken' = woken \ {t}
    /\ pending' = [pending EXCEPT ![t] = item]
    /\ UNCHANGED <<queue_, closed_, not_empty_, closing, finished, accepted,
                   delivered>>

\* push: the queue was closed, the item is dropped.
push_closed(t, item) ==
    /\ in_push(t, item)
    /\ closed_
    /\ woken' = woken \ {t}
    /\ pending' = [pending EXCEPT ![t] = NoItem]
    /\ UNCHANGED <<queue_, closed_, not_full_, not_empty_, closing, finished,
                   accepted, delivered>>

\* push and push_with_mutation: the item goes in.
push_item(t, item) ==
    /\ in_push(t, item)
    /\ ~closed_ /\ has_room
    /\ queue_' = Append(queue_, item)
    /\ accepted' = Append(accepted, item)
    /\ notify_one(not_empty_, t)
    /\ pending' = [pending EXCEPT ![t] = NoItem]
    /\ UNCHANGED <<closed_, not_full_, closing, finished, delivered>>

push(t, item) ==
    push_wait(t, item) \/ push_closed(t, item) \/ push_item(t, item)

-----------------------------------------------------------------------------
\* Thread t has the mutex for a pop: it has just called or has been woken.
in_pop(t) == t \notin not_empty_ /\ t \notin finished

\* pop: the predicate of not_empty_.wait is false.
pop_wait(t) ==
    /\ in_pop(t)
    /\ ~closed_ /\ queue_ = <<>>
    /\ not_empty_' = not_empty_ \union {t}
    /\ woken' = woken \ {t}
    /\ UNCHANGED <<queue_, closed_, not_full_, pending, closing, finished,
                   calls, accepted, delivered>>

\* Mutated form of pop_closed: pop gives up as soon as the queue is closed.
pop_closed_Undrained(t) ==
    /\ in_pop(t)
    /\ closed_
    /\ finished' = finished \union {t}
    /\ woken' = woken \ {t}
    /\ UNCHANGED <<queue_, closed_, not_full_, not_empty_, pending, closing,
                   calls, accepted, delivered>>

\* pop: closed and drained, return false.
pop_closed(t) ==
    /\ in_pop(t)
    /\ closed_ /\ queue_ = <<>>
    /\ finished' = finished \union {t}
    /\ woken' = woken \ {t}
    /\ UNCHANGED <<queue_, closed_, not_full_, not_empty_, pending, closing,
                   calls, accepted, delivered>>

\* Mutated form of pop_item: a waiting producer is not told of the room.
pop_item_NoNotify(t) ==
    /\ in_pop(t)
    /\ queue_ # <<>>
    /\ queue_' = Tail(queue_)
    /\ delivered' = Append(delivered, Head(queue_))
    /\ woken' = woken \ {t}
    /\ UNCHANGED <<closed_, not_full_, not_empty_, pending, closing, finished,
                   calls, accepted>>

\* pop: the front item is returned.
pop_item(t) ==
    /\ in_pop(t)
    /\ queue_ # <<>>
    /\ queue_' = Tail(queue_)
    /\ delivered' = Append(delivered, Head(queue_))
    /\ notify_one(not_full_, t)
    /\ UNCHANGED <<closed_, not_empty_, pending, closing, finished, calls,
                   accepted>>

pop(t) == pop_wait(t) \/ pop_closed(t) \/ pop_item(t)

-----------------------------------------------------------------------------
\* close sets the flag under the mutex and notifies after unlocking it.
close_flag ==
    /\ closing = "not_called"
    /\ closed_' = TRUE
    /\ closing' = "flag_set"
    /\ UNCHANGED <<queue_, not_full_, not_empty_, woken, pending, finished,
                   calls, accepted, delivered>>

close_notify_not_empty ==
    /\ closing = "flag_set"
    /\ woken' = woken \union not_empty_
    /\ not_empty_' = {}
    /\ closing' = "consumers_notified"
    /\ UNCHANGED <<queue_, closed_, not_full_, pending, finished, calls,
                   accepted, delivered>>

\* Mutated form of close_notify_not_full: the producers are forgotten.
close_notify_not_full_Missing ==
    /\ closing = "consumers_notified"
    /\ closing' = "returned"
    /\ UNCHANGED <<queue_, closed_, not_full_, not_empty_, woken, pending,
                   finished, calls, accepted, delivered>>

close_notify_not_full ==
    /\ closing = "consumers_notified"
    /\ woken' = woken \union not_full_
    /\ not_full_' = {}
    /\ closing' = "returned"
    /\ UNCHANGED <<queue_, closed_, not_empty_, pending, finished, calls,
                   accepted, delivered>>

close == close_flag \/ close_notify_not_empty \/ close_notify_not_full

\* A thread wakes up although nobody notified it.
spurious_wakeup ==
    /\ \E t \in not_full_ \union not_empty_ :
          /\ not_full_' = not_full_ \ {t}
          /\ not_empty_' = not_empty_ \ {t}
          /\ woken' = woken \union {t}
    /\ UNCHANGED <<queue_, closed_, pending, closing, finished, calls,
                   accepted, delivered>>

Next == \/ \E t \in Producers, item \in Items : push(t, item)
        \/ \E t \in Consumers : pop(t)
        \/ close
        \/ spurious_wakeup

\* A producer waiting inside push goes on once it is woken.
resume_push(t) == t \in woken /\ push(t, pending[t])

(***************************************************************************)
(* A woken thread and a thread that calls pop get the mutex eventually,    *)
(* and close is called and runs to its end.  Nobody has to call push, and  *)
(* nobody has to wake up without being notified.                           *)
(***************************************************************************)
Fairness == /\ \A t \in Producers : WF_vars(resume_push(t))
            /\ \A t \in Consumers : WF_vars(pop(t))
            /\ WF_vars(close)

Spec == Init /\ [][Next]_vars /\ Fairness

-----------------------------------------------------------------------------
\* The parts of the state have their declared shapes; a thread waits, is
\* woken or runs, never two of these, and a producer in a push has its item.
TypeOK ==
    /\ queue_ \in Seq(Items) /\ closed_ \in BOOLEAN
    /\ not_full_ \subseteq Producers /\ not_empty_ \subseteq Consumers
    /\ woken \subseteq (Producers \union Consumers) \ (not_full_ \union not_empty_)
    /\ pending \in [Producers -> Items \union {NoItem}]
    /\ \A t \in Producers : t \in not_full_ \union woken <=> pending[t] # NoItem
    /\ closing \in {"not_called", "flag_set", "consumers_notified", "returned"}
    /\ closed_ <=> closing # "not_called"
    /\ finished \subseteq Consumers \ (not_empty_ \union woken)
    /\ calls \in 0 .. MaxPushes
    /\ accepted \in Seq(Items) /\ delivered \in Seq(Items)

(***************************************************************************)
(* No wakeup is lost.  While producers wait, every free place of the queue *)
(* has a woken producer on its way to it, and while consumers wait, every  *)
(* item has a woken consumer on its way; once the queue is closed, a       *)
(* thread waits only as long as close has not yet come to notifying it.    *)
(***************************************************************************)
NoLostWakeup ==
    /\ ~closed_ /\ not_full_ # {} =>
          Capacity - Len(queue_) <= Cardinality(woken \cap Producers)
    /\ ~closed_ /\ not_empty_ # {} =>
          Len(queue_) <= Cardinality(woken \cap Consumers)
    /\ closed_ /\ not_empty_ # {} => closing = "flag_set"
    /\ closed_ /\ not_full_ # {} => closing \in {"flag_set", "consumers_notified"}

(***************************************************************************)
(* A consumer is told to stop only when the queue is closed and everything *)
(* that was accepted has been delivered, whoever received it.              *)
(***************************************************************************)
DrainedBeforeStop == finished # {} => closed_ /\ delivered = accepted

(***************************************************************************)
(* The queue implements the bounded queue: items come out in the order in  *)
(* which they were accepted, each once, and at most Capacity are inside.   *)
(***************************************************************************)
Fifo == INSTANCE BoundedFifo

ImplementsFifo == Fifo!Spec

(***************************************************************************)
(* close releases everyone: every push and every pop returns, and every    *)
(* consumer is told to stop.                                               *)
(***************************************************************************)
EveryoneReturns ==
    <>[](not_full_ \union not_empty_ \union woken = {} /\ finished = Consumers)

=============================================================================
