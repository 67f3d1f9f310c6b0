------------------------------ MODULE DataQueue ------------------------------
(***************************************************************************)
(* The thread-aware queue of src/linberrylibs/src/dataqueue.cc.            *)
(*                                                                         *)
(* A member function is split where another thread can interleave: between *)
(* two critical sections and at every wait.  A critical section that       *)
(* blocks on nothing is one step; append_from, which takes a second mutex  *)
(* inside the first, holds m_accessMutex across steps (accessMutex).       *)
(* m_waitMutex needs no variable: it is held only around the broadcast and *)
(* around the (atomically releasing) condition wait.                       *)
(***************************************************************************)
EXTENDS Sequences, FiniteSets, Naturals

CONSTANTS
  Threads,        \* the threads calling into the queues
  Data,           \* the Data objects callers push, one per message
  Queues,         \* the DataQueue objects
  AppendPairs,    \* <<dst, src>>: dst.append_from(src) is called somewhere
  WaitModes,      \* subset of {"timed", "forever"}: the timeouts callers use
  SpuriousWakeups,\* TRUE when condition waits may return for no reason
  NoThread,       \* "this mutex is free"
  NoQueue         \* "in no member function"

ASSUME AppendPairsAssumption ==
  /\ AppendPairs \subseteq Queues \X Queues
  /\ \A p \in AppendPairs : p[1] # p[2]
ASSUME ModesAssumption == WaitModes \subseteq {"timed", "forever"}
ASSUME SpuriousAssumption == SpuriousWakeups \in BOOLEAN
ASSUME NoneAssumption == NoThread \notin Threads /\ NoQueue \notin Queues

VARIABLES
  fresh,          \* objects not yet handed to a queue
  items,          \* items[q]: m_queue of q
  taken,          \* objects returned by pop or wait_pop
  freed,          \* objects deleted by a queue
  log,            \* history: everything that entered q, in order
  accessMutex,    \* accessMutex[q]: holder of q.m_accessMutex between steps
  pc,             \* where each thread stands in the member it called
  self,           \* self[t]: the queue whose member t executes, or NoQueue
  other,          \* other[t]: the argument of t's append_from, or NoQueue
  mode            \* mode[t]: whether t's wait_pop has a timeout, or "none"

dataVars == <<fresh, items, taken, freed, log>>
ctlVars == <<accessMutex, pc, self, other, mode>>
vars == <<fresh, items, taken, freed, log, accessMutex, pc, self, other, mode>>

PcValues == {"idle", "pushed", "checked", "waiting", "woken", "timedout", "appending"}

Init ==
  /\ fresh = Data
  /\ items = [q \in Queues |-> <<>>]
  /\ taken = {}
  /\ freed = {}
  /\ log = [q \in Queues |-> <<>>]
  /\ accessMutex = [q \in Queues |-> NoThread]
  /\ pc = [t \in Threads |-> "idle"]
  /\ self = [t \in Threads |-> NoQueue]
  /\ other = [t \in Threads |-> NoQueue]
  /\ mode = [t \in Threads |-> "none"]

Unlocked(q) == accessMutex[q] = NoThread
Goto(t, label) == pc' = [pc EXCEPT ![t] = label]
Enter(t, q, label) == Goto(t, label) /\ self' = [self EXCEPT ![t] = q]
Return(t) == /\ Goto(t, "idle")
             /\ self' = [self EXCEPT ![t] = NoQueue]
             /\ other' = [other EXCEPT ![t] = NoQueue]
             /\ mode' = [mode EXCEPT ![t] = "none"]

-----------------------------------------------------------------------------
\* push(): append under m_accessMutex, then broadcast under m_waitMutex.
push(t, q, d) ==
  /\ pc[t] = "idle"
  /\ Unlocked(q)
  /\ d \in fresh
  /\ fresh' = fresh \ {d}
  /\ items' = [items EXCEPT ![q] = Append(@, d)]
  /\ log' = [log EXCEPT ![q] = Append(@, d)]
  /\ Enter(t, q, "pushed")
  /\ UNCHANGED <<taken, freed, accessMutex, other, mode>>

\* std::queue::push throws: the catch clause deletes the object.
push_throws(t, q, d) ==
  /\ pc[t] = "idle"
  /\ Unlocked(q)
  /\ d \in fresh
  /\ fresh' = fresh \ {d}
  /\ freed' = freed \cup {d}
  /\ UNCHANGED <<items, taken, log, ctlVars>>

Waiters(q) == {t \in Threads : pc[t] = "waiting" /\ self[t] = q}

broadcast(t) ==
  /\ pc[t] = "pushed"
  /\ pc' = [u \in Threads |-> IF u = t THEN "idle"
                              ELSE IF u \in Waiters(self[t]) THEN "woken" ELSE pc[u]]
  /\ self' = [self EXCEPT ![t] = NoQueue]
  /\ UNCHANGED <<dataVars, accessMutex, other, mode>>

-----------------------------------------------------------------------------
\* Variants: pop() without its look at size(), and with back() for front().
TakeFront_unchecked(q) ==
  /\ taken' = taken \cup {IF items[q] = <<>> THEN "garbage" ELSE Head(items[q])}
  /\ items' = [items EXCEPT ![q] = IF @ = <<>> THEN @ ELSE Tail(@)]
  /\ UNCHANGED <<fresh, freed, log>>
TakeFront_newest(q) ==
  /\ items[q] # <<>>
  /\ taken' = taken \cup {items[q][Len(items[q])]}
  /\ items' = [items EXCEPT ![q] = SubSeq(@, 1, Len(@) - 1)]
  /\ UNCHANGED <<fresh, freed, log>>

\* Removing the oldest object of q, inside m_accessMutex.
TakeFront(q) ==
  /\ items[q] # <<>>
  /\ taken' = taken \cup {Head(items[q])}
  /\ items' = [items EXCEPT ![q] = Tail(@)]
  /\ UNCHANGED <<fresh, freed, log>>

\* pop(): never blocks; on an empty queue it returns 0 and changes nothing.
pop(t, q) ==
  /\ pc[t] = "idle"
  /\ Unlocked(q)
  /\ TakeFront(q)
  /\ UNCHANGED ctlVars

\* wait_pop(): the first look.  With something there it is a pop(), so the
\* action of its own is the call that finds nothing.
wait_pop(t, q, m) ==
  /\ pc[t] = "idle"
  /\ Unlocked(q)
  /\ items[q] = <<>>
  /\ Enter(t, q, "checked")
  /\ mode' = [mode EXCEPT ![t] = m]
  /\ UNCHANGED <<dataVars, accessMutex, other>>

\* pthread_cond_wait or pthread_cond_timedwait: the queue is not looked at
\* again between taking m_waitMutex and going to sleep.
cond_wait(t) ==
  /\ pc[t] = "checked"
  /\ Goto(t, "waiting")
  /\ UNCHANGED <<dataVars, accessMutex, self, other, mode>>

wait_expires(t) ==
  /\ pc[t] = "waiting"
  /\ mode[t] = "timed"
  /\ Goto(t, "timedout")
  /\ UNCHANGED <<dataVars, accessMutex, self, other, mode>>

spurious_wakeup(t) ==
  /\ SpuriousWakeups
  /\ pc[t] = "waiting"
  /\ Goto(t, "woken")
  /\ UNCHANGED <<dataVars, accessMutex, self, other, mode>>

\* Variant: a call with a timeout that finds nothing waits once more.
recheck_waits_again(t) ==
  /\ pc[t] \in {"woken", "timedout"}
  /\ Unlocked(self[t])
  /\ \/ TakeFront(self[t]) /\ Return(t)
     \/ /\ items[self[t]] = <<>>
        /\ Goto(t, "checked")
        /\ UNCHANGED <<dataVars, self, other, mode>>
  /\ UNCHANGED accessMutex

\* The look after the wait: the oldest object if there is one; otherwise a
\* call with a timeout returns 0 and one without goes back to sleep.
recheck(t) ==
  /\ pc[t] \in {"woken", "timedout"}
  /\ Unlocked(self[t])
  /\ \/ TakeFront(self[t]) /\ Return(t)
     \/ /\ items[self[t]] = <<>>
        /\ mode[t] = "timed"
        /\ Return(t)
        /\ UNCHANGED dataVars
     \/ /\ items[self[t]] = <<>>
        /\ mode[t] = "forever"
        /\ Goto(t, "checked")
        /\ UNCHANGED <<dataVars, self, other, mode>>
  /\ UNCHANGED accessMutex

-----------------------------------------------------------------------------
\* append_from(): "us" first, then "them"; moves everything, or the part
\* copied before an exception; wakes nobody.
append_from(t, q, r) ==
  /\ <<q, r>> \in AppendPairs
  /\ pc[t] = "idle"
  /\ Unlocked(q)
  /\ accessMutex' = [accessMutex EXCEPT ![q] = t]
  /\ other' = [other EXCEPT ![t] = r]
  /\ Enter(t, q, "appending")
  /\ UNCHANGED <<dataVars, mode>>

\* Variants: other.pop() before the push that may throw, and a path that
\* returns without unlocking.
append_moves_pops_first(t) ==
  /\ pc[t] = "appending"
  /\ Unlocked(other[t])
  /\ \E k \in 0..Len(items[other[t]]) :
       LET moved == SubSeq(items[other[t]], 1, k)
       IN  /\ items' = [items EXCEPT ![self[t]] = @ \o moved,
                                     ![other[t]] = SubSeq(@, k + 2, Len(@))]
           /\ log' = [log EXCEPT ![self[t]] = @ \o moved]
  /\ accessMutex' = [accessMutex EXCEPT ![self[t]] = NoThread]
  /\ Return(t)
  /\ UNCHANGED <<fresh, taken, freed>>

append_moves(t) ==
  /\ pc[t] = "appending"
  /\ Unlocked(other[t])
  /\ \E k \in 0..Len(items[other[t]]) :
       LET moved == SubSeq(items[other[t]], 1, k)
       IN  /\ items' = [items EXCEPT ![self[t]] = @ \o moved,
                                     ![other[t]] = SubSeq(@, k + 1, Len(@))]
           /\ log' = [log EXCEPT ![self[t]] = @ \o moved]
  /\ accessMutex' = [accessMutex EXCEPT ![self[t]] = NoThread]
  /\ Return(t)
  /\ UNCHANGED <<fresh, taken, freed>>

\* Variant: a destructor that forgets the objects.
destroy_leaks(q) ==
  /\ \A t \in Threads : q \notin {self[t], other[t]}
  /\ items' = [items EXCEPT ![q] = <<>>]
  /\ UNCHANGED <<fresh, taken, freed, log, ctlVars>>

\* ~DataQueue(): the owner runs it when no thread is inside q; what is left
\* is deleted.  (The next queue made at the same place starts empty.)
destroy(q) ==
  /\ \A t \in Threads : q \notin {self[t], other[t]}
  /\ freed' = freed \cup {items[q][i] : i \in 1..Len(items[q])}
  /\ items' = [items EXCEPT ![q] = <<>>]
  /\ UNCHANGED <<fresh, taken, log, ctlVars>>

-----------------------------------------------------------------------------
Call(t) ==
  \/ \E q \in Queues, d \in Data : push(t, q, d) \/ push_throws(t, q, d)
  \/ \E q \in Queues : pop(t, q) \/ \E m \in WaitModes : wait_pop(t, q, m)
  \/ \E q, r \in Queues : append_from(t, q, r)

Continue(t) ==
  \/ broadcast(t)
  \/ cond_wait(t)
  \/ recheck(t)
  \/ append_moves(t)

Wake(t) == wait_expires(t) \/ spurious_wakeup(t)

Next == \/ \E t \in Threads : Call(t) \/ Continue(t) \/ Wake(t)
        \/ \E q \in Queues : destroy(q)

Spec == Init /\ [][Next]_vars

\* Threads inside a member function keep running and timed waits expire; no
\* thread has to call anything.
Fairness == \A t \in Threads : WF_vars(Continue(t)) /\ WF_vars(wait_expires(t))

FairSpec == Spec /\ Fairness

-----------------------------------------------------------------------------
\* The atomic queue: the contents and the owners of the objects are its state,
\* mutexes, program counters and waits are not.
Fifo == INSTANCE FifoQueue WITH items <- items, fresh <- fresh, taken <- taken, freed <- freed, log <- log

CtlTypeOK ==
  /\ accessMutex \in [Queues -> Threads \cup {NoThread}]
  /\ pc \in [Threads -> PcValues]
  /\ self \in [Threads -> Queues \cup {NoQueue}]
  /\ other \in [Threads -> Queues \cup {NoQueue}]
  /\ mode \in [Threads -> {"timed", "forever", "none"}]

TypeOK == Fifo!TypeOK /\ CtlTypeOK

\* A thread inside a member function knows its queue, and the queue whose
\* m_accessMutex append_from holds is its own.
Inside ==
  \A t \in Threads :
    /\ pc[t] # "idle" => self[t] \in Queues
    /\ pc[t] = "appending" => /\ <<self[t], other[t]>> \in AppendPairs
                              /\ accessMutex[self[t]] = t
    /\ \A q \in Queues : accessMutex[q] = t => pc[t] = "appending" /\ self[t] = q

\* No message is lost, duplicated or freed under a consumer: whatever the
\* interleaving of push, pop, wait_pop, append_from and the destructor, every
\* Data object is in exactly one place.
Ownership == Fifo!Ownership

\* Messages leave a queue in the order they entered it, append_from included.
FifoOrder == Fifo!FifoOrder

\* The threads, mutexes and waits implement the atomic queue.
ImplementsFifo == Fifo!Spec

\* A wait_pop with a timeout comes back, however its wait ends and whoever takes
\* the message it was woken for, unless appends hold the mutex of its queue again
\* and again whenever it tries (dataqueue.cc, wait_pop).
TimedWaitReturns ==
  \A t \in Threads : \/ []<>(pc[t] = "idle" \/ mode[t] # "timed")
                     \/ []<>(self[t] \in Queues /\ accessMutex[self[t]] # NoThread)

-----------------------------------------------------------------------------
\* What the comment on wait_pop says and the code does not do.

\* "waits until one exists if empty": a thread does not sleep without limit
\* next to a message nobody is going to announce.
NoLostWakeup ==
  \A t \in Threads :
    (pc[t] = "waiting" /\ mode[t] = "forever" /\ items[self[t]] # <<>>)
      => \E u \in Threads : pc[u] = "pushed" /\ self[u] = self[t]
=============================================================================
