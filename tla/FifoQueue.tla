------------------------------ MODULE FifoQueue ------------------------------
(***************************************************************************)
(* What the class comment of DataQueue (src/linberrylibs/src/dataqueue.h)  *)
(* promises: "a thread aware fifo queue for Data objects, providing memory *)
(* management for all Data object pointers it contains".  Every operation  *)
(* is one atomic step here; there are no threads, mutexes or condition     *)
(* variables.  DataQueue is shown to implement this specification.         *)
(***************************************************************************)
EXTENDS Sequences, FiniteSets, Naturals

CONSTANTS Data,     \* message objects
          Queues    \* the queues they travel through

VARIABLES fresh,    \* objects still owned by the caller that made them
          items,    \* items[q]: the contents of queue q, oldest first
          taken,    \* objects handed back to a caller by a pop
          freed,    \* objects the queue has deleted
          log       \* log[q]: everything that ever entered q, in order

fifoVars == <<fresh, items, taken, freed, log>>

Init == /\ fresh = Data
        /\ items = [q \in Queues |-> <<>>]
        /\ taken = {}
        /\ freed = {}
        /\ log = [q \in Queues |-> <<>>]

Put(q, d) ==
  /\ d \in fresh
  /\ fresh' = fresh \ {d}
  /\ items' = [items EXCEPT ![q] = Append(@, d)]
  /\ log' = [log EXCEPT ![q] = Append(@, d)]
  /\ UNCHANGED <<taken, freed>>

\* A put that fails deletes the object: the queue owns it from the call on.
FailPut(d) ==
  /\ d \in fresh
  /\ fresh' = fresh \ {d}
  /\ freed' = freed \cup {d}
  /\ UNCHANGED <<items, taken, log>>

Take(q) ==
  /\ items[q] # <<>>
  /\ taken' = taken \cup {Head(items[q])}
  /\ items' = [items EXCEPT ![q] = Tail(@)]
  /\ UNCHANGED <<fresh, freed, log>>

\* The k oldest objects of src go to the end of dst, all of them unless an
\* exception interrupts the move.
Move(dst, src, k) ==
  /\ dst # src
  /\ k \in 0..Len(items[src])
  /\ LET moved == SubSeq(items[src], 1, k)
     IN  /\ items' = [items EXCEPT ![dst] = @ \o moved,
                                   ![src] = SubSeq(@, k + 1, Len(@))]
         /\ log' = [log EXCEPT ![dst] = @ \o moved]
  /\ UNCHANGED <<fresh, taken, freed>>

\* A queue that goes away frees what it still holds.
Discard(q) ==
  /\ freed' = freed \cup {items[q][i] : i \in 1..Len(items[q])}
  /\ items' = [items EXCEPT ![q] = <<>>]
  /\ UNCHANGED <<fresh, taken, log>>

Next == \/ \E q \in Queues, d \in Data : Put(q, d)
        \/ \E d \in Data : FailPut(d)
        \/ \E q \in Queues : Take(q) \/ Discard(q)
        \/ \E dst, src \in Queues : \E k \in 0..Len(items[src]) : Move(dst, src, k)

Spec == Init /\ [][Next]_fifoVars

-----------------------------------------------------------------------------
Contents(q) == {items[q][i] : i \in 1..Len(items[q])}

TypeOK ==
  /\ fresh \subseteq Data
  /\ items \in [Queues -> Seq(Data)]
  /\ taken \subseteq Data
  /\ freed \subseteq Data
  /\ log \in [Queues -> Seq(Data)]

Complete == Data = fresh \cup taken \cup freed \cup UNION {Contents(q) : q \in Queues}

OneOwner ==
  /\ fresh \cap taken = {} /\ fresh \cap freed = {} /\ taken \cap freed = {}
  /\ \A q \in Queues : Contents(q) \cap (fresh \cup taken \cup freed) = {}
  /\ \A q, r \in Queues : q # r => Contents(q) \cap Contents(r) = {}

OnePosition ==
  \A q \in Queues : \A i, j \in 1..Len(items[q]) : items[q][i] = items[q][j] => i = j

\* Every object is in exactly one place: with the caller that made it, at one
\* position of one queue, handed back once, or freed once.
Ownership == Complete /\ OneOwner /\ OnePosition

\* What a queue holds is the most recent part of what entered it, in the
\* order it entered: whatever has left, left oldest first.
FifoOrder ==
  \A q \in Queues : \E n \in 0..Len(log[q]) : items[q] = SubSeq(log[q], n + 1, Len(log[q]))
=============================================================================
