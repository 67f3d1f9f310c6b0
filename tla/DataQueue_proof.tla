--------------------------- MODULE DataQueue_proof ---------------------------
(***************************************************************************)
(* What holds of the atomic queue for every set of objects and of queues:  *)
(* typing, Ownership and FifoOrder are each inductive, in that order. Then *)
(* DataQueue implements it for any number of threads, objects and queues   *)
(* and any acyclic or cyclic use of append_from, so the same holds of the  *)
(* threads. The lemmas before them say what appending, cutting and         *)
(* concatenating do to suffixes and to the elements of a sequence.         *)
(***************************************************************************)
EXTENDS DataQueue, SequenceTheorems, TLAPS


-----------------------------------------------------------------------------
(***************************************************************************)
(* Suffixes of sequences.                                                  *)
(***************************************************************************)
Suffix(s, l) == \E n \in 0..Len(l) : s = SubSeq(l, n + 1, Len(l))

\* A suffix, read position by position.
LEMMA SuffixPoints ==
  ASSUME NEW D, NEW s \in Seq(D), NEW l \in Seq(D), NEW n \in 0..Len(l)
  PROVE  s = SubSeq(l, n + 1, Len(l)) <=>
           /\ Len(s) = Len(l) - n
           /\ \A i \in 1..Len(s) : s[i] = l[n + i]
<1> DEFINE r == SubSeq(l, n + 1, Len(l))
<1>1. \A i \in (n + 1)..Len(l) : l[i] \in D
  BY ElementOfSeq
<1>2. /\ r \in Seq(D)
      /\ Len(r) = Len(l) - n
      /\ \A i \in 1..(Len(l) - n) : r[i] = l[n + i]
  <2>1. n + 1 \in Int /\ Len(l) \in Int
    OBVIOUS
  <2>2. /\ r \in Seq(D)
        /\ Len(r) = IF n + 1 <= Len(l) THEN Len(l) - (n + 1) + 1 ELSE 0
        /\ \A i \in 1 .. Len(l) - (n + 1) + 1 : r[i] = l[(n + 1) + i - 1]
    BY <1>1, <2>1, SubSeqProperties
  <2>3. \A i \in 1..(Len(l) - n) : (n + 1) + i - 1 = n + i
    OBVIOUS
  <2>. QED BY <2>2, <2>3
<1>3. CASE s = r
  BY <1>2, <1>3
<1>4. ASSUME Len(s) = Len(l) - n, \A i \in 1..Len(s) : s[i] = l[n + i]
      PROVE  s = r
  <2>1. Len(s) = Len(r) /\ \A i \in 1..Len(s) : s[i] = r[i]
    BY <1>2, <1>4
  <2>. QED BY <1>2, <2>1, SeqEqual
<1>. QED BY <1>3, <1>4

\* The same object, or sequence of objects, added to both ends.
LEMMA SuffixConcat ==
  ASSUME NEW D, NEW s \in Seq(D), NEW l \in Seq(D), NEW m \in Seq(D), Suffix(s, l)
  PROVE  Suffix(s \o m, l \o m)
<1>1. PICK n \in 0..Len(l) : s = SubSeq(l, n + 1, Len(l))
  BY DEF Suffix
<1>2. /\ Len(s) = Len(l) - n
      /\ \A i \in 1..Len(s) : s[i] = l[n + i]
  BY <1>1, SuffixPoints
<1>3. /\ s \o m \in Seq(D) /\ Len(s \o m) = Len(s) + Len(m)
      /\ l \o m \in Seq(D) /\ Len(l \o m) = Len(l) + Len(m)
  BY ConcatProperties
<1>4. ASSUME NEW i \in 1..Len(s \o m)
      PROVE  (s \o m)[i] = (l \o m)[n + i]
  <2>1. i \in 1..(Len(s) + Len(m)) /\ n + i \in 1..(Len(l) + Len(m))
    BY <1>2, <1>3
  <2>2. (s \o m)[i] = IF i <= Len(s) THEN s[i] ELSE m[i - Len(s)]
    BY <2>1, ConcatProperties
  <2>3. (l \o m)[n + i] = IF n + i <= Len(l) THEN l[n + i] ELSE m[n + i - Len(l)]
    BY <2>1, ConcatProperties
  <2>. QED BY <1>2, <2>1, <2>2, <2>3
<1>5. n \in 0..Len(l \o m) /\ Len(s \o m) = Len(l \o m) - n
  BY <1>2, <1>3
<1>6. s \o m = SubSeq(l \o m, n + 1, Len(l \o m))
  BY <1>3, <1>4, <1>5, SuffixPoints
<1>. QED BY <1>5, <1>6 DEF Suffix

LEMMA SuffixAppend ==
  ASSUME NEW D, NEW s \in Seq(D), NEW l \in Seq(D), NEW e \in D, Suffix(s, l)
  PROVE  Suffix(Append(s, e), Append(l, e))
<1> DEFINE one == <<e>>
<1>1. one \in Seq(D) /\ Append(s, e) = s \o one /\ Append(l, e) = l \o one
  OBVIOUS
<1> HIDE DEF one
<1>2. Suffix(s \o one, l \o one)
  BY <1>1, SuffixConcat
<1>. QED BY <1>1, <1>2, Zenon

\* Dropping the oldest k keeps a suffix a suffix.
LEMMA SuffixDrop ==
  ASSUME NEW D, NEW s \in Seq(D), NEW l \in Seq(D), Suffix(s, l), NEW k \in 0..Len(s)
  PROVE  /\ SubSeq(s, k + 1, Len(s)) \in Seq(D)
         /\ Suffix(SubSeq(s, k + 1, Len(s)), l)
<1> DEFINE r == SubSeq(s, k + 1, Len(s))
<1>1. PICK n \in 0..Len(l) : s = SubSeq(l, n + 1, Len(l))
  BY DEF Suffix
<1>2. /\ Len(s) = Len(l) - n
      /\ \A i \in 1..Len(s) : s[i] = l[n + i]
  BY <1>1, SuffixPoints
<1>3. r \in Seq(D)
  OBVIOUS
<1>4. /\ Len(r) = Len(s) - k
      /\ \A i \in 1..Len(r) : r[i] = s[k + i]
  BY <1>3, SuffixPoints
<1>5. n + k \in 0..Len(l) /\ Len(r) = Len(l) - (n + k)
  BY <1>2, <1>4
<1>6. \A i \in 1..Len(r) : r[i] = l[(n + k) + i]
  BY <1>2, <1>4
<1>7. r = SubSeq(l, (n + k) + 1, Len(l))
  BY <1>3, <1>5, <1>6, SuffixPoints
<1>. QED BY <1>3, <1>5, <1>7 DEF Suffix

-----------------------------------------------------------------------------
(***************************************************************************)
(* The objects in a sequence.                                              *)
(***************************************************************************)
Elems(s) == {s[i] : i \in 1..Len(s)}
Distinct(s) == \A i, j \in 1..Len(s) : s[i] = s[j] => i = j

\* A queue that received the objects of another one, after its own.
LEMMA ElemsConcat ==
  ASSUME NEW D, NEW s \in Seq(D), NEW m \in Seq(D)
  PROVE  /\ Elems(s \o m) = Elems(s) \cup Elems(m)
         /\ (Distinct(s) /\ Distinct(m) /\ Elems(s) \cap Elems(m) = {}) => Distinct(s \o m)
<1>1. /\ Len(s \o m) = Len(s) + Len(m)
      /\ \A i \in 1..Len(s) + Len(m) :
            (s \o m)[i] = IF i <= Len(s) THEN s[i] ELSE m[i - Len(s)]
  BY ConcatProperties
<1>2. Len(s) \in Nat /\ Len(m) \in Nat
  OBVIOUS
<1>3. Elems(s \o m) \subseteq Elems(s) \cup Elems(m)
  BY <1>1, <1>2 DEF Elems
<1>4. Elems(s) \subseteq Elems(s \o m)
  BY <1>1, <1>2 DEF Elems
<1>5. Elems(m) \subseteq Elems(s \o m)
  <2>1. ASSUME NEW j \in 1..Len(m) PROVE m[j] \in Elems(s \o m)
    <3>1. /\ Len(s) + j \in 1..Len(s) + Len(m)
          /\ ~(Len(s) + j <= Len(s))
          /\ (Len(s) + j) - Len(s) = j
      BY <1>2
    <3>2. (s \o m)[Len(s) + j] = m[j]
      BY <1>1, <3>1
    <3>. QED BY <1>1, <3>1, <3>2 DEF Elems
  <2>. QED BY <2>1 DEF Elems
<1>6. ASSUME Distinct(s), Distinct(m), Elems(s) \cap Elems(m) = {}
      PROVE  Distinct(s \o m)
  <2> SUFFICES ASSUME NEW i \in 1..Len(s \o m), NEW j \in 1..Len(s \o m),
                      (s \o m)[i] = (s \o m)[j]
               PROVE  i = j
    BY DEF Distinct
  <2>1. CASE i <= Len(s) /\ j <= Len(s)
    BY <1>1, <1>2, <1>6, <2>1 DEF Distinct
  <2>2. CASE ~(i <= Len(s)) /\ ~(j <= Len(s))
    <3>1. i - Len(s) \in 1..Len(m) /\ j - Len(s) \in 1..Len(m)
      BY <1>1, <1>2, <2>2
    <3>2. m[i - Len(s)] = m[j - Len(s)]
      BY <1>1, <2>2
    <3>3. i - Len(s) = j - Len(s)
      BY <1>6, <3>1, <3>2 DEF Distinct
    <3>. QED BY <1>2, <3>3
  <2>3. ASSUME NEW a \in 1..Len(s), NEW b \in 1..Len(s \o m), ~(b <= Len(s)),
               (s \o m)[a] = (s \o m)[b]
        PROVE  FALSE
    <3>1. (s \o m)[a] = s[a] /\ s[a] \in Elems(s)
      BY <1>1, <1>2 DEF Elems
    <3>2. b - Len(s) \in 1..Len(m) /\ (s \o m)[b] = m[b - Len(s)]
      BY <1>1, <1>2, <2>3
    <3>3. m[b - Len(s)] \in Elems(m)
      BY <3>2 DEF Elems
    <3>. QED BY <1>6, <2>3, <3>1, <3>2, <3>3
  <2>4. (i <= Len(s)) <=> (j <= Len(s))
    BY <1>1, <1>2, <2>3
  <2>. QED BY <2>1, <2>2, <2>4
<1>. QED BY <1>3, <1>4, <1>5, <1>6

LEMMA ElemsAppend ==
  ASSUME NEW D, NEW s \in Seq(D), NEW e \in D
  PROVE  /\ Elems(Append(s, e)) = Elems(s) \cup {e}
         /\ (Distinct(s) /\ e \notin Elems(s)) => Distinct(Append(s, e))
<1> DEFINE one == <<e>>
<1>1. one \in Seq(D) /\ Append(s, e) = s \o one
  OBVIOUS
<1>2. Elems(one) = {e} /\ Distinct(one)
  BY DEF Elems, Distinct
<1> HIDE DEF one
<1>3. /\ Elems(s \o one) = Elems(s) \cup Elems(one)
      /\ (Distinct(s) /\ Distinct(one) /\ Elems(s) \cap Elems(one) = {}) => Distinct(s \o one)
  BY <1>1, ElemsConcat
<1>4. e \notin Elems(s) => Elems(s) \cap Elems(one) = {}
  BY <1>2
<1>. QED BY <1>1, <1>2, <1>3, <1>4, Zenon

\* A queue cut after its k oldest objects.
LEMMA ElemsCut ==
  ASSUME NEW D, NEW s \in Seq(D), NEW k \in 0..Len(s)
  PROVE  LET m == SubSeq(s, 1, k)
             r == SubSeq(s, k + 1, Len(s))
         IN  /\ m \in Seq(D) /\ r \in Seq(D)
             /\ Elems(s) = Elems(m) \cup Elems(r)
             /\ Distinct(s) => /\ Distinct(m) /\ Distinct(r)
                               /\ Elems(m) \cap Elems(r) = {}
<1> DEFINE m == SubSeq(s, 1, k)
           r == SubSeq(s, k + 1, Len(s))
<1>1. Len(s) \in Nat /\ k \in Nat
  OBVIOUS
<1>2. /\ m \in Seq(D) /\ Len(m) = k
      /\ \A i \in 1..k : m[i] = s[i]
  OBVIOUS
<1>3. /\ r \in Seq(D) /\ Len(r) = Len(s) - k
      /\ \A i \in 1..(Len(s) - k) : r[i] = s[k + i]
  <2>1. r \in Seq(D)
    OBVIOUS
  <2>. QED BY <2>1, SuffixPoints
<1> HIDE DEF m, r
<1>4. Elems(m) \subseteq Elems(s) /\ Elems(r) \subseteq Elems(s)
  BY <1>1, <1>2, <1>3 DEF Elems
<1>5. ASSUME NEW i \in 1..Len(s) PROVE s[i] \in Elems(m) \cup Elems(r)
  <2>1. CASE i <= k
    BY <1>1, <1>2, <2>1 DEF Elems
  <2>2. CASE ~(i <= k)
    <3>1. i - k \in 1..(Len(s) - k) /\ k + (i - k) = i
      BY <1>1, <2>2
    <3>. QED BY <1>3, <3>1 DEF Elems
  <2>. QED BY <2>1, <2>2
<1>6. Elems(s) = Elems(m) \cup Elems(r)
  BY <1>4, <1>5 DEF Elems
<1>7. Distinct(s) => Distinct(m)
  BY <1>1, <1>2 DEF Distinct
<1>8. ASSUME Distinct(s) PROVE Distinct(r)
  <2> SUFFICES ASSUME NEW i \in 1..Len(r), NEW j \in 1..Len(r), r[i] = r[j] PROVE i = j
    BY DEF Distinct
  <2>1. k + i \in 1..Len(s) /\ k + j \in 1..Len(s) /\ s[k + i] = s[k + j]
    BY <1>1, <1>3
  <2>2. k + i = k + j
    BY <1>8, <2>1 DEF Distinct
  <2>. QED BY <1>1, <2>2
<1>9. ASSUME Distinct(s) PROVE Elems(m) \cap Elems(r) = {}
  <2> SUFFICES ASSUME NEW i \in 1..Len(m), NEW j \in 1..Len(r), m[i] = r[j] PROVE FALSE
    BY DEF Elems
  <2>1. i \in 1..Len(s) /\ k + j \in 1..Len(s) /\ s[i] = s[k + j] /\ i # k + j
    BY <1>1, <1>2, <1>3
  <2>. QED BY <1>9, <2>1 DEF Distinct
<1>. QED BY <1>2, <1>3, <1>6, <1>7, <1>8, <1>9 DEF m, r

-----------------------------------------------------------------------------
(***************************************************************************)
(* Typing.                                                                 *)
(***************************************************************************)

\* The variables of the atomic queue keep their types.
THEOREM FifoTypeCorrect == Fifo!Spec => []Fifo!TypeOK
<1>1. Fifo!Init => Fifo!TypeOK
  BY DEF Fifo!Init, Fifo!TypeOK
<1>2. Fifo!TypeOK /\ [Fifo!Next]_Fifo!fifoVars => Fifo!TypeOK'
  <2> SUFFICES ASSUME Fifo!TypeOK, [Fifo!Next]_Fifo!fifoVars PROVE Fifo!TypeOK'
    OBVIOUS
  <2> USE DEF Fifo!TypeOK
  <2>1. ASSUME NEW q \in Queues, NEW d \in Data, Fifo!Put(q, d) PROVE Fifo!TypeOK'
    BY <2>1 DEF Fifo!Put
  <2>2. ASSUME NEW d \in Data, Fifo!FailPut(d) PROVE Fifo!TypeOK'
    BY <2>2 DEF Fifo!FailPut
  <2>3. ASSUME NEW q \in Queues, Fifo!Take(q) PROVE Fifo!TypeOK'
    <3>1. items[q] \in Seq(Data) /\ items[q] # <<>>
      BY <2>3 DEF Fifo!Take
    <3>2. Head(items[q]) \in Data /\ Tail(items[q]) \in Seq(Data)
      BY <3>1, HeadTailProperties
    <3>. QED BY <2>3, <3>2 DEF Fifo!Take
  <2>4. ASSUME NEW q \in Queues, Fifo!Discard(q) PROVE Fifo!TypeOK'
    <3>1. {items[q][i] : i \in 1..Len(items[q])} \subseteq Data
      BY ElementOfSeq
    <3>. QED BY <2>4, <3>1 DEF Fifo!Discard
  <2>5. ASSUME NEW dst \in Queues, NEW src \in Queues, NEW k \in 0..Len(items[src]),
               Fifo!Move(dst, src, k)
        PROVE  Fifo!TypeOK'
    <3> DEFINE moved == SubSeq(items[src], 1, k)
               rest == SubSeq(items[src], k + 1, Len(items[src]))
    <3>1. moved \in Seq(Data) /\ rest \in Seq(Data)
      OBVIOUS
    <3>2. items[dst] \o moved \in Seq(Data) /\ log[dst] \o moved \in Seq(Data)
      BY <3>1, ConcatProperties
    <3>3. /\ items' = [items EXCEPT ![dst] = @ \o moved, ![src] = rest]
          /\ log' = [log EXCEPT ![dst] = @ \o moved]
          /\ UNCHANGED <<fresh, taken, freed>>
      BY <2>5 DEF Fifo!Move
    <3> HIDE DEF moved, rest
    <3>. QED BY <3>1, <3>2, <3>3
  <2>6. CASE UNCHANGED Fifo!fifoVars
    BY <2>6 DEF Fifo!fifoVars
  <2>. QED BY <2>1, <2>2, <2>3, <2>4, <2>5, <2>6 DEF Fifo!Next
<1>. QED BY <1>1, <1>2, PTL DEF Fifo!Spec

-----------------------------------------------------------------------------
(***************************************************************************)
(* One owner for every object.                                             *)
(***************************************************************************)

\* Whatever the callers do, every object is in exactly one place: it is never
\* lost, handed out twice or freed while a queue or a caller holds it.
THEOREM FifoOneOwner == Fifo!Spec => []Fifo!Ownership
<1>1. Fifo!Init => Fifo!Ownership
  BY DEF Fifo!Init, Fifo!Ownership, Fifo!Complete, Fifo!OneOwner, Fifo!OnePosition, Fifo!Contents
<1>2. Fifo!TypeOK /\ Fifo!Ownership /\ [Fifo!Next]_Fifo!fifoVars => Fifo!Ownership'
  <2> SUFFICES ASSUME Fifo!TypeOK, Fifo!Ownership, [Fifo!Next]_Fifo!fifoVars PROVE Fifo!Ownership'
    OBVIOUS
  <2> DEFINE Held(q) == Elems(items[q])
             Out == fresh \cup taken \cup freed
  <2>1. /\ Data = Out \cup UNION {Held(q) : q \in Queues}
        /\ fresh \cap taken = {} /\ fresh \cap freed = {} /\ taken \cap freed = {}
        /\ \A q \in Queues : Held(q) \cap Out = {}
        /\ \A q, r \in Queues : q # r => Held(q) \cap Held(r) = {}
        /\ \A q \in Queues : Distinct(items[q])
    BY DEF Fifo!Ownership, Fifo!Complete, Fifo!OneOwner, Fifo!OnePosition, Fifo!Contents, Elems, Distinct
  <2>2. /\ Data = Out' \cup UNION {Held(q)' : q \in Queues}
        /\ fresh' \cap taken' = {} /\ fresh' \cap freed' = {} /\ taken' \cap freed' = {}
        /\ \A q \in Queues : Held(q)' \cap Out' = {}
        /\ \A q, r \in Queues : q # r => Held(q)' \cap Held(r)' = {}
        /\ \A q \in Queues : Distinct(items'[q])
        => Fifo!Ownership'
    BY DEF Fifo!Ownership, Fifo!Complete, Fifo!OneOwner, Fifo!OnePosition, Fifo!Contents, Elems, Distinct
  <2>3. \A q \in Queues : items[q] \in Seq(Data)
    BY DEF Fifo!TypeOK
  <2>4. ASSUME NEW q \in Queues, NEW d \in Data, Fifo!Put(q, d) PROVE Fifo!Ownership'
    <3>2. d \in fresh /\ d \notin Held(q)
      BY <2>1, <2>4 DEF Fifo!Put
    <3>3. /\ Elems(Append(items[q], d)) = Held(q) \cup {d}
          /\ Distinct(Append(items[q], d))
      <4>1. items[q] \in Seq(Data) /\ Distinct(items[q]) /\ d \notin Elems(items[q])
        BY <2>1, <2>3, <3>2
      <4>2. /\ Elems(Append(items[q], d)) = Elems(items[q]) \cup {d}
            /\ Distinct(Append(items[q], d))
        BY <4>1, ElemsAppend, Zenon
      <4>. QED BY <4>2
    <3>4. \A r \in Queues : items'[r] = IF r = q THEN Append(items[q], d) ELSE items[r]
      BY <2>4 DEF Fifo!Put, Fifo!TypeOK
    <3>5. fresh' = fresh \ {d} /\ taken' = taken /\ freed' = freed
      BY <2>4 DEF Fifo!Put
    <3>6. \A r \in Queues : Held(r)' = IF r = q THEN Held(q) \cup {d} ELSE Held(r)
      BY <3>3, <3>4
    <3>7. \A r \in Queues : Distinct(items'[r])
      BY <2>1, <3>3, <3>4
    <3> HIDE DEF Held
    <3>. QED BY <2>1, <2>2, <3>2, <3>5, <3>6, <3>7
  <2>5. ASSUME NEW d \in Data, Fifo!FailPut(d) PROVE Fifo!Ownership'
    <3>1. d \in fresh /\ fresh' = fresh \ {d} /\ freed' = freed \cup {d}
          /\ taken' = taken /\ items' = items
      BY <2>5 DEF Fifo!FailPut
    <3>. QED BY <2>1, <2>2, <3>1
  <2>6. ASSUME NEW q \in Queues, Fifo!Take(q) PROVE Fifo!Ownership'
    <3> DEFINE h == SubSeq(items[q], 1, 1)
               r == SubSeq(items[q], 2, Len(items[q]))
    <3>1. items[q] \in Seq(Data) /\ items[q] # <<>> /\ 1 \in 0..Len(items[q])
      BY <2>3, <2>6 DEF Fifo!Take
    <3>2. Tail(items[q]) = r
      BY <3>1, TailIsSubSeq
    <3>3. /\ Held(q) = Elems(h) \cup Elems(r)
          /\ Distinct(r) /\ Elems(h) \cap Elems(r) = {}
      <4>1. 1 + 1 = 2
        OBVIOUS
      <4>. QED BY <2>1, <3>1, <4>1, ElemsCut
    <3>4. Elems(h) = {Head(items[q])}
      <4>1. Len(h) = 1 /\ h[1] = Head(items[q])
        BY <3>1
      <4> HIDE DEF h
      <4>. QED BY <4>1 DEF Elems
    <3>5. taken' = taken \cup Elems(h) /\ fresh' = fresh /\ freed' = freed
      BY <2>6, <3>4 DEF Fifo!Take
    <3>6. \A p \in Queues : items'[p] = IF p = q THEN r ELSE items[p]
      BY <2>6, <3>2 DEF Fifo!Take, Fifo!TypeOK
    <3> HIDE DEF h, r
    <3>7. \A p \in Queues : Held(p)' = IF p = q THEN Elems(r) ELSE Held(p)
      BY <3>6
    <3>8. \A p \in Queues : Distinct(items'[p])
      BY <2>1, <3>3, <3>6
    <3> HIDE DEF Held
    <3>. QED BY <2>1, <2>2, <3>3, <3>5, <3>7, <3>8
  <2>7. ASSUME NEW q \in Queues, Fifo!Discard(q) PROVE Fifo!Ownership'
    <3>1. freed' = freed \cup Held(q) /\ fresh' = fresh /\ taken' = taken
      BY <2>7 DEF Fifo!Discard, Elems
    <3>2. \A p \in Queues : items'[p] = IF p = q THEN <<>> ELSE items[p]
      BY <2>7 DEF Fifo!Discard, Fifo!TypeOK
    <3>3. Elems(<<>>) = {} /\ Distinct(<<>>)
      BY DEF Elems, Distinct
    <3>4. \A p \in Queues : Held(p)' = IF p = q THEN {} ELSE Held(p)
      BY <3>2, <3>3
    <3>5. \A p \in Queues : Distinct(items'[p])
      BY <2>1, <3>2, <3>3
    <3> HIDE DEF Held
    <3>. QED BY <2>1, <2>2, <3>1, <3>4, <3>5
  <2>8. ASSUME NEW dst \in Queues, NEW src \in Queues, NEW k \in 0..Len(items[src]),
               Fifo!Move(dst, src, k)
        PROVE  Fifo!Ownership'
    <3> DEFINE m == SubSeq(items[src], 1, k)
               r == SubSeq(items[src], k + 1, Len(items[src]))
               a == items[dst] \o m
    <3>1. dst # src /\ fresh' = fresh /\ taken' = taken /\ freed' = freed
      BY <2>8 DEF Fifo!Move
    <3>2. \A p \in Queues : items'[p] = IF p = src THEN r ELSE IF p = dst THEN a ELSE items[p]
      BY <2>8, <3>1 DEF Fifo!Move, Fifo!TypeOK
    <3>3. /\ m \in Seq(Data) /\ r \in Seq(Data)
          /\ Held(src) = Elems(m) \cup Elems(r)
          /\ Distinct(m) /\ Distinct(r) /\ Elems(m) \cap Elems(r) = {}
      BY <2>1, <2>3, ElemsCut
    <3> HIDE DEF m, r
    <3>4. Held(dst) \cap Elems(m) = {}
      BY <2>1, <3>1, <3>3
    <3>5. Elems(a) = Held(dst) \cup Elems(m) /\ Distinct(a)
      <4>1. items[dst] \in Seq(Data) /\ Distinct(items[dst])
        BY <2>1, <2>3
      <4>. QED BY <3>3, <3>4, <4>1, ElemsConcat
    <3> HIDE DEF a
    <3>6. \A p \in Queues : Held(p)' = IF p = src THEN Elems(r)
                                     ELSE IF p = dst THEN Held(dst) \cup Elems(m) ELSE Held(p)
      BY <3>2, <3>5
    <3>7. \A p \in Queues : Distinct(items'[p])
      BY <2>1, <3>2, <3>3, <3>5
    <3> HIDE DEF Held
    <3>. QED BY <2>1, <2>2, <3>1, <3>3, <3>6, <3>7
  <2>9. CASE UNCHANGED Fifo!fifoVars
    BY <2>1, <2>2, <2>9 DEF Fifo!fifoVars
  <2>. QED BY <2>4, <2>5, <2>6, <2>7, <2>8, <2>9 DEF Fifo!Next
<1>. QED BY <1>1, <1>2, FifoTypeCorrect, PTL DEF Fifo!Spec

-----------------------------------------------------------------------------
(***************************************************************************)
(* First in, first out.                                                    *)
(***************************************************************************)

\* Whatever has left a queue left it oldest first, however the puts, takes,
\* moves and discards on all queues interleave.
THEOREM FifoInOrder == Fifo!Spec => []Fifo!FifoOrder
<1>0. Fifo!FifoOrder <=> \A q \in Queues : Suffix(items[q], log[q])
  BY DEF Fifo!FifoOrder, Suffix
<1>1. Fifo!Init => Fifo!FifoOrder
  <2> SUFFICES ASSUME Fifo!Init, NEW q \in Queues PROVE Suffix(items[q], log[q])
    BY <1>0
  <2>1. items[q] = <<>> /\ log[q] = <<>>
    BY DEF Fifo!Init
  <2>2. <<>> = SubSeq(<<>>, 0 + 1, Len(<<>>)) /\ 0 \in 0..Len(<<>>)
    BY SubSeqEmpty
  <2>. QED BY <2>1, <2>2 DEF Suffix
<1>2. Fifo!TypeOK /\ Fifo!FifoOrder /\ [Fifo!Next]_Fifo!fifoVars => Fifo!FifoOrder'
  <2> SUFFICES ASSUME Fifo!TypeOK, Fifo!FifoOrder, [Fifo!Next]_Fifo!fifoVars, NEW q \in Queues
               PROVE  Suffix(items'[q], log'[q])
    BY DEF Fifo!FifoOrder, Suffix
  <2>1. items[q] \in Seq(Data) /\ log[q] \in Seq(Data) /\ Suffix(items[q], log[q])
    BY <1>0 DEF Fifo!TypeOK
  <2>2. CASE items'[q] = items[q] /\ log'[q] = log[q]
    BY <2>1, <2>2
  <2>3. ASSUME NEW d \in Data, Fifo!Put(q, d) PROVE Suffix(items'[q], log'[q])
    <3>1. items'[q] = Append(items[q], d) /\ log'[q] = Append(log[q], d)
      BY <2>3 DEF Fifo!Put, Fifo!TypeOK
    <3>. QED BY <2>1, <3>1, SuffixAppend
  <2>4. CASE Fifo!Take(q)
    <3>1. items[q] # <<>> /\ items'[q] = Tail(items[q]) /\ log'[q] = log[q]
      BY <2>4 DEF Fifo!Take, Fifo!TypeOK
    <3>2. 1 \in 0..Len(items[q]) /\ items'[q] = SubSeq(items[q], 1 + 1, Len(items[q]))
      <4>1. 1 + 1 = 2 /\ 1 \in 0..Len(items[q])
        BY <2>1, <3>1
      <4>. QED BY <2>1, <3>1, <4>1, TailIsSubSeq
    <3>. QED BY <2>1, <3>1, <3>2, SuffixDrop
  <2>5. CASE Fifo!Discard(q)
    <3>1. items'[q] = <<>> /\ log'[q] = log[q]
      BY <2>5 DEF Fifo!Discard, Fifo!TypeOK
    <3>2. Len(items[q]) \in 0..Len(items[q])
      BY <2>1
    <3>3. Suffix(SubSeq(items[q], Len(items[q]) + 1, Len(items[q])), log[q])
      BY <2>1, <3>2, SuffixDrop
    <3>4. SubSeq(items[q], Len(items[q]) + 1, Len(items[q])) = <<>>
      BY <3>2, SubSeqEmpty
    <3>. QED BY <3>1, <3>3, <3>4
  <2>6. ASSUME NEW dst \in Queues, NEW src \in Queues, NEW k \in 0..Len(items[src]),
               Fifo!Move(dst, src, k)
        PROVE  Suffix(items'[q], log'[q])
    <3> DEFINE m == SubSeq(items[src], 1, k)
    <3>1. CASE q = dst
      <4>1. m \in Seq(Data)
        BY DEF Fifo!TypeOK
      <4>2. items'[q] = items[q] \o m /\ log'[q] = log[q] \o m
        BY <2>6, <3>1 DEF Fifo!Move, Fifo!TypeOK
      <4> HIDE DEF m
      <4>. QED BY <2>1, <4>1, <4>2, SuffixConcat
    <3>2. CASE q = src
      <4>1. /\ items'[q] = SubSeq(items[q], k + 1, Len(items[q]))
            /\ log'[q] = log[q]
        BY <2>6, <3>2 DEF Fifo!Move, Fifo!TypeOK
      <4>. QED BY <2>1, <3>2, <4>1, SuffixDrop
    <3>3. CASE q # dst /\ q # src
      <4>1. items'[q] = items[q] /\ log'[q] = log[q]
        BY <2>6, <3>3 DEF Fifo!Move, Fifo!TypeOK
      <4>. QED BY <2>2, <4>1
    <3>. QED BY <3>1, <3>2, <3>3
  <2>7. ASSUME NEW p \in Queues, p # q,
               (\E d \in Data : Fifo!Put(p, d)) \/ Fifo!Take(p) \/ Fifo!Discard(p)
        PROVE  Suffix(items'[q], log'[q])
    <3>1. items'[q] = items[q] /\ log'[q] = log[q]
      BY <2>7 DEF Fifo!Put, Fifo!Take, Fifo!Discard, Fifo!TypeOK
    <3>. QED BY <2>2, <3>1
  <2>8. CASE UNCHANGED Fifo!fifoVars \/ \E d \in Data : Fifo!FailPut(d)
    BY <2>2, <2>8 DEF Fifo!fifoVars, Fifo!FailPut
  <2>. QED BY <2>3, <2>4, <2>5, <2>6, <2>7, <2>8 DEF Fifo!Next
<1>. QED BY <1>1, <1>2, FifoTypeCorrect, PTL DEF Fifo!Spec

-----------------------------------------------------------------------------
(***************************************************************************)
(* The threads.                                                            *)
(***************************************************************************)
\* What the refinement needs to know about control; no data is involved.
IInv == CtlTypeOK /\ Inside

-----------------------------------------------------------------------------
\* A thread inside push, wait_pop or append_from knows its queues, and a held
\* m_accessMutex belongs to the append_from that runs on that queue.
THEOREM Inductive == Spec => []IInv
<1>1. Init => IInv
  BY NoneAssumption DEF Init, IInv, CtlTypeOK, Inside, PcValues
<1>2. IInv /\ [Next]_vars => IInv'
  <2> SUFFICES ASSUME IInv, [Next]_vars PROVE IInv'
    OBVIOUS
  <2> USE NoneAssumption DEF IInv, CtlTypeOK, Inside, PcValues, Goto, Enter, Return, Unlocked
  <2>1. ASSUME UNCHANGED ctlVars PROVE IInv'
    BY <2>1 DEF ctlVars
  <2>2. ASSUME NEW t \in Threads, NEW q \in Queues, NEW d \in Data, push(t, q, d)
        PROVE  IInv'
    BY <2>2 DEF push
  <2>3. ASSUME NEW t \in Threads, broadcast(t) PROVE IInv'
    <3>1. CtlTypeOK'
      BY <2>3 DEF broadcast, Waiters
    <3>2. pc[t] = "pushed" /\ pc'[t] = "idle" /\ accessMutex' = accessMutex /\ other' = other
      BY <2>3 DEF broadcast
    <3>3. ASSUME NEW u \in Threads, u # t
          PROVE  /\ self'[u] = self[u]
                 /\ pc'[u] = pc[u] \/ (pc[u] = "waiting" /\ pc'[u] = "woken")
      BY <2>3, <3>3 DEF broadcast, Waiters
    <3>4. Inside'
      <4> SUFFICES ASSUME NEW u \in Threads
                   PROVE  /\ pc'[u] # "idle" => self'[u] \in Queues
                          /\ pc'[u] = "appending" => /\ <<self'[u], other'[u]>> \in AppendPairs
                                                     /\ accessMutex'[self'[u]] = u
                          /\ \A q \in Queues : accessMutex'[q] = u
                                               => pc'[u] = "appending" /\ self'[u] = q
        OBVIOUS
      <4>1. CASE u = t
        BY <3>2, <4>1
      <4>2. CASE u # t
        BY <3>2, <3>3, <4>2
      <4>. QED BY <4>1, <4>2
    <3>. QED BY <3>1, <3>4
  <2>4. ASSUME NEW t \in Threads, NEW q \in Queues, NEW m \in WaitModes, wait_pop(t, q, m)
        PROVE  IInv'
    BY <2>4, ModesAssumption DEF wait_pop
  <2>5. ASSUME NEW t \in Threads, cond_wait(t) \/ wait_expires(t) \/ spurious_wakeup(t)
        PROVE  IInv'
    BY <2>5 DEF cond_wait, wait_expires, spurious_wakeup
  <2>6. ASSUME NEW t \in Threads, recheck(t) PROVE IInv'
    <3>1. CASE Return(t) /\ UNCHANGED accessMutex
      BY <2>6, <3>1 DEF recheck
    <3>2. CASE Goto(t, "checked") /\ UNCHANGED <<self, other, mode, accessMutex>>
      BY <2>6, <3>2 DEF recheck
    <3>. QED BY <2>6, <3>1, <3>2 DEF recheck
  <2>7. ASSUME NEW t \in Threads, NEW q \in Queues, NEW r \in Queues, append_from(t, q, r)
        PROVE  IInv'
    <3>1. CtlTypeOK'
      BY <2>7 DEF append_from
    <3>2. /\ pc'[t] = "appending" /\ self'[t] = q /\ other'[t] = r
          /\ <<q, r>> \in AppendPairs
          /\ accessMutex[q] = NoThread /\ accessMutex'[q] = t /\ pc[t] = "idle"
      BY <2>7 DEF append_from
    <3>3. /\ \A u \in Threads : u # t => pc'[u] = pc[u] /\ self'[u] = self[u] /\ other'[u] = other[u]
          /\ \A p \in Queues : p # q => accessMutex'[p] = accessMutex[p]
      BY <2>7 DEF append_from
    <3>4. Inside'
      <4> SUFFICES ASSUME NEW u \in Threads
                   PROVE  /\ pc'[u] # "idle" => self'[u] \in Queues
                          /\ pc'[u] = "appending" => /\ <<self'[u], other'[u]>> \in AppendPairs
                                                     /\ accessMutex'[self'[u]] = u
                          /\ \A p \in Queues : accessMutex'[p] = u
                                               => pc'[u] = "appending" /\ self'[u] = p
        OBVIOUS
      <4>1. CASE u = t
        <5>1. \A p \in Queues : accessMutex[p] # t
          BY <3>2
        <5>2. \A p \in Queues : accessMutex'[p] = t => p = q
          BY <3>3, <5>1
        <5>. QED BY <3>2, <4>1, <5>2
      <4>2. CASE u # t
        <5>1. pc[u] = "appending" =>
                /\ self[u] \in Queues /\ accessMutex[self[u]] = u /\ self[u] # q
                /\ <<self[u], other[u]>> \in AppendPairs
          BY <3>2, <4>2
        <5>2. \A p \in Queues : accessMutex'[p] = u => accessMutex[p] = u
          BY <3>2, <3>3, <4>2
        <5>. QED BY <3>3, <4>2, <5>1, <5>2
      <4>. QED BY <4>1, <4>2
    <3>. QED BY <3>1, <3>4
  <2>8. ASSUME NEW t \in Threads, append_moves(t) PROVE IInv'
    <3>1. CtlTypeOK'
      BY <2>8 DEF append_moves
    <3>2. /\ pc[t] = "appending" /\ pc'[t] = "idle"
          /\ self[t] \in Queues /\ accessMutex[self[t]] = t /\ accessMutex'[self[t]] = NoThread
      BY <2>8 DEF append_moves
    <3>3. /\ \A u \in Threads : u # t => pc'[u] = pc[u] /\ self'[u] = self[u] /\ other'[u] = other[u]
          /\ \A p \in Queues : p # self[t] => accessMutex'[p] = accessMutex[p]
      BY <2>8 DEF append_moves
    <3>4. Inside'
      <4> SUFFICES ASSUME NEW u \in Threads
                   PROVE  /\ pc'[u] # "idle" => self'[u] \in Queues
                          /\ pc'[u] = "appending" => /\ <<self'[u], other'[u]>> \in AppendPairs
                                                     /\ accessMutex'[self'[u]] = u
                          /\ \A q \in Queues : accessMutex'[q] = u
                                               => pc'[u] = "appending" /\ self'[u] = q
        OBVIOUS
      <4>1. CASE u = t
        <5>1. \A p \in Queues : accessMutex[p] = t => p = self[t]
          OBVIOUS
        <5>2. \A p \in Queues : accessMutex'[p] # t
          BY <3>2, <3>3, <5>1
        <5>. QED BY <3>2, <4>1, <5>2
      <4>2. CASE u # t
        <5>1. pc[u] = "appending" =>
                /\ self[u] \in Queues /\ accessMutex[self[u]] = u /\ self[u] # self[t]
                /\ <<self[u], other[u]>> \in AppendPairs
          BY <3>2, <4>2
        <5>2. \A p \in Queues : accessMutex'[p] = u => accessMutex[p] = u
          BY <3>2, <3>3, <4>2
        <5>. QED BY <3>3, <4>2, <5>1, <5>2
      <4>. QED BY <4>1, <4>2
    <3>. QED BY <3>1, <3>4
  <2>9. ASSUME NEW t \in Threads, Call(t) PROVE IInv'
    BY <2>1, <2>2, <2>4, <2>7, <2>9 DEF Call, push_throws, pop
  <2>10. ASSUME NEW t \in Threads, Continue(t) \/ Wake(t) PROVE IInv'
    BY <2>3, <2>5, <2>6, <2>8, <2>10 DEF Continue, Wake
  <2>11. ASSUME NEW q \in Queues, destroy(q) PROVE IInv'
    BY <2>1, <2>11 DEF destroy
  <2>12. CASE UNCHANGED vars
    BY <2>1, <2>12 DEF vars, ctlVars
  <2>. QED BY <2>9, <2>10, <2>11, <2>12 DEF Next
<1>. QED BY <1>1, <1>2, PTL DEF Spec

\* The part of it that a run checks too.
THEOREM InsideAlways == Spec => []Inside
BY Inductive, PTL DEF IInv

-----------------------------------------------------------------------------
\* Every step of the threads is one step of the atomic queue, or none.
THEOREM Refinement == Spec => ImplementsFifo
<1>1. Init => Fifo!Init
  BY DEF Init, Fifo!Init
<1>2. IInv /\ [Next]_vars => [Fifo!Next]_Fifo!fifoVars
  <2> SUFFICES ASSUME IInv, [Next]_vars PROVE [Fifo!Next]_Fifo!fifoVars
    OBVIOUS
  <2> USE DEF Fifo!fifoVars
  <2>1. ASSUME NEW t \in Threads, NEW q \in Queues, NEW d \in Data,
               push(t, q, d) \/ push_throws(t, q, d)
        PROVE  Fifo!Next
    BY <2>1 DEF push, push_throws, Fifo!Next, Fifo!Put, Fifo!FailPut
  <2>2. ASSUME NEW q \in Queues, TakeFront(q) PROVE Fifo!Next
    BY <2>2 DEF TakeFront, Fifo!Next, Fifo!Take
  <2>3. ASSUME NEW t \in Threads, append_moves(t) PROVE Fifo!Next
    <3>1. self[t] \in Queues /\ other[t] \in Queues /\ self[t] # other[t]
      <4>1. <<self[t], other[t]>> \in AppendPairs
        BY <2>3 DEF append_moves, IInv, Inside
      <4>. QED BY <4>1, AppendPairsAssumption
    <3>2. PICK k \in 0..Len(items[other[t]]) : Fifo!Move(self[t], other[t], k)
      BY <2>3, <3>1 DEF append_moves, Fifo!Move
    <3>. QED BY <3>1, <3>2 DEF Fifo!Next
  <2>4. ASSUME NEW q \in Queues, destroy(q) PROVE Fifo!Next
    BY <2>4 DEF destroy, Fifo!Next, Fifo!Discard
  <2>5. ASSUME NEW t \in Threads, recheck(t) PROVE Fifo!Next \/ UNCHANGED dataVars
    <3>1. self[t] \in Queues
      BY <2>5 DEF recheck, IInv, Inside
    <3>. QED BY <2>2, <2>5, <3>1 DEF recheck
  <2>6. ASSUME NEW t \in Threads, broadcast(t) \/ cond_wait(t) \/ Wake(t)
        PROVE  UNCHANGED dataVars
    BY <2>6 DEF broadcast, cond_wait, Wake, wait_expires, spurious_wakeup
  <2>7. ASSUME NEW t \in Threads, NEW q \in Queues,
               pop(t, q) \/ (\E m \in WaitModes : wait_pop(t, q, m))
                 \/ \E r \in Queues : append_from(t, q, r)
        PROVE  Fifo!Next \/ UNCHANGED dataVars
    BY <2>2, <2>7 DEF pop, wait_pop, append_from
  <2>8. CASE UNCHANGED vars
    BY <2>8 DEF vars
  <2>. QED
    BY <2>1, <2>3, <2>4, <2>5, <2>6, <2>7, <2>8 DEF Next, Call, Continue, dataVars
<1>. QED BY <1>1, <1>2, Inductive, PTL DEF Spec, ImplementsFifo, Fifo!Spec

-----------------------------------------------------------------------------
\* The variables keep their types.
THEOREM TypeCorrect == Spec => []TypeOK
<1>1. IInv /\ Fifo!TypeOK => TypeOK
  BY DEF IInv, TypeOK
<1>. QED BY <1>1, FifoTypeCorrect, Refinement, Inductive, PTL DEF ImplementsFifo

\* No message is lost, duplicated or freed under a consumer, whatever the
\* interleaving of the member functions and whatever exceptions interrupt them.
THEOREM OwnershipAlways == Spec => []Ownership
BY FifoOneOwner, Refinement, PTL DEF ImplementsFifo, Ownership

\* Messages leave every queue in the order they entered it.
THEOREM FifoOrderAlways == Spec => []FifoOrder
BY FifoInOrder, Refinement, PTL DEF ImplementsFifo, FifoOrder
=============================================================================
