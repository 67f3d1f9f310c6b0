------------------------- MODULE RoutingQueue_proof -------------------------
(***************************************************************************)
(* The safety of the router for any number of clients, sockets, buffers    *)
(* and devices.  The invariants build on one another: control and typing,  *)
(* then where the buffers are, then which queue has which packets, then    *)
(* their order, and at last that no packet is lost or repeated.            *)
(***************************************************************************)
EXTENDS RoutingQueue, SequenceTheorems, FiniteSetTheorems, TLAPS

-----------------------------------------------------------------------------
(***************************************************************************)
(* What a push and a pop do to the buffers in a queue.                     *)
(***************************************************************************)
LEMMA EmptyQueue == Contents(<<>>) = {} /\ NoRepeat(<<>>)
BY DEF Contents, NoRepeat

LEMMA QueueBuffers == \A q \in Seq(Buffers) : Contents(q) \subseteq Buffers
BY DEF Contents

LEMMA PushBuffer ==
  ASSUME NEW q \in Seq(Buffers), NEW b \in Buffers
  PROVE  /\ Append(q, b) \in Seq(Buffers)
         /\ Contents(Append(q, b)) = Contents(q) \cup {b}
         /\ NoRepeat(q) /\ b \notin Contents(q) => NoRepeat(Append(q, b))
<1> DEFINE p == Append(q, b)
<1>1. /\ p \in Seq(Buffers) /\ Len(p) = Len(q) + 1 /\ Len(q) \in Nat
      /\ \A i \in 1..Len(q) : p[i] = q[i]
      /\ p[Len(q) + 1] = b
  BY AppendProperties
<1> HIDE DEF p
<1>2. Contents(p) = Contents(q) \cup {b}
  BY <1>1 DEF Contents
<1>3. ASSUME NoRepeat(q), b \notin Contents(q) PROVE NoRepeat(p)
  BY <1>1, <1>3 DEF NoRepeat, Contents
<1>. QED BY <1>1, <1>2, <1>3 DEF p

LEMMA PopBuffer ==
  ASSUME NEW q \in Seq(Buffers), q # <<>>
  PROVE  /\ Head(q) \in Buffers /\ Tail(q) \in Seq(Buffers)
         /\ Contents(q) = Contents(Tail(q)) \cup {Head(q)}
         /\ NoRepeat(q) => NoRepeat(Tail(q)) /\ Head(q) \notin Contents(Tail(q))
<1> DEFINE n == Len(q)
<1>1. /\ n \in Nat \ {0} /\ Head(q) = q[1] /\ Head(q) \in Buffers
      /\ Tail(q) \in Seq(Buffers) /\ Len(Tail(q)) = n - 1
      /\ \A i \in 1..(n - 1) : Tail(q)[i] = q[i + 1]
  BY HeadTailProperties, EmptySeq
<1> HIDE DEF n
<1>2. Contents(q) \subseteq Contents(Tail(q)) \cup {Head(q)}
  <2>1. ASSUME NEW i \in 1..n PROVE q[i] \in Contents(Tail(q)) \cup {Head(q)}
    <3>1. CASE i = 1
      BY <1>1, <3>1
    <3>2. CASE i # 1
      <4>1. i - 1 \in 1..(n - 1) /\ (i - 1) + 1 = i
        BY <1>1, <3>2
      <4>. QED BY <1>1, <4>1 DEF Contents
    <3>. QED BY <3>1, <3>2
  <2>. QED BY <2>1 DEF Contents, n
<1>3. Contents(Tail(q)) \cup {Head(q)} \subseteq Contents(q)
  <2>1. \A i \in 1..(n - 1) : i + 1 \in 1..n
    BY <1>1
  <2>2. 1 \in 1..n
    BY <1>1
  <2>. QED BY <1>1, <2>1, <2>2 DEF Contents, n
<1>4. ASSUME NoRepeat(q) PROVE NoRepeat(Tail(q)) /\ Head(q) \notin Contents(Tail(q))
  <2>1. \A i, j \in 1..n : q[i] = q[j] => i = j
    BY <1>4 DEF NoRepeat, n
  <2>2. \A i \in 1..(n - 1) : i + 1 \in 1..n /\ 1 \in 1..n /\ i + 1 # 1
    BY <1>1
  <2>3. Head(q) \notin Contents(Tail(q))
    BY <1>1, <2>1, <2>2 DEF Contents
  <2>4. ASSUME NEW i \in 1..(n - 1), NEW j \in 1..(n - 1), Tail(q)[i] = Tail(q)[j]
        PROVE  i = j
    <3>1. q[i + 1] = q[j + 1]
      BY <1>1, <2>4
    <3>2. i + 1 = j + 1
      BY <2>1, <2>2, <3>1
    <3>. QED BY <3>2
  <2>. QED BY <1>1, <2>3, <2>4 DEF NoRepeat
<1>. QED BY <1>1, <1>2, <1>3, <1>4

-----------------------------------------------------------------------------
(***************************************************************************)
(* Control and typing.                                                     *)
(***************************************************************************)
Holding == {"reading", "routing", "handling", "defaulting"}

\* The read thread has a buffer exactly while it works on one, there is no read
\* thread before SpinoffSimpleReadThread, a client waits on the queue of an
\* entry with an empty DataHandle, and m_interest says whether the map is empty.
Control ==
  /\ reader.buf # None <=> reader.pc \in Holding
  /\ (alive = "alive" /\ ~m_continue_reading) => reader.pc = "off"
  /\ \A c \in Clients : client[c].pc = "popping" =>
                          client[c].qep \in Entries /\ client[c].handle = None
  /\ m_interest <=> \E s \in Sockets : m_socketQueues[s] # None

\* Whatever is on its way is a packet that has arrived.
Filled == \A b \in Travelling : content[b] \in Packets /\ content[b].number <= arrived

CInv == TypeOK /\ Control /\ Filled

LEMMA NoneApart == None \notin Buffers /\ None \notin Entries /\ None \notin Devices
BY NoneAssumption

\* What the read thread, the clients and m_interest know of each other holds
\* throughout, for any number of clients, sockets and buffers (DoRead, SocketRead).
THEOREM ControlAlways == Spec => []CInv
<1>1. Init => CInv
  <2> SUFFICES ASSUME Init PROVE CInv
    OBVIOUS
  <2> USE NoneAssumption, PacketsAssumption
  <2>1. TypeOK
    <3>1. m_free \subseteq Buffers /\ unmade \subseteq Buffers
      BY DEF Init
    <3>2. content \in [Buffers -> Packets \cup {NoPacket}]
      BY DEF Init
    <3>3. entry \in [Entries -> EntryRecord]
      BY DEF Init, EntryRecord
    <3>4. client \in [Clients -> ClientRecord] /\ reader \in ReaderRecord
      BY DEF Init, ClientRecord, ReaderRecord
    <3>5. m_interest \in BOOLEAN /\ m_continue_reading \in BOOLEAN
      BY Zenon DEF Init
    <3>6. /\ m_dev \in Devices \cup {None} /\ m_socketQueues \in [Sockets -> Entries \cup {None}]
          /\ alive \in {"alive", "joining", "gone"} /\ device \in [Devices -> {"unmade", "open", "closed"}]
          /\ m_default \in Seq(Buffers) /\ arrived \in 0..MaxPackets /\ fate \subseteq Fates
      BY DEF Init
    <3>. QED BY <3>1, <3>2, <3>3, <3>4, <3>5, <3>6 DEF TypeOK
  <2>2. Control
    BY DEF Init, Control, Holding
  <2>3. Travelling = {}
    BY EmptyQueue DEF Init, Travelling
  <2>. QED BY <2>1, <2>2, <2>3 DEF CInv, Filled
<1>2. CInv /\ [Next]_vars => CInv'
  <2> SUFFICES ASSUME CInv, [Next]_vars PROVE CInv'
    OBVIOUS
  <2> USE NoneApart, PacketsAssumption
  <2>0. TypeOK /\ Control /\ Filled
    BY DEF CInv
  \* The read thread.
  <2>1. CASE stop_reading \/ DoRead_sleeps
    <3>1. TypeOK'
      BY <2>0, <2>1 DEF TypeOK, ReaderRecord, stop_reading, DoRead_sleeps, Goto, routerVars, worldVars
    <3>2. Control'
      BY <2>0, <2>1 DEF TypeOK, ReaderRecord, Control, Holding, stop_reading, DoRead_sleeps, At, Goto, routerVars, worldVars
    <3>3. Filled'
      BY <2>0, <2>1 DEF TypeOK, ReaderRecord, Filled, Travelling, stop_reading, DoRead_sleeps, At, Goto, routerVars, worldVars
    <3>. QED BY <3>1, <3>2, <3>3 DEF CInv
  <2>2. CASE DoRead_begins
    <3> PICK b \in (IF m_free # {} THEN m_free ELSE unmade) :
             /\ reader' = [reader EXCEPT !.pc = "reading", !.dev = m_dev, !.buf = b]
             /\ m_free' = m_free \ {b}
             /\ unmade' = unmade \ {b}
      BY <2>2 DEF DoRead_begins
    <3>0. b \in Buffers
      BY <2>0 DEF TypeOK
    <3>1. TypeOK'
      BY <2>0, <2>2, <3>0 DEF TypeOK, ReaderRecord, DoRead_begins, routerVars
    <3>2. Control'
      BY <2>0, <2>2, <3>0 DEF TypeOK, Control, Holding, DoRead_begins, At, routerVars
    <3>3. Filled'
      BY <2>0, <2>2 DEF TypeOK, Filled, Travelling, DoRead_begins, At, routerVars
    <3>. QED BY <3>1, <3>2, <3>3 DEF CInv
  <2>3. CASE BulkRead_nothing
    <3>1. TypeOK'
      BY <2>0, <2>3 DEF TypeOK, ReaderRecord, Control, Holding, BulkRead_nothing, ReturnReadBuffer, WithoutBuffer, At, routerVars, worldVars
    <3>2. Control'
      BY <2>0, <2>3 DEF TypeOK, Control, Holding, BulkRead_nothing, ReturnReadBuffer, WithoutBuffer, At, routerVars, worldVars
    <3>3. Filled'
      BY <2>0, <2>3 DEF TypeOK, Filled, Travelling, BulkRead_nothing, ReturnReadBuffer, WithoutBuffer, At, routerVars, worldVars
    <3>. QED BY <3>1, <3>2, <3>3 DEF CInv
  <2>4. ASSUME NEW s \in Sockets, BulkRead(s) PROVE CInv'
    <3>0. /\ reader.pc = "reading" /\ reader.buf \in Buffers
          /\ arrived < MaxPackets /\ arrived' = arrived + 1
          /\ content' = [content EXCEPT ![reader.buf] = [socket |-> s, number |-> arrived + 1]]
          /\ reader' = [reader EXCEPT !.pc = "routing"]
          /\ [socket |-> s, number |-> arrived + 1] \in Packets
      BY <2>0, <2>4 DEF TypeOK, ReaderRecord, Control, Holding, BulkRead, At, Goto, Packets
    <3>1. TypeOK'
      <4>1. reader' \in ReaderRecord
        BY <2>0, <3>0 DEF TypeOK, ReaderRecord
      <4>2. content' \in [Buffers -> Packets \cup {NoPacket}] /\ arrived' \in 0..MaxPackets
        BY <2>0, <3>0 DEF TypeOK
      <4>. QED BY <2>0, <2>4, <4>1, <4>2 DEF TypeOK, BulkRead, routerVars
    <3>2. Control'
      BY <2>0, <2>4, <3>0 DEF TypeOK, Control, Holding, BulkRead, routerVars
    <3>3. \A b \in Buffers : b = reader.buf \/ content'[b] = content[b]
      BY <2>0, <3>0 DEF TypeOK
    <3>4. content'[reader.buf] = [socket |-> s, number |-> arrived + 1]
      BY <2>0, <3>0 DEF TypeOK
    <3>5. Filled'
      <4> SUFFICES ASSUME NEW b \in Travelling'
                   PROVE  content'[b] \in Packets /\ content'[b].number <= arrived'
        BY DEF Filled
      <4>1. CASE b = reader.buf
        BY <2>0, <3>0, <3>4, <4>1 DEF TypeOK
      <4>2. CASE b # reader.buf
        <5>1. b \in Travelling
          BY <2>4, <3>0, <4>2 DEF BulkRead, Travelling
        <5>2. b \in Buffers
          BY <2>0, <3>0, <5>1, QueueBuffers DEF TypeOK, Travelling
        <5>3. content[b] \in Packets /\ content[b].number <= arrived
          BY <2>0, <5>1 DEF Filled
        <5>. QED BY <2>0, <3>0, <3>3, <4>2, <5>2, <5>3 DEF TypeOK, Packets
      <4>. QED BY <4>1, <4>2
    <3>. QED BY <3>1, <3>2, <3>5 DEF CInv
  <2>5. CASE route_to_queue
    <3>0. /\ reader.pc = "routing" /\ reader.buf \in Buffers /\ Found \in Entries
          /\ entry' = [entry EXCEPT ![Found].queue = Append(@, reader.buf)]
          /\ entry[Found].queue \in Seq(Buffers)
      BY <2>0, <2>5 DEF TypeOK, ReaderRecord, EntryRecord, Control, Holding, route_to_queue, At, Found, Filled, Travelling, Packets
    <3>1. TypeOK'
      <4>1. reader' \in ReaderRecord
        BY <2>0, <2>5 DEF TypeOK, ReaderRecord, route_to_queue, WithoutBuffer
      <4>2. Append(entry[Found].queue, reader.buf) \in Seq(Buffers)
        BY <3>0, PushBuffer
      <4>3. entry' \in [Entries -> EntryRecord]
        <5>1. entry[Found] \in EntryRecord
          BY <2>0, <3>0 DEF TypeOK
        <5>2. [entry[Found] EXCEPT !.queue = Append(@, reader.buf)] \in EntryRecord
          BY <4>2, <5>1 DEF EntryRecord
        <5>. QED BY <2>0, <3>0, <5>2 DEF TypeOK
      <4>. QED BY <2>0, <2>5, <4>1, <4>3 DEF TypeOK, route_to_queue, routerVars, worldVars
    <3>2. Control'
      BY <2>0, <2>5 DEF TypeOK, Control, Holding, route_to_queue, WithoutBuffer, At, routerVars, worldVars
    <3>3. Travelling' \subseteq Travelling
      <4>1. \A e \in Entries : entry'[e].queue = IF e = Found THEN Append(entry[Found].queue, reader.buf)
                                                             ELSE entry[e].queue
        BY <2>0, <3>0 DEF TypeOK
      <4>2. \A e \in Entries : Contents(entry'[e].queue) \subseteq Contents(entry[e].queue) \cup {reader.buf}
        BY <3>0, <4>1, PushBuffer
      <4>3. reader'.pc = "signalling" /\ m_default' = m_default
        BY <2>0, <2>5 DEF TypeOK, route_to_queue, WithoutBuffer
      <4>. QED BY <3>0, <4>2, <4>3 DEF Travelling
    <3>4. Filled'
      BY <2>0, <2>5, <3>3 DEF Filled, route_to_queue, worldVars
    <3>. QED BY <3>1, <3>2, <3>4 DEF CInv
  <2>6. CASE route_to_handler \/ route_to_default
    <3>0. reader.pc = "routing" /\ reader'.pc \in {"handling", "defaulting"} /\ reader'.buf = reader.buf
      BY <2>0, <2>6 DEF TypeOK, ReaderRecord, route_to_handler, route_to_default, At, Goto
    <3>1. TypeOK'
      <4>1. content[reader.buf] \in Packets
        BY <2>0, <3>0 DEF TypeOK, ReaderRecord, Control, Holding, Filled, Travelling
      <4>2. Found \in Entries \cup {None}
        BY <2>0, <4>1 DEF TypeOK, Found, Packets
      <4>3. reader' \in ReaderRecord
        BY <2>0, <2>6, <4>2 DEF TypeOK, ReaderRecord, route_to_handler, route_to_default, Goto
      <4>. QED BY <2>0, <2>6, <4>3 DEF TypeOK, route_to_handler, route_to_default, routerVars, worldVars
    <3>2. Control'
      BY <2>0, <2>6, <3>0 DEF Control, Holding, route_to_handler, route_to_default, routerVars, worldVars
    <3>3. Filled'
      BY <2>0, <2>6, <3>0 DEF Filled, Travelling, route_to_handler, route_to_default, routerVars, worldVars
    <3>. QED BY <3>1, <3>2, <3>3 DEF CInv
  <2>7. CASE call_handler
    <3>0. /\ reader.pc = "handling" /\ reader.buf \in Buffers /\ content[reader.buf] \in Packets
          /\ reader' = [reader EXCEPT !.pc = "signalling", !.buf = None, !.qi = None]
      BY <2>0, <2>7 DEF TypeOK, ReaderRecord, Control, Holding, Filled, Travelling, call_handler, At, ReturnReadBuffer, WithoutBuffer
    <3>1. TypeOK'
      <4>1. reader' \in ReaderRecord
        BY <2>0, <3>0 DEF TypeOK, ReaderRecord
      <4>2. fate' \subseteq Fates
        BY <2>0, <2>7, <3>0 DEF TypeOK, Fates, call_handler, Consumed, Packets
      <4>3. m_free' \subseteq Buffers
        BY <2>0, <2>7, <3>0 DEF TypeOK, call_handler, ReturnReadBuffer
      <4>. QED BY <2>0, <2>7, <4>1, <4>2, <4>3 DEF TypeOK, call_handler, routerVars, worldVars
    <3>2. Control'
      BY <2>0, <2>7, <3>0 DEF TypeOK, Control, Holding, call_handler, routerVars, worldVars
    <3>3. Filled'
      BY <2>0, <2>7, <3>0 DEF TypeOK, Filled, Travelling, call_handler, routerVars, worldVars
    <3>. QED BY <3>1, <3>2, <3>3 DEF CInv
  <2>8. CASE push_default
    <3>0. /\ reader.pc = "defaulting" /\ reader.buf \in Buffers /\ m_default \in Seq(Buffers)
          /\ m_default' = Append(m_default, reader.buf)
          /\ reader' = [reader EXCEPT !.pc = "signalling", !.buf = None, !.qi = None]
      BY <2>0, <2>8 DEF TypeOK, ReaderRecord, Control, Holding, push_default, At, WithoutBuffer
    <3>1. TypeOK'
      <4>1. reader' \in ReaderRecord
        BY <2>0, <3>0 DEF TypeOK, ReaderRecord
      <4>2. m_default' \in Seq(Buffers)
        BY <3>0, PushBuffer
      <4>. QED BY <2>0, <2>8, <4>1, <4>2 DEF TypeOK, push_default, routerVars, worldVars
    <3>2. Control'
      BY <2>0, <2>8, <3>0 DEF TypeOK, Control, Holding, push_default, routerVars, worldVars
    <3>3. Travelling' \subseteq Travelling
      <4>1. Contents(m_default') = Contents(m_default) \cup {reader.buf}
        BY <3>0, PushBuffer
      <4>2. reader'.pc = "signalling" /\ entry' = entry
        BY <2>0, <2>8, <3>0 DEF TypeOK, push_default
      <4>. QED BY <3>0, <4>1, <4>2 DEF Travelling
    <3>4. Filled'
      BY <2>0, <2>8, <3>3 DEF Filled, push_default, worldVars
    <3>. QED BY <3>1, <3>2, <3>4 DEF CInv
  <2>9. CASE signal
    <3>0. /\ client' \in [Clients -> ClientRecord]
          /\ \A c \in Clients : client'[c].pc = "popping" => client'[c] = client[c]
      <4>1. CASE UNCHANGED client
        BY <2>0, <4>1 DEF TypeOK, ClientRecord
      <4>2. ASSUME NEW c \in Clients, client' = [client EXCEPT ![c].pc = "cleared"]
            PROVE  /\ client' \in [Clients -> ClientRecord]
                   /\ \A x \in Clients : client'[x].pc = "popping" => client'[x] = client[x]
        <5>1. client[c] \in ClientRecord
          BY <2>0 DEF TypeOK
        <5>2. /\ [client[c] EXCEPT !.pc = "cleared"] \in ClientRecord
              /\ [client[c] EXCEPT !.pc = "cleared"].pc = "cleared"
          BY <5>1 DEF ClientRecord
        <5>. QED BY <2>0, <4>2, <5>2 DEF TypeOK
      <4>. QED BY <2>9, <4>1, <4>2 DEF signal, WakeOne
    <3>1. TypeOK'
      <4>1. reader' \in ReaderRecord
        BY <2>0, <2>9 DEF TypeOK, ReaderRecord, signal
      <4>. QED BY <2>0, <2>9, <3>0, <4>1 DEF TypeOK, signal, routerVars, worldVars
    <3>2. Control'
      BY <2>0, <2>9, <3>0 DEF TypeOK, Control, Holding, signal, At, routerVars, worldVars
    <3>3. Filled'
      BY <2>0, <2>9 DEF TypeOK, Filled, Travelling, signal, At, routerVars, worldVars
    <3>. QED BY <3>1, <3>2, <3>3 DEF CInv
  \* The clients.
  <2>10. ASSUME NEW c \in Clients, NEW s \in Sockets, NEW h \in BOOLEAN, RegisterInterest(c, s, h)
         PROVE  CInv'
    <3> PICK e \in Entries \ InUse :
             /\ m_socketQueues' = [m_socketQueues EXCEPT ![s] = e]
             /\ entry' = [entry EXCEPT ![e] = [handler |-> h, queue |-> <<>>, since |-> arrived]]
      BY <2>10 DEF RegisterInterest
    <3>1. TypeOK'
      <4>1. [handler |-> h, queue |-> <<>>, since |-> arrived] \in EntryRecord
        BY <2>0 DEF TypeOK, EntryRecord
      <4>2. entry' \in [Entries -> EntryRecord]
        BY <2>0, <4>1 DEF TypeOK
      <4>3. m_interest' \in BOOLEAN
        BY <2>10, Zenon DEF RegisterInterest
      <4>. QED BY <2>0, <2>10, <4>2, <4>3 DEF TypeOK, RegisterInterest, worldVars
    <3>2. Control'
      BY <2>0, <2>10 DEF TypeOK, Control, RegisterInterest
    <3>3. \A x \in Entries : entry'[x].queue = entry[x].queue \/ entry'[x].queue = <<>>
      BY <2>0 DEF TypeOK
    <3>4. Filled'
      BY <2>0, <2>10, <3>3, EmptyQueue DEF TypeOK, Filled, Travelling, RegisterInterest, worldVars
    <3>. QED BY <3>1, <3>2, <3>4 DEF CInv
  <2>11. ASSUME NEW c \in Clients, NEW s \in Sockets, UnregisterInterest(c, s)
         PROVE  CInv'
    <3> DEFINE e == m_socketQueues[s]
    <3>0. /\ e \in Entries /\ entry[e] \in EntryRecord
          /\ entry[e].queue \in Seq(Buffers) /\ Contents(entry[e].queue) \subseteq Travelling
      <4>1. e \in Entries /\ entry[e] \in EntryRecord
        BY <2>0, <2>11 DEF TypeOK, UnregisterInterest, Unmap
      <4>2. entry[e].queue \in Seq(Buffers)
        BY <4>1 DEF EntryRecord
      <4>. QED BY <4>1, <4>2, QueueBuffers DEF Travelling
    <3>1. /\ m_socketQueues' = [m_socketQueues EXCEPT ![s] = None]
          /\ m_interest' = OthersRegistered(s)
          /\ m_free' = m_free \cup Contents(entry[e].queue)
          /\ entry' = [entry EXCEPT ![e].queue = <<>>]
          /\ fate' = fate \cup Consumed("dropped", Contents(entry[e].queue))
          /\ UNCHANGED <<m_dev, m_continue_reading, alive, reader, client, worldVars, m_default>>
      BY <2>11 DEF UnregisterInterest, Unmap, Salvage
    <3>2. TypeOK'
      <4>1. [entry[e] EXCEPT !.queue = <<>>] \in EntryRecord
        <5>1. <<>> \in Seq(Buffers)
          OBVIOUS
        <5> HIDE DEF e
        <5>. QED BY <3>0, <5>1 DEF EntryRecord
      <4>2. entry' \in [Entries -> EntryRecord]
        BY <2>0, <3>1, <4>1 DEF TypeOK
      <4>3. m_interest' \in BOOLEAN
        BY <3>1, Zenon DEF OthersRegistered
      <4>4. fate' \subseteq Fates
        BY <2>0, <3>0, <3>1 DEF TypeOK, Filled, Fates, Consumed, Packets
      <4>5. m_free' \subseteq Buffers
        BY <2>0, <3>0, <3>1, QueueBuffers DEF TypeOK
      <4>. QED BY <2>0, <3>1, <4>2, <4>3, <4>4, <4>5 DEF TypeOK, worldVars
    <3>3. Control'
      BY <2>0, <3>1 DEF TypeOK, Control, OthersRegistered
    <3>4. \A x \in Entries : entry'[x].queue = entry[x].queue \/ entry'[x].queue = <<>>
      BY <2>0, <3>0, <3>1 DEF TypeOK, EntryRecord
    <3>5. Filled'
      BY <2>0, <3>1, <3>4, EmptyQueue DEF Filled, Travelling, worldVars
    <3>. QED BY <3>2, <3>3, <3>5 DEF CInv
  <2>12. ASSUME NEW c \in Clients, NEW r \in ClientRecord, client' = [client EXCEPT ![c] = r],
                r.pc = "popping" => r.qep \in Entries /\ r.handle = None
         PROVE  /\ client' \in [Clients -> ClientRecord]
                /\ \A x \in Clients : client'[x].pc = "popping" =>
                                        client'[x].qep \in Entries /\ client'[x].handle = None
    <3>1. client' \in [Clients -> ClientRecord]
      BY <2>0, <2>12 DEF TypeOK
    <3>2. \A x \in Clients : client'[x] = IF x = c THEN r ELSE client[x]
      BY <2>0, <2>12 DEF TypeOK
    <3>. QED BY <2>0, <2>12, <3>1, <3>2 DEF Control
  <2>13. ASSUME NEW c \in Clients,
                \/ \E s \in Sockets : SocketRead(c, s)
                \/ qep_reset(c) \/ readwait(c) \/ spurious_wakeup(c)
         PROVE  CInv'
    <3>0. client[c] \in ClientRecord
      BY <2>0 DEF TypeOK
    <3>1. PICK r \in ClientRecord : /\ client' = [client EXCEPT ![c] = r]
                                    /\ r.pc = "popping" => r.qep \in Entries /\ r.handle = None
      <4>1. CASE \E s \in Sockets : SocketRead(c, s)
        <5> PICK s \in Sockets : SocketRead(c, s)
          BY <4>1
        <5> DEFINE r == [client[c] EXCEPT !.pc = "popping", !.qep = m_socketQueues[s]]
        <5>1. m_socketQueues[s] \in Entries /\ client[c].handle = None
          BY <2>0 DEF TypeOK, SocketRead
        <5>2. r \in ClientRecord /\ r.qep \in Entries /\ r.handle = None
          BY <3>0, <5>1 DEF ClientRecord
        <5>3. client' = [client EXCEPT ![c] = r]
          BY <2>0 DEF SocketRead
        <5>. QED BY <5>2, <5>3
      <4>2. CASE qep_reset(c)
        <5> DEFINE r == [client[c] EXCEPT !.pc = "idle", !.qep = None]
        <5>1. r \in ClientRecord /\ r.pc = "idle"
          BY <3>0 DEF ClientRecord
        <5>2. client' = [client EXCEPT ![c] = r]
          BY <4>2 DEF qep_reset
        <5>. QED BY <5>1, <5>2
      <4>3. CASE readwait(c)
        <5> DEFINE r == [client[c] EXCEPT !.pc = "waiting"]
        <5>1. r \in ClientRecord /\ r.pc = "waiting"
          BY <3>0 DEF ClientRecord
        <5>2. client' = [client EXCEPT ![c] = r]
          BY <4>3 DEF readwait
        <5>. QED BY <5>1, <5>2
      <4>4. CASE spurious_wakeup(c)
        <5> DEFINE r == [client[c] EXCEPT !.pc = "cleared"]
        <5>1. r \in ClientRecord /\ r.pc = "cleared"
          BY <3>0 DEF ClientRecord
        <5>2. client' = [client EXCEPT ![c] = r]
          BY <4>4 DEF spurious_wakeup
        <5>. QED BY <5>1, <5>2
      <4>. QED BY <2>13, <4>1, <4>2, <4>3, <4>4
    <3>2. UNCHANGED <<routerVars, m_free, m_default, entry, reader, worldVars, fate>>
      BY <2>13 DEF SocketRead, qep_reset, readwait, spurious_wakeup
    <3>3. /\ client' \in [Clients -> ClientRecord]
          /\ \A x \in Clients : client'[x].pc = "popping" =>
                                  client'[x].qep \in Entries /\ client'[x].handle = None
      BY <2>12, <3>1
    <3>4. TypeOK'
      BY <2>0, <3>2, <3>3 DEF TypeOK, routerVars, worldVars
    <3>5. Control' /\ Filled'
      BY <2>0, <3>2, <3>3 DEF Control, Filled, Travelling, routerVars, worldVars
    <3>. QED BY <3>4, <3>5 DEF CInv
  <2>14. ASSUME NEW c \in Clients, wait_pop(c)
         PROVE  CInv'
    <3> DEFINE e == client[c].qep
               q == entry[e].queue
    <3>0. /\ client[c] \in ClientRecord /\ e \in Entries /\ client[c].handle = None
          /\ entry[e] \in EntryRecord /\ q \in Seq(Buffers)
      <4>1. client[c] \in ClientRecord /\ e \in Entries /\ client[c].handle = None
        BY <2>0, <2>14 DEF TypeOK, Control, wait_pop
      <4>2. entry[e] \in EntryRecord
        BY <2>0, <4>1 DEF TypeOK
      <4>. QED BY <4>1, <4>2 DEF EntryRecord
    <3>1. UNCHANGED <<routerVars, m_free, m_default, reader, worldVars>>
      BY <2>14 DEF wait_pop
    <3>2. CASE q # <<>>
      <4>1. /\ client' = [client EXCEPT ![c].pc = "resetting", ![c].handle = Head(q)]
            /\ entry' = [entry EXCEPT ![e].queue = Tail(q)]
            /\ fate' = fate \cup Consumed("read", {Head(q)})
        BY <2>14, <3>2 DEF wait_pop
      <4> HIDE DEF e, q
      <4>2. /\ Head(q) \in Buffers /\ Tail(q) \in Seq(Buffers)
            /\ Contents(q) = Contents(Tail(q)) \cup {Head(q)}
        BY <3>0, <3>2, PopBuffer
      <4>3. Head(q) \in Travelling
        BY <3>0, <4>2 DEF Travelling, q
      <4> DEFINE r == [client[c] EXCEPT !.pc = "resetting", !.handle = Head(q)]
      <4>4. client' = [client EXCEPT ![c] = r]
        BY <4>1
      <4>5. r \in ClientRecord /\ r.pc = "resetting"
        BY <3>0, <4>2 DEF ClientRecord
      <4> HIDE DEF r
      <4>6. /\ client' \in [Clients -> ClientRecord]
            /\ \A x \in Clients : client'[x].pc = "popping" =>
                                    client'[x].qep \in Entries /\ client'[x].handle = None
        BY <2>12, <4>4, <4>5
      <4>7. entry' \in [Entries -> EntryRecord]
        <5>1. [entry[e] EXCEPT !.queue = Tail(q)] \in EntryRecord
          BY <3>0, <4>2 DEF EntryRecord
        <5>. QED BY <2>0, <4>1, <5>1 DEF TypeOK
      <4>8. fate' \subseteq Fates
        BY <2>0, <4>1, <4>3 DEF TypeOK, Filled, Fates, Consumed, Packets
      <4>9. TypeOK'
        BY <2>0, <3>1, <4>6, <4>7, <4>8 DEF TypeOK, routerVars, worldVars
      <4>10. Control'
        BY <2>0, <3>1, <4>6 DEF Control, routerVars
      <4>11. \A x \in Entries : Contents(entry'[x].queue) \subseteq Contents(entry[x].queue)
        <5>1. \A x \in Entries : x # e => entry'[x] = entry[x]
          BY <2>0, <4>1 DEF TypeOK
        <5>2. entry'[e].queue = Tail(q)
          BY <2>0, <3>0, <4>1 DEF TypeOK, EntryRecord
        <5>. QED BY <4>2, <5>1, <5>2 DEF q
      <4>12. Filled'
        BY <2>0, <3>1, <4>11 DEF Filled, Travelling, worldVars
      <4>. QED BY <4>9, <4>10, <4>12 DEF CInv
    <3>3. CASE q = <<>>
      <4>1. client' = [client EXCEPT ![c].pc = "resetting"] /\ UNCHANGED <<entry, fate>>
        BY <2>14, <3>3 DEF wait_pop
      <4> DEFINE r == [client[c] EXCEPT !.pc = "resetting"]
      <4>2. r \in ClientRecord /\ r.pc = "resetting"
        BY <3>0 DEF ClientRecord
      <4>3. client' = [client EXCEPT ![c] = r]
        BY <4>1
      <4> HIDE DEF r
      <4>4. /\ client' \in [Clients -> ClientRecord]
            /\ \A x \in Clients : client'[x].pc = "popping" =>
                                    client'[x].qep \in Entries /\ client'[x].handle = None
        BY <2>12, <4>2, <4>3
      <4>5. TypeOK'
        BY <2>0, <3>1, <4>1, <4>4 DEF TypeOK, routerVars, worldVars
      <4>6. Control' /\ Filled'
        BY <2>0, <3>1, <4>1, <4>4 DEF Control, Filled, Travelling, routerVars, worldVars
      <4>. QED BY <4>5, <4>6 DEF CInv
    <3>. QED BY <3>2, <3>3
  <2>15. ASSUME NEW c \in Clients, DefaultRead(c)
         PROVE  CInv'
    <3>0. /\ client[c] \in ClientRecord /\ client[c].pc = "idle" /\ m_default \in Seq(Buffers) /\ m_default # <<>>
          /\ client' = [client EXCEPT ![c].handle = Head(m_default)]
          /\ m_default' = Tail(m_default)
          /\ fate' = fate \cup Consumed("read", {Head(m_default)})
          /\ UNCHANGED <<routerVars, m_free, entry, reader, worldVars>>
      BY <2>0, <2>15 DEF TypeOK, DefaultRead, Free
    <3>1. /\ Head(m_default) \in Buffers /\ Tail(m_default) \in Seq(Buffers)
          /\ Contents(m_default) = Contents(Tail(m_default)) \cup {Head(m_default)}
      BY <3>0, PopBuffer
    <3> DEFINE r == [client[c] EXCEPT !.handle = Head(m_default)]
    <3>2. r \in ClientRecord /\ r.pc = "idle"
      BY <3>0, <3>1 DEF ClientRecord
    <3>3. client' = [client EXCEPT ![c] = r]
      BY <3>0
    <3> HIDE DEF r
    <3>4. /\ client' \in [Clients -> ClientRecord]
          /\ \A x \in Clients : client'[x].pc = "popping" =>
                                  client'[x].qep \in Entries /\ client'[x].handle = None
      BY <2>12, <3>2, <3>3
    <3>5. Head(m_default) \in Travelling
      BY <3>1 DEF Travelling
    <3>6. fate' \subseteq Fates
      BY <2>0, <3>0, <3>5 DEF TypeOK, Filled, Fates, Consumed, Packets
    <3>7. TypeOK'
      BY <2>0, <3>0, <3>1, <3>4, <3>6 DEF TypeOK, routerVars, worldVars
    <3>8. Control'
      BY <2>0, <3>0, <3>4 DEF Control, routerVars
    <3>9. Filled'
      BY <2>0, <3>0, <3>1 DEF Filled, Travelling, worldVars
    <3>. QED BY <3>7, <3>8, <3>9 DEF CInv
  <2>16. ASSUME NEW c \in Clients, ReturnBuffer(c)
         PROVE  CInv'
    <3>0. /\ client[c] \in ClientRecord /\ client[c].pc = "idle" /\ client[c].handle \in Buffers
          /\ client' = [client EXCEPT ![c].handle = None]
          /\ m_free' = m_free \cup {client[c].handle}
          /\ UNCHANGED <<routerVars, m_default, entry, reader, worldVars, fate>>
      BY <2>0, <2>16 DEF TypeOK, ReturnBuffer, Free, ClientRecord
    <3> DEFINE r == [client[c] EXCEPT !.handle = None]
    <3>1. r \in ClientRecord /\ r.pc = "idle"
      BY <3>0 DEF ClientRecord
    <3>2. client' = [client EXCEPT ![c] = r]
      BY <3>0
    <3> HIDE DEF r
    <3>3. /\ client' \in [Clients -> ClientRecord]
          /\ \A x \in Clients : client'[x].pc = "popping" =>
                                  client'[x].qep \in Entries /\ client'[x].handle = None
      BY <2>12, <3>1, <3>2
    <3>4. TypeOK'
      BY <2>0, <3>0, <3>3 DEF TypeOK, routerVars, worldVars
    <3>5. Control' /\ Filled'
      BY <2>0, <3>0, <3>3 DEF Control, Filled, Travelling, routerVars, worldVars
    <3>. QED BY <3>4, <3>5 DEF CInv
  <2>17. ASSUME NEW c \in Clients, NEW count, AllocateBuffers(c, count)
         PROVE  CInv'
    <3>1. TypeOK'
      BY <2>0, <2>17 DEF TypeOK, AllocateBuffers, routerVars
    <3>2. Control' /\ Filled'
      BY <2>0, <2>17 DEF Control, Filled, Travelling, AllocateBuffers, routerVars
    <3>. QED BY <3>1, <3>2 DEF CInv
  <2>18. ASSUME NEW c \in Clients, NEW d \in Devices, SetUsbDevice(c, d)
         PROVE  CInv'
    <3>1. TypeOK'
      BY <2>0, <2>18 DEF TypeOK, SetUsbDevice
    <3>2. Control' /\ Filled'
      BY <2>0, <2>18 DEF Control, Filled, Travelling, SetUsbDevice
    <3>. QED BY <3>1, <3>2 DEF CInv
  <2>19. ASSUME NEW c \in Clients, ClearUsbDevice(c) \/ close_device(c)
         PROVE  CInv'
    <3>0. client[c] \in ClientRecord
      BY <2>0 DEF TypeOK
    <3>1. PICK label \in {"idle", "clearing"} : client' = [client EXCEPT ![c].pc = label]
      BY <2>19 DEF ClearUsbDevice, BeginClear, close_device
    <3> DEFINE r == [client[c] EXCEPT !.pc = label]
    <3>2. r \in ClientRecord /\ r.pc # "popping"
      BY <3>0 DEF ClientRecord
    <3>3. client' = [client EXCEPT ![c] = r]
      BY <3>1
    <3> HIDE DEF r
    <3>4. /\ client' \in [Clients -> ClientRecord]
          /\ \A x \in Clients : client'[x].pc = "popping" =>
                                  client'[x].qep \in Entries /\ client'[x].handle = None
      BY <2>12, <3>2, <3>3
    <3>5. /\ m_dev' \in Devices \cup {None} /\ device' \in [Devices -> {"unmade", "open", "closed"}]
          /\ UNCHANGED <<m_interest, m_socketQueues, m_continue_reading, alive, m_free, m_default,
                         entry, reader, unmade, content, arrived, fate>>
      BY <2>0, <2>19 DEF TypeOK, ClearUsbDevice, BeginClear, close_device, routerVars, worldVars
    <3>6. TypeOK'
      BY <2>0, <3>4, <3>5 DEF TypeOK
    <3>7. Control' /\ Filled'
      BY <2>0, <3>4, <3>5 DEF Control, Filled, Travelling
    <3>. QED BY <3>6, <3>7 DEF CInv
  <2>20. ASSUME NEW c \in Clients, SpinoffSimpleReadThread(c)
         PROVE  CInv'
    <3>0. reader.pc = "off" /\ reader' = [reader EXCEPT !.pc = "idle"]
      BY <2>0, <2>20 DEF Control, SpinoffSimpleReadThread, Free, Goto
    <3>1. reader' \in ReaderRecord /\ reader'.pc = "idle" /\ reader'.buf = reader.buf
      BY <2>0, <3>0 DEF TypeOK, ReaderRecord
    <3>2. m_continue_reading' \in BOOLEAN
      BY <2>20, Zenon DEF SpinoffSimpleReadThread
    <3>3. TypeOK'
      BY <2>0, <2>20, <3>1, <3>2 DEF TypeOK, SpinoffSimpleReadThread, worldVars
    <3>4. Control' /\ Filled'
      BY <2>0, <2>20, <3>0, <3>1 DEF Control, Holding, Filled, Travelling, SpinoffSimpleReadThread, worldVars
    <3>. QED BY <3>3, <3>4 DEF CInv
  \* The destructor.
  <2>21. CASE destroy \/ join
    <3>1. /\ alive' \in {"joining", "gone"}
          /\ m_continue_reading' = FALSE \/ m_continue_reading' = m_continue_reading
          /\ UNCHANGED <<m_dev, m_interest, m_socketQueues, m_free, m_default, entry, reader, client,
                         worldVars, fate>>
      BY <2>21 DEF destroy, Destroy, join
    <3>2. m_continue_reading' \in BOOLEAN
      <4>1. m_continue_reading \in BOOLEAN
        BY <2>0 DEF TypeOK
      <4>. QED BY <3>1, <4>1, Zenon
    <3>3. TypeOK'
      BY <2>0, <3>1, <3>2 DEF TypeOK, worldVars
    <3>4. Control' /\ Filled'
      BY <2>0, <3>1 DEF Control, Filled, Travelling, worldVars
    <3>. QED BY <3>3, <3>4 DEF CInv
  <2>22. CASE UNCHANGED vars
    <3>1. UNCHANGED <<m_dev, m_interest, m_socketQueues, m_continue_reading, alive, m_free, m_default,
                      entry, reader, client, unmade, content, arrived, device, fate>>
      BY <2>22 DEF vars, routerVars, worldVars
    <3>. QED BY <2>0, <3>1 DEF CInv, TypeOK, Control, Filled, Travelling
  <2>23. CASE DoRead
    BY <2>1, <2>2, <2>3, <2>4, <2>5, <2>6, <2>7, <2>8, <2>9, <2>23 DEF DoRead
  <2>24. ASSUME NEW c \in Clients, Call(c) PROVE CInv'
    BY <2>10, <2>11, <2>13, <2>15, <2>16, <2>17, <2>18, <2>19, <2>20, <2>24 DEF Call
  <2>25. ASSUME NEW c \in Clients, Continue(c) \/ spurious_wakeup(c) PROVE CInv'
    BY <2>13, <2>14, <2>19, <2>25 DEF Continue
  <2>. QED BY <2>21, <2>22, <2>23, <2>24, <2>25 DEF Next, finished
<1>. QED BY <1>1, <1>2, PTL DEF Spec

\* The state of the router, its threads and its clients keeps its types.
THEOREM TypeCorrect == Spec => []TypeOK
BY ControlAlways, PTL DEF CInv

-----------------------------------------------------------------------------
(***************************************************************************)
(* Where the buffers are.                                                  *)
(***************************************************************************)
Unmade == <<"unmade", None>>
FreeList == <<"free", None>>
Default == <<"default", None>>
Reader == <<"reader", None>>
Entry(e) == <<"entry", e>>
Client(c) == <<"client", c>>

LEMMA PlaceNames ==
  /\ \A p \in Places : \/ p \in {Unmade, FreeList, Default, Reader}
                       \/ \E e \in Entries : p = Entry(e)
                       \/ \E c \in Clients : p = Client(c)
  /\ {Unmade, FreeList, Default, Reader} \subseteq Places
  /\ \A e \in Entries : Entry(e) \in Places
  /\ \A c \in Clients : Client(c) \in Places
<1> USE DEF Unmade, FreeList, Default, Reader, Entry, Client
<1>1. ASSUME NEW p \in Places
      PROVE  \/ p \in {Unmade, FreeList, Default, Reader}
             \/ \E e \in Entries : p = Entry(e)
             \/ \E c \in Clients : p = Client(c)
  <2>1. CASE p \in {"unmade", "free", "default", "reader"} \X {None}
    BY <2>1
  <2>2. CASE p \in {"entry"} \X Entries
    BY <2>2
  <2>3. CASE p \in {"client"} \X Clients
    BY <2>3
  <2>. QED BY <2>1, <2>2, <2>3 DEF Places
<1>. QED BY <1>1 DEF Places

LEMMA PlacesApart ==
  /\ Unmade # FreeList /\ Unmade # Default /\ Unmade # Reader
  /\ FreeList # Default /\ FreeList # Reader /\ Default # Reader
  /\ \A e \in Entries : Entry(e) \notin {Unmade, FreeList, Default, Reader}
  /\ \A c \in Clients : Client(c) \notin {Unmade, FreeList, Default, Reader}
  /\ \A e \in Entries : \A c \in Clients : Entry(e) # Client(c)
  /\ \A e, f \in Entries : Entry(e) = Entry(f) => e = f
  /\ \A c, d \in Clients : Client(c) = Client(d) => c = d
BY DEF Unmade, FreeList, Default, Reader, Entry, Client

LEMMA Held ==
  ASSUME NEW b
  PROVE  /\ In(b, Unmade) <=> b \in unmade
         /\ In(b, FreeList) <=> b \in m_free
         /\ In(b, Default) <=> b \in Contents(m_default)
         /\ In(b, Reader) <=> b = reader.buf
         /\ \A e \in Entries : In(b, Entry(e)) <=> b \in Contents(entry[e].queue)
         /\ \A c \in Clients : In(b, Client(c)) <=> b = client[c].handle
BY DEF In, Unmade, FreeList, Default, Reader, Entry, Client

LEMMA HeldNext ==
  ASSUME NEW b
  PROVE  /\ In(b, Unmade)' <=> b \in unmade'
         /\ In(b, FreeList)' <=> b \in m_free'
         /\ In(b, Default)' <=> b \in Contents(m_default')
         /\ In(b, Reader)' <=> b = reader'.buf
         /\ \A e \in Entries : In(b, Entry(e))' <=> b \in Contents(entry'[e].queue)
         /\ \A c \in Clients : In(b, Client(c))' <=> b = client'[c].handle
BY DEF In, Unmade, FreeList, Default, Reader, Entry, Client, Contents

OnePlace == \A b \in Buffers : \E p \in Places : In(b, p) /\ \A q \in Places : In(b, q) => q = p
NoRepeats == NoRepeat(m_default) /\ \A e \in Entries : NoRepeat(entry[e].queue)

\* All places but p and q keep what they have.
Frame(p, q) ==
  /\ Unmade \notin {p, q} => unmade' = unmade
  /\ FreeList \notin {p, q} => m_free' = m_free
  /\ Default \notin {p, q} => m_default' = m_default
  /\ Reader \notin {p, q} => reader'.buf = reader.buf
  /\ \A e \in Entries : Entry(e) \notin {p, q} => entry'[e].queue = entry[e].queue
  /\ \A c \in Clients : Client(c) \notin {p, q} => client'[c].handle = client[c].handle

\* Buffers that go from one place to another: each is still in one place.
LEMMA Moving ==
  ASSUME OnePlace, NEW S, NEW p \in Places, NEW q \in Places, p # q, Frame(p, q),
         \A b \in Buffers : b \in S => In(b, p),
         \A b \in Buffers : In(b, p)' <=> In(b, p) /\ b \notin S,
         \A b \in Buffers : In(b, q)' <=> In(b, q) \/ b \in S
  PROVE  OnePlace'
<1>1. ASSUME NEW b \in Buffers, NEW r \in Places, r # p, r # q
      PROVE  In(b, r)' <=> In(b, r)
  <2>1. CASE r \in {Unmade, FreeList, Default, Reader}
    BY <1>1, <2>1, Held, HeldNext DEF Frame
  <2>2. ASSUME NEW e \in Entries, r = Entry(e) PROVE In(b, r)' <=> In(b, r)
    BY <1>1, <2>2, Held, HeldNext DEF Frame
  <2>3. ASSUME NEW c \in Clients, r = Client(c) PROVE In(b, r)' <=> In(b, r)
    BY <1>1, <2>3, Held, HeldNext DEF Frame
  <2>. QED BY <2>1, <2>2, <2>3, PlaceNames
<1>2. ASSUME NEW b \in Buffers
      PROVE  \E x \in Places : In(b, x)' /\ \A y \in Places : In(b, y)' => y = x
  <2>1. PICK x \in Places : In(b, x) /\ \A y \in Places : In(b, y) => y = x
    BY DEF OnePlace
  <2>2. CASE b \in S
    <3>1. In(b, q)' /\ \A y \in Places : In(b, y)' => y = q
      BY <1>1, <2>1, <2>2
    <3>. QED BY <3>1
  <2>3. CASE b \notin S
    <3>1. \A y \in Places : In(b, y)' <=> In(b, y)
      BY <1>1, <2>3
    <3>. QED BY <2>1, <3>1
  <2>. QED BY <2>2, <2>3
<1>. QED BY <1>2 DEF OnePlace

\* Nothing moves.
LEMMA Staying ==
  ASSUME OnePlace, NoRepeats, Frame(Unmade, Unmade), unmade' = unmade
  PROVE  OnePlace' /\ NoRepeats'
<1>1. Frame(Unmade, FreeList)
  BY DEF Frame
<1>2. m_free' = m_free /\ m_default' = m_default
      /\ \A e \in Entries : entry'[e].queue = entry[e].queue
  BY PlacesApart DEF Frame
<1>3. OnePlace'
  <2>1. \A b \in Buffers : /\ In(b, Unmade)' <=> In(b, Unmade) /\ b \notin {}
                           /\ In(b, FreeList)' <=> In(b, FreeList) \/ b \in {}
    BY <1>2, Held, HeldNext
  <2>2. Unmade \in Places /\ FreeList \in Places /\ Unmade # FreeList
    BY PlaceNames, PlacesApart
  <2>3. \A b \in Buffers : b \in {} => In(b, Unmade)
    OBVIOUS
  <2> DEFINE S == {}
  <2>4. /\ \A b \in Buffers : b \in S => In(b, Unmade)
        /\ \A b \in Buffers : In(b, Unmade)' <=> In(b, Unmade) /\ b \notin S
        /\ \A b \in Buffers : In(b, FreeList)' <=> In(b, FreeList) \/ b \in S
    BY <2>1, <2>3
  <2> HIDE DEF S
  <2>. QED BY <1>1, <2>2, <2>4, Moving
<1>4. NoRepeats'
  BY <1>2 DEF NoRepeats
<1>. QED BY <1>3, <1>4

BInv == OnePlace /\ NoRepeats /\ RightQueue

\* Once reached, the buffers and queues stay as they should under every step of
\* the router.
THEOREM BuffersAlways == Spec => []BInv
<1>1. Init => BInv
  <2> SUFFICES ASSUME Init PROVE BInv
    OBVIOUS
  <2>1. NoRepeats /\ RightQueue
    BY EmptyQueue DEF Init, NoRepeats, RightQueue
  <2>2. /\ unmade = Buffers \ m_free /\ m_default = <<>> /\ reader.buf = None
        /\ \A e \in Entries : entry[e].queue = <<>>
        /\ \A c \in Clients : client[c].handle = None
    BY DEF Init
  <2>3. ASSUME NEW b \in Buffers
        PROVE  \E p \in Places : In(b, p) /\ \A q \in Places : In(b, q) => q = p
    <3>1. /\ ~In(b, Default) /\ ~In(b, Reader)
          /\ \A e \in Entries : ~In(b, Entry(e))
          /\ \A c \in Clients : ~In(b, Client(c))
      BY <2>2, Held, EmptyQueue, NoneApart
    <3>2. CASE b \in m_free
      <4>1. In(b, FreeList) /\ ~In(b, Unmade)
        BY <2>2, <3>2, Held
      <4>. QED BY <3>1, <4>1, PlaceNames
    <3>3. CASE b \notin m_free
      <4>1. In(b, Unmade) /\ ~In(b, FreeList)
        BY <2>2, <3>3, Held
      <4>. QED BY <3>1, <4>1, PlaceNames
    <3>. QED BY <3>2, <3>3
  <2>. QED BY <2>1, <2>3 DEF BInv, OnePlace
<1>2. CInv /\ CInv' /\ BInv /\ [Next]_vars => BInv'
  <2> SUFFICES ASSUME CInv, CInv', BInv, [Next]_vars PROVE BInv'
    OBVIOUS
  <2> USE NoneApart
  <2>0. TypeOK /\ Control /\ Filled /\ OnePlace /\ NoRepeats /\ RightQueue
    BY DEF CInv, BInv
  <2>a. \A e \in Entries : entry[e].queue \in Seq(Buffers)
    BY <2>0 DEF TypeOK, EntryRecord
  <2>b. ASSUME \A e \in Entries : Contents(entry'[e].queue) \subseteq Contents(entry[e].queue),
               UNCHANGED <<m_socketQueues, content>>
        PROVE  RightQueue'
    BY <2>0, <2>b DEF RightQueue
  \* Steps that move no buffer and leave map and contents alone.
  <2>1. ASSUME Frame(Unmade, Unmade), unmade' = unmade, UNCHANGED <<m_socketQueues, content>>
        PROVE  BInv'
    <3>1. \A e \in Entries : entry'[e].queue = entry[e].queue
      BY <2>1, PlacesApart DEF Frame
    <3>. QED BY <2>0, <2>1, <2>b, <3>1, Staying DEF BInv
  <2>2. CASE stop_reading \/ DoRead_sleeps \/ route_to_handler \/ route_to_default
    <3>1. reader'.buf = reader.buf
      BY <2>0, <2>2 DEF TypeOK, ReaderRecord, stop_reading, DoRead_sleeps, route_to_handler, route_to_default, Goto
    <3>2. Frame(Unmade, Unmade) /\ UNCHANGED <<unmade, m_socketQueues, content>>
      BY <2>2, <3>1 DEF Frame, stop_reading, DoRead_sleeps, route_to_handler, route_to_default, routerVars, worldVars
    <3>. QED BY <2>1, <3>2
  <2>3. CASE signal
    <3>1. reader'.buf = reader.buf
      BY <2>0, <2>3 DEF TypeOK, ReaderRecord, signal
    <3>2. \A c \in Clients : client'[c].handle = client[c].handle
      <4>1. ASSUME NEW c \in Clients, client' = [client EXCEPT ![c].pc = "cleared"]
            PROVE  \A x \in Clients : client'[x].handle = client[x].handle
        <5>1. \A x \in Clients : client[x] \in ClientRecord
          BY <2>0 DEF TypeOK
        <5>. QED BY <2>0, <4>1, <5>1 DEF TypeOK, ClientRecord
      <4>. QED BY <2>3, <4>1 DEF signal, WakeOne
    <3>3. Frame(Unmade, Unmade) /\ UNCHANGED <<unmade, m_socketQueues, content>>
      BY <2>3, <3>1, <3>2 DEF Frame, signal, routerVars, worldVars
    <3>. QED BY <2>1, <3>3
  <2>4. ASSUME NEW c \in Clients,
               \/ \E s \in Sockets : SocketRead(c, s)
               \/ qep_reset(c) \/ readwait(c) \/ spurious_wakeup(c) \/ ClearUsbDevice(c) \/ close_device(c)
        PROVE  BInv'
    <3>0. \A x \in Clients : client[x] \in ClientRecord
      BY <2>0 DEF TypeOK
    <3>1. \A x \in Clients : client'[x].handle = client[x].handle
      <4>1. ASSUME NEW s \in Sockets, SocketRead(c, s) PROVE \A x \in Clients : client'[x].handle = client[x].handle
        BY <2>0, <3>0, <4>1 DEF TypeOK, ClientRecord, SocketRead
      <4>2. CASE qep_reset(c)
        BY <2>0, <3>0, <4>2 DEF TypeOK, ClientRecord, qep_reset
      <4>3. CASE readwait(c) \/ spurious_wakeup(c) \/ ClearUsbDevice(c) \/ close_device(c)
        BY <2>0, <3>0, <4>3 DEF TypeOK, ClientRecord, readwait, spurious_wakeup, ClearUsbDevice, BeginClear, close_device
      <4>. QED BY <2>4, <4>1, <4>2, <4>3
    <3>2. UNCHANGED <<m_socketQueues, m_free, m_default, entry, reader, unmade, content>>
      BY <2>4 DEF SocketRead, qep_reset, readwait, spurious_wakeup, ClearUsbDevice, BeginClear, close_device,
         routerVars, worldVars
    <3>3. Frame(Unmade, Unmade)
      BY <3>1, <3>2 DEF Frame
    <3>. QED BY <2>1, <3>2, <3>3
  <2>5. ASSUME NEW c \in Clients, \/ \E d \in Devices : SetUsbDevice(c, d)
                                  \/ SpinoffSimpleReadThread(c)
        PROVE  BInv'
    <3>1. reader'.buf = reader.buf
      BY <2>0, <2>5 DEF TypeOK, ReaderRecord, SetUsbDevice, SpinoffSimpleReadThread, Goto
    <3>2. Frame(Unmade, Unmade) /\ UNCHANGED <<unmade, m_socketQueues, content>>
      BY <2>5, <3>1 DEF Frame, SetUsbDevice, SpinoffSimpleReadThread, worldVars
    <3>. QED BY <2>1, <3>2
  <2>6. CASE destroy \/ join \/ UNCHANGED vars
    <3>1. Frame(Unmade, Unmade) /\ UNCHANGED <<unmade, m_socketQueues, content>>
      BY <2>6 DEF Frame, destroy, Destroy, join, vars, routerVars, worldVars
    <3>. QED BY <2>1, <3>1
  \* Steps of the read thread that move its buffer.
  <2>7. CASE DoRead_begins
    <3> PICK b \in (IF m_free # {} THEN m_free ELSE unmade) :
             /\ reader' = [reader EXCEPT !.pc = "reading", !.dev = m_dev, !.buf = b]
             /\ m_free' = m_free \ {b}
             /\ unmade' = unmade \ {b}
      BY <2>7 DEF DoRead_begins
    <3>1. /\ b \in Buffers /\ reader.buf = None /\ reader'.buf = b
          /\ UNCHANGED <<m_default, entry, client, m_socketQueues, content>>
      BY <2>0, <2>7 DEF TypeOK, ReaderRecord, Control, Holding, DoRead_begins, At, routerVars
    <3>2. PICK p \in {FreeList, Unmade} : In(b, p)
      BY Held
    <3>3. p \in Places /\ p # Reader
      BY <3>2, PlaceNames, PlacesApart
    <3>4. \A q \in Places : In(b, q) => q = p
      BY <2>0, <3>1, <3>2, <3>3 DEF OnePlace
    <3>5. Frame(p, Reader)
      BY <3>1, <3>2, <3>4, Held, PlaceNames, PlacesApart DEF Frame
    <3>6. \A x \in Buffers : In(x, p)' <=> In(x, p) /\ x \notin {b}
      BY <3>2, Held, HeldNext
    <3>7. \A x \in Buffers : In(x, Reader)' <=> In(x, Reader) \/ x \in {b}
      BY <3>1, Held, HeldNext
    <3>8. OnePlace'
      BY <2>0, <3>2, <3>3, <3>5, <3>6, <3>7, Moving, PlaceNames
    <3>9. NoRepeats' /\ RightQueue'
      BY <2>0, <2>b, <3>1 DEF NoRepeats
    <3>. QED BY <3>8, <3>9 DEF BInv
  <2>8. CASE BulkRead_nothing \/ call_handler
    <3>1. /\ reader.buf \in Buffers /\ reader'.buf = None /\ m_free' = m_free \cup {reader.buf}
          /\ UNCHANGED <<m_default, entry, client, m_socketQueues, content, unmade>>
      BY <2>0, <2>8 DEF TypeOK, ReaderRecord, Control, Holding, BulkRead_nothing, call_handler, ReturnReadBuffer,
         WithoutBuffer, At, routerVars, worldVars
    <3>2. Frame(Reader, FreeList)
      BY <3>1 DEF Frame
    <3>3. \A x \in Buffers : In(x, Reader)' <=> In(x, Reader) /\ x \notin {reader.buf}
      BY <3>1, Held, HeldNext
    <3>4. \A x \in Buffers : In(x, FreeList)' <=> In(x, FreeList) \/ x \in {reader.buf}
      BY <3>1, Held, HeldNext
    <3>5. OnePlace'
      BY <2>0, <3>1, <3>2, <3>3, <3>4, Moving, Held, PlaceNames, PlacesApart
    <3>6. NoRepeats' /\ RightQueue'
      BY <2>0, <2>b, <3>1 DEF NoRepeats
    <3>. QED BY <3>5, <3>6 DEF BInv
  <2>9. ASSUME NEW s \in Sockets, BulkRead(s)
        PROVE  BInv'
    <3>1. /\ reader.pc = "reading" /\ reader.buf \in Buffers /\ reader'.buf = reader.buf
          /\ content' = [content EXCEPT ![reader.buf] = [socket |-> s, number |-> arrived + 1]]
          /\ UNCHANGED <<m_socketQueues, m_free, m_default, entry, client, unmade>>
      BY <2>0, <2>9 DEF TypeOK, ReaderRecord, Control, Holding, BulkRead, At, Goto, routerVars
    <3>2. Frame(Unmade, Unmade)
      BY <3>1 DEF Frame
    <3>3. OnePlace' /\ NoRepeats'
      BY <2>0, <3>1, <3>2, Staying
    <3>4. \A e \in Entries : reader.buf \notin Contents(entry[e].queue)
      BY <2>0, <3>1, Held, PlaceNames, PlacesApart DEF OnePlace
    <3>5. \A b \in Buffers : b # reader.buf => content'[b] = content[b]
      BY <2>0, <3>1 DEF TypeOK
    <3>6. RightQueue'
      BY <2>0, <2>a, <3>1, <3>4, <3>5, QueueBuffers DEF RightQueue
    <3>. QED BY <3>3, <3>6 DEF BInv
  <2>10. CASE route_to_queue
    <3>0. /\ reader.pc = "routing" /\ reader.buf \in Buffers /\ content[reader.buf] \in Packets
          /\ Found \in Entries /\ Found = m_socketQueues[content[reader.buf].socket]
      <4>1. reader.pc = "routing" /\ reader.buf \in Buffers /\ content[reader.buf] \in Packets /\ Found # None
        BY <2>0, <2>10 DEF TypeOK, ReaderRecord, Control, Holding, route_to_queue, At, Filled, Travelling
      <4>. QED BY <2>0, <4>1 DEF TypeOK, Packets, Found
    <3> PICK e \in Entries : e = Found
      BY <3>0
    <3>1. /\ reader'.buf = None
          /\ entry' = [entry EXCEPT ![e].queue = Append(@, reader.buf)]
          /\ UNCHANGED <<m_socketQueues, m_free, m_default, client, unmade, content>>
      BY <2>0, <2>10, <3>0 DEF TypeOK, ReaderRecord, route_to_queue, WithoutBuffer, routerVars, worldVars
    <3>2. /\ entry'[e].queue = Append(entry[e].queue, reader.buf)
          /\ \A x \in Entries : x # e => entry'[x] = entry[x]
      <4>1. e \in Entries /\ entry[e] \in EntryRecord
        BY <2>0, <3>0 DEF TypeOK
      <4>. QED BY <2>0, <3>1, <4>1 DEF TypeOK, EntryRecord
    <3>3. reader.buf \notin Contents(entry[e].queue)
      <4>1. Reader \in Places /\ Entry(e) \in Places /\ Reader # Entry(e)
        BY PlaceNames, PlacesApart
      <4>2. In(reader.buf, Reader)
        BY Held
      <4>3. ~In(reader.buf, Entry(e))
        BY <2>0, <3>0, <4>1, <4>2 DEF OnePlace
      <4>. QED BY <4>3, Held
    <3>4. /\ Contents(entry'[e].queue) = Contents(entry[e].queue) \cup {reader.buf}
          /\ NoRepeat(entry'[e].queue)
      <4>1. entry[e].queue \in Seq(Buffers) /\ reader.buf \in Buffers
        BY <2>0, <3>0 DEF TypeOK, EntryRecord
      <4>2. NoRepeat(entry[e].queue)
        BY <2>0 DEF NoRepeats
      <4>3. PICK q \in Seq(Buffers) : q = entry[e].queue
        BY <4>1
      <4>4. /\ Contents(Append(q, reader.buf)) = Contents(q) \cup {reader.buf}
            /\ NoRepeat(Append(q, reader.buf))
        BY <3>3, <4>1, <4>2, <4>3, PushBuffer
      <4>. QED BY <3>2, <4>3, <4>4
    <3>5. Frame(Reader, Entry(e))
      BY <3>1, <3>2 DEF Frame
    <3>6. \A x \in Buffers : In(x, Reader)' <=> In(x, Reader) /\ x \notin {reader.buf}
      BY <3>1, Held, HeldNext
    <3>7. \A x \in Buffers : In(x, Entry(e))' <=> In(x, Entry(e)) \/ x \in {reader.buf}
      BY <3>2, <3>4, Held, HeldNext
    <3>8. OnePlace'
      <4>1. Reader \in Places /\ Entry(e) \in Places /\ Reader # Entry(e)
        BY <3>2, PlaceNames, PlacesApart
      <4>2. \A x \in Buffers : x \in {reader.buf} => In(x, Reader)
        BY Held
      <4>. QED BY <2>0, <3>5, <3>6, <3>7, <4>1, <4>2, Moving
    <3>9. NoRepeats'
      BY <2>0, <3>1, <3>2, <3>4 DEF NoRepeats
    <3>10. RightQueue'
      <4> SUFFICES ASSUME NEW x \in Entries, NEW b \in Contents(entry'[x].queue)
                   PROVE  m_socketQueues'[content'[b].socket] = x
        BY DEF RightQueue
      <4>1. CASE b \in Contents(entry[x].queue)
        BY <2>0, <3>1, <4>1 DEF RightQueue
      <4>2. CASE b \notin Contents(entry[x].queue)
        <5>1. x = e /\ b = reader.buf
          BY <3>2, <3>4, <4>2
        <5>. QED BY <3>0, <3>1, <5>1
      <4>. QED BY <4>1, <4>2
    <3>. QED BY <3>8, <3>9, <3>10 DEF BInv
  <2>11. CASE push_default
    <3>1. /\ reader.pc = "defaulting" /\ reader.buf \in Buffers /\ reader'.buf = None
          /\ m_default' = Append(m_default, reader.buf) /\ m_default \in Seq(Buffers)
          /\ UNCHANGED <<m_socketQueues, m_free, entry, client, unmade, content>>
      BY <2>0, <2>11 DEF TypeOK, ReaderRecord, Control, Holding, push_default, At, WithoutBuffer, routerVars, worldVars
    <3>2. reader.buf \notin Contents(m_default)
      BY <2>0, <3>1, Held, PlaceNames, PlacesApart DEF OnePlace
    <3>3. /\ Contents(m_default') = Contents(m_default) \cup {reader.buf}
          /\ NoRepeat(m_default')
      BY <2>0, <3>1, <3>2, PushBuffer DEF NoRepeats
    <3>4. Frame(Reader, Default)
      BY <3>1 DEF Frame
    <3>5. /\ \A x \in Buffers : In(x, Reader)' <=> In(x, Reader) /\ x \notin {reader.buf}
          /\ \A x \in Buffers : In(x, Default)' <=> In(x, Default) \/ x \in {reader.buf}
      BY <3>1, <3>3, Held, HeldNext
    <3>6. OnePlace'
      <4>1. Reader \in Places /\ Default \in Places /\ Reader # Default
        BY PlaceNames, PlacesApart
      <4>2. \A x \in Buffers : x \in {reader.buf} => In(x, Reader)
        BY Held
      <4>. QED BY <2>0, <3>4, <3>5, <4>1, <4>2, Moving
    <3>7. NoRepeats' /\ RightQueue'
      BY <2>0, <2>b, <3>1, <3>3 DEF NoRepeats
    <3>. QED BY <3>6, <3>7 DEF BInv
  \* Steps of the clients.
  <2>12. ASSUME NEW c \in Clients, NEW s \in Sockets, NEW h \in BOOLEAN, RegisterInterest(c, s, h)
         PROVE  BInv'
    <3> PICK e \in Entries \ InUse :
             /\ m_socketQueues' = [m_socketQueues EXCEPT ![s] = e]
             /\ entry' = [entry EXCEPT ![e] = [handler |-> h, queue |-> <<>>, since |-> arrived]]
      BY <2>12 DEF RegisterInterest
    <3>1. /\ m_socketQueues[s] = None
          /\ UNCHANGED <<m_free, m_default, reader, client, unmade, content>>
      BY <2>12 DEF RegisterInterest, worldVars
    <3>2. \A x \in Entries : \A b \in Contents(entry[x].queue) :
             content[b].socket \in Sockets /\ m_socketQueues[content[b].socket] = x
      BY <2>0, <2>a, QueueBuffers DEF RightQueue, Filled, Travelling, Packets
    <3>3. entry[e].queue = <<>>
      <4>1. \A r \in Sockets : m_socketQueues[r] # e
        BY DEF InUse
      <4>2. Contents(entry[e].queue) = {}
        BY <3>2, <4>1
      <4>3. entry[e].queue \in Seq(Buffers)
        BY <2>a
      <4>4. entry[e].queue # <<>> => Head(entry[e].queue) \in Contents(entry[e].queue)
        BY <4>3, PopBuffer
      <4>. QED BY <4>2, <4>4
    <3>4. \A x \in Entries : entry'[x].queue = entry[x].queue
      BY <2>0, <3>3 DEF TypeOK
    <3>5. Frame(Unmade, Unmade)
      BY <3>1, <3>4 DEF Frame
    <3>6. OnePlace' /\ NoRepeats'
      BY <2>0, <3>1, <3>5, Staying
    <3>7. \A r \in Sockets : r # s => m_socketQueues'[r] = m_socketQueues[r]
      BY <2>0 DEF TypeOK
    <3>8. RightQueue'
      BY <3>1, <3>2, <3>4, <3>7 DEF RightQueue
    <3>. QED BY <3>6, <3>8 DEF BInv
  <2>13. ASSUME NEW c \in Clients, NEW s \in Sockets, UnregisterInterest(c, s)
         PROVE  BInv'
    <3>0. m_socketQueues[s] \in Entries
      BY <2>0, <2>13 DEF TypeOK, UnregisterInterest, Unmap
    <3> PICK e \in Entries : e = m_socketQueues[s]
      BY <3>0
    <3>1. /\ m_socketQueues' = [m_socketQueues EXCEPT ![s] = None]
          /\ m_free' = m_free \cup Contents(entry[e].queue)
          /\ entry' = [entry EXCEPT ![e].queue = <<>>]
          /\ UNCHANGED <<m_default, reader, client, unmade, content>>
      BY <2>0, <2>13 DEF TypeOK, UnregisterInterest, Unmap, Salvage, worldVars
    <3>2. \A x \in Entries : \A b \in Contents(entry[x].queue) :
             content[b].socket \in Sockets /\ m_socketQueues[content[b].socket] = x
      BY <2>0, <2>a, QueueBuffers DEF RightQueue, Filled, Travelling, Packets
    <3>a. \A r \in Sockets : r # s => m_socketQueues'[r] = m_socketQueues[r]
      BY <2>0, <3>1 DEF TypeOK
    <3>3. entry'[e].queue = <<>> /\ \A x \in Entries : x # e => entry'[x] = entry[x]
      <4>1. entry[e] \in EntryRecord
        BY <2>0, <3>1 DEF TypeOK
      <4>. QED BY <2>0, <3>1, <4>1 DEF TypeOK, EntryRecord
    <3>4. Frame(Entry(e), FreeList)
      BY <3>1, <3>3 DEF Frame
    <3>5. /\ \A x \in Buffers : In(x, Entry(e))' <=> In(x, Entry(e)) /\ x \notin Contents(entry[e].queue)
          /\ \A x \in Buffers : In(x, FreeList)' <=> In(x, FreeList) \/ x \in Contents(entry[e].queue)
      BY <3>1, <3>3, Held, HeldNext, EmptyQueue
    <3>6. OnePlace'
      <4>1. Entry(e) \in Places /\ FreeList \in Places /\ Entry(e) # FreeList
        BY <3>1, PlaceNames, PlacesApart
      <4>2. \A x \in Buffers : x \in Contents(entry[e].queue) => In(x, Entry(e))
        BY <3>1, Held
      <4>. QED BY <2>0, <3>4, <3>5, <4>1, <4>2, Moving
    <3>7. NoRepeats'
      BY <2>0, <3>1, <3>3, EmptyQueue DEF NoRepeats
    <3>8. RightQueue'
      <4> SUFFICES ASSUME NEW x \in Entries, NEW b \in Contents(entry'[x].queue)
                   PROVE  m_socketQueues'[content'[b].socket] = x
        BY DEF RightQueue
      <4>1. x # e
        BY <3>3, EmptyQueue
      <4>2. content[b].socket \in Sockets /\ m_socketQueues[content[b].socket] = x
        BY <3>2, <3>3, <4>1
      <4>. QED BY <3>1, <3>a, <4>1, <4>2
    <3>. QED BY <3>6, <3>7, <3>8 DEF BInv
  <2>14. ASSUME NEW c \in Clients, wait_pop(c)
         PROVE  BInv'
    <3>a. client[c].qep \in Entries
      BY <2>0, <2>14 DEF Control, wait_pop
    <3> PICK e \in Entries : e = client[c].qep
      BY <3>a
    <3> PICK q : q = entry[e].queue
      OBVIOUS
    <3>0. /\ client[c] \in ClientRecord /\ client[c].handle = None
          /\ q \in Seq(Buffers) /\ NoRepeat(q)
      BY <2>0, <2>a, <2>14 DEF TypeOK, Control, wait_pop, NoRepeats
    <3>1. UNCHANGED <<m_socketQueues, m_free, m_default, reader, unmade, content>>
      BY <2>14 DEF wait_pop, routerVars, worldVars
    <3>2. CASE q # <<>>
      <4>1. /\ client' = [client EXCEPT ![c].pc = "resetting", ![c].handle = Head(q)]
            /\ entry' = [entry EXCEPT ![e].queue = Tail(q)]
        BY <2>14, <3>2 DEF wait_pop
      <4>2. entry'[e].queue = Tail(q) /\ \A x \in Entries : x # e => entry'[x] = entry[x]
        <5>1. entry[e] \in EntryRecord
          BY <2>0, <3>0 DEF TypeOK
        <5>. QED BY <2>0, <3>0, <4>1, <5>1 DEF TypeOK, EntryRecord
      <4>3. client'[c].handle = Head(q) /\ \A x \in Clients : x # c => client'[x] = client[x]
        BY <2>0, <3>0, <4>1 DEF TypeOK, ClientRecord
      <4>4. /\ Head(q) \in Buffers /\ Contents(q) = Contents(Tail(q)) \cup {Head(q)}
            /\ NoRepeat(Tail(q)) /\ Head(q) \notin Contents(Tail(q))
        BY <3>0, <3>2, PopBuffer
      <4>5. Frame(Entry(e), Client(c))
        BY <3>1, <4>2, <4>3 DEF Frame
      <4>6. \A x \in Buffers : In(x, Entry(e))' <=> In(x, Entry(e)) /\ x \notin {Head(q)}
        <5> SUFFICES ASSUME NEW x \in Buffers
                     PROVE  In(x, Entry(e))' <=> In(x, Entry(e)) /\ x \notin {Head(q)}
          OBVIOUS
        <5>1. In(x, Entry(e)) <=> x \in Contents(q)
          BY Held
        <5>2. In(x, Entry(e))' <=> x \in Contents(Tail(q))
          BY <4>2, HeldNext
        <5>. QED BY <4>4, <5>1, <5>2
      <4>7. \A x \in Buffers : In(x, Client(c))' <=> In(x, Client(c)) \/ x \in {Head(q)}
        BY <3>0, <4>3, Held, HeldNext
      <4>8. OnePlace'
        <5>1. Entry(e) \in Places /\ Client(c) \in Places /\ Entry(e) # Client(c)
          BY <3>0, PlaceNames, PlacesApart
        <5>2. \A x \in Buffers : x \in {Head(q)} => In(x, Entry(e))
          BY <3>0, <4>4, Held
        <5>. QED BY <2>0, <4>5, <4>6, <4>7, <5>1, <5>2, Moving
      <4>9. NoRepeats'
        BY <2>0, <3>1, <4>2, <4>4 DEF NoRepeats
      <4>10. \A x \in Entries : Contents(entry'[x].queue) \subseteq Contents(entry[x].queue)
        BY <4>2, <4>4
      <4>11. RightQueue'
        BY <2>b, <3>1, <4>10
      <4>. QED BY <4>8, <4>9, <4>11 DEF BInv
    <3>3. CASE q = <<>>
      <4>1. client' = [client EXCEPT ![c].pc = "resetting"] /\ UNCHANGED entry
        BY <2>14, <3>3 DEF wait_pop
      <4>2. \A x \in Clients : client'[x].handle = client[x].handle
        BY <2>0, <3>0, <4>1 DEF TypeOK, ClientRecord
      <4>3. Frame(Unmade, Unmade)
        BY <3>1, <4>1, <4>2 DEF Frame
      <4>. QED BY <2>1, <3>1, <4>3
    <3>. QED BY <3>2, <3>3
  <2>15. ASSUME NEW c \in Clients, DefaultRead(c)
         PROVE  BInv'
    <3>1. /\ m_default \in Seq(Buffers) /\ m_default # <<>> /\ m_default' = Tail(m_default)
          /\ client[c].handle = None /\ client[c] \in ClientRecord
          /\ client' = [client EXCEPT ![c].handle = Head(m_default)]
          /\ UNCHANGED <<m_socketQueues, m_free, entry, reader, unmade, content>>
      BY <2>0, <2>15 DEF TypeOK, DefaultRead, routerVars, worldVars
    <3>2. client'[c].handle = Head(m_default) /\ \A x \in Clients : x # c => client'[x] = client[x]
      BY <2>0, <3>1 DEF TypeOK, ClientRecord
    <3>3. /\ Head(m_default) \in Buffers
          /\ Contents(m_default) = Contents(m_default') \cup {Head(m_default)}
          /\ NoRepeat(m_default') /\ Head(m_default) \notin Contents(m_default')
      BY <2>0, <3>1, PopBuffer DEF NoRepeats
    <3>4. Frame(Default, Client(c))
      BY <3>1, <3>2 DEF Frame
    <3>5. /\ \A x \in Buffers : In(x, Default)' <=> In(x, Default) /\ x \notin {Head(m_default)}
          /\ \A x \in Buffers : In(x, Client(c))' <=> In(x, Client(c)) \/ x \in {Head(m_default)}
      <4>1. ASSUME NEW x \in Buffers
            PROVE  In(x, Default)' <=> In(x, Default) /\ x \notin {Head(m_default)}
        <5>1. In(x, Default) <=> x \in Contents(m_default)
          BY Held
        <5>2. In(x, Default)' <=> x \in Contents(m_default')
          BY HeldNext
        <5>. QED BY <3>3, <5>1, <5>2
      <4>2. ASSUME NEW x \in Buffers
            PROVE  In(x, Client(c))' <=> In(x, Client(c)) \/ x \in {Head(m_default)}
        <5>1. ~In(x, Client(c))
          BY <3>1, NoneApart, Held
        <5>2. In(x, Client(c))' <=> x = Head(m_default)
          BY <3>2, HeldNext
        <5>. QED BY <5>1, <5>2
      <4>. QED BY <4>1, <4>2
    <3>6. OnePlace'
      <4>1. Default \in Places /\ Client(c) \in Places /\ Default # Client(c)
        BY PlaceNames, PlacesApart
      <4>2. \A x \in Buffers : x \in {Head(m_default)} => In(x, Default)
        BY <3>3, Held
      <4>. QED BY <2>0, <3>4, <3>5, <4>1, <4>2, Moving
    <3>7. NoRepeats' /\ RightQueue'
      BY <2>0, <2>b, <3>1, <3>3 DEF NoRepeats
    <3>. QED BY <3>6, <3>7 DEF BInv
  <2>16. ASSUME NEW c \in Clients, ReturnBuffer(c)
         PROVE  BInv'
    <3>1. /\ client[c].handle \in Buffers /\ client[c] \in ClientRecord
          /\ m_free' = m_free \cup {client[c].handle}
          /\ client' = [client EXCEPT ![c].handle = None]
          /\ UNCHANGED <<m_socketQueues, m_default, entry, reader, unmade, content>>
      BY <2>0, <2>16 DEF TypeOK, ReturnBuffer, ClientRecord, routerVars, worldVars
    <3>2. client'[c].handle = None /\ \A x \in Clients : x # c => client'[x] = client[x]
      BY <2>0, <3>1 DEF TypeOK, ClientRecord
    <3>3. Frame(Client(c), FreeList)
      BY <3>1, <3>2 DEF Frame
    <3>4. /\ \A x \in Buffers : In(x, Client(c))' <=> In(x, Client(c)) /\ x \notin {client[c].handle}
          /\ \A x \in Buffers : In(x, FreeList)' <=> In(x, FreeList) \/ x \in {client[c].handle}
      <4>1. ASSUME NEW x \in Buffers
            PROVE  In(x, Client(c))' <=> In(x, Client(c)) /\ x \notin {client[c].handle}
        <5>1. In(x, Client(c)) <=> x = client[c].handle
          BY Held
        <5>2. ~In(x, Client(c))'
          BY <3>2, NoneApart, HeldNext
        <5>. QED BY <5>1, <5>2
      <4>2. \A x \in Buffers : In(x, FreeList)' <=> In(x, FreeList) \/ x \in {client[c].handle}
        BY <3>1, Held, HeldNext
      <4>. QED BY <4>1, <4>2
    <3>5. OnePlace'
      <4>1. Client(c) \in Places /\ FreeList \in Places /\ Client(c) # FreeList
        BY PlaceNames, PlacesApart
      <4>2. \A x \in Buffers : x \in {client[c].handle} => In(x, Client(c))
        BY Held
      <4>. QED BY <2>0, <3>3, <3>4, <4>1, <4>2, Moving
    <3>6. NoRepeats' /\ RightQueue'
      BY <2>0, <2>b, <3>1 DEF NoRepeats
    <3>. QED BY <3>5, <3>6 DEF BInv
  <2>17. ASSUME NEW c \in Clients, NEW count, AllocateBuffers(c, count)
         PROVE  BInv'
    <3> PICK new \in SUBSET unmade : m_free' = m_free \cup new /\ unmade' = unmade \ new
      BY <2>17 DEF AllocateBuffers
    <3>1. UNCHANGED <<m_socketQueues, m_default, entry, reader, client, content>>
      BY <2>17 DEF AllocateBuffers, routerVars
    <3>2. Frame(Unmade, FreeList)
      BY <3>1 DEF Frame
    <3>3. /\ \A x \in Buffers : In(x, Unmade)' <=> In(x, Unmade) /\ x \notin new
          /\ \A x \in Buffers : In(x, FreeList)' <=> In(x, FreeList) \/ x \in new
      BY Held, HeldNext
    <3>4. OnePlace'
      <4>1. Unmade \in Places /\ FreeList \in Places /\ Unmade # FreeList
        BY PlaceNames, PlacesApart
      <4>2. \A x \in Buffers : x \in new => In(x, Unmade)
        BY Held
      <4>. QED BY <2>0, <3>2, <3>3, <4>1, <4>2, Moving
    <3>5. NoRepeats' /\ RightQueue'
      BY <2>0, <2>b, <3>1 DEF NoRepeats
    <3>. QED BY <3>4, <3>5 DEF BInv
  <2>18. CASE DoRead
    BY <2>2, <2>3, <2>7, <2>8, <2>9, <2>10, <2>11, <2>18 DEF DoRead
  <2>19. ASSUME NEW c \in Clients, Call(c) PROVE BInv'
    BY <2>4, <2>5, <2>12, <2>13, <2>15, <2>16, <2>17, <2>19 DEF Call
  <2>20. ASSUME NEW c \in Clients, Continue(c) \/ spurious_wakeup(c) PROVE BInv'
    BY <2>4, <2>14, <2>20 DEF Continue
  <2>. QED BY <2>6, <2>18, <2>19, <2>20 DEF Next, finished
<1>. QED BY <1>1, <1>2, ControlAlways, PTL DEF Spec

\* No buffer is lost, none is in two places: the conservation that m_free,
\* DataHandle, append_from and the hand-over by release are for.
THEOREM BufferAlways == Spec => []BufferInOnePlace
<1>1. BInv => BufferInOnePlace
  BY DEF BInv, OnePlace, NoRepeats, BufferInOnePlace
<1>. QED BY <1>1, BuffersAlways, PTL

\* A packet is never stranded in a queue that no reader of its socket reaches.
THEOREM RightQueueAlways == Spec => []RightQueue
BY BuffersAlways, PTL DEF BInv

-----------------------------------------------------------------------------
(***************************************************************************)
(* The order of the packets in the queues.  Sorted is Ascending with the   *)
(* contents of the buffers as a parameter.                                 *)
(***************************************************************************)
Sorted(f, q) == \A i, j \in 1..Len(q) : i < j => f[q[i]].number < f[q[j]].number

\* The contents of buffers outside of a queue do not matter to it.
LEMMA SortedSame ==
  ASSUME NEW f, NEW g, NEW q, Sorted(f, q), \A b \in Contents(q) : g[b] = f[b]
  PROVE  Sorted(g, q)
BY DEF Sorted, Contents

\* A push of a later packet keeps the order.
LEMMA SortedAppend ==
  ASSUME NEW f, NEW q \in Seq(Buffers), NEW b \in Buffers, Sorted(f, q),
         \A x \in Contents(q) : f[x].number < f[b].number
  PROVE  Sorted(f, Append(q, b))
<1> DEFINE n == Len(q)
           a == Append(q, b)
<1>1. n \in Nat /\ Len(a) = n + 1 /\ a[n + 1] = b /\ \A i \in 1..n : a[i] = q[i]
  OBVIOUS
<1>2. \A i \in 1..n : f[q[i]].number < f[b].number
  BY DEF Contents
<1>3. \A i, j \in 1..n : i < j => f[q[i]].number < f[q[j]].number
  BY DEF Sorted
<1> HIDE DEF n, a
<1>4. ASSUME NEW i \in 1..(n + 1), NEW j \in 1..(n + 1), i < j
      PROVE  f[a[i]].number < f[a[j]].number
  <2>1. i \in 1..n
    BY <1>1, <1>4
  <2>2. CASE j = n + 1
    BY <1>1, <1>2, <2>1, <2>2
  <2>3. CASE j # n + 1
    <3>1. j \in 1..n
      BY <1>1, <2>3
    <3>. QED BY <1>1, <1>3, <1>4, <2>1, <3>1
  <2>. QED BY <2>2, <2>3
<1>. QED BY <1>1, <1>4 DEF Sorted, a

\* A pop keeps the order.
LEMMA SortedTail ==
  ASSUME NEW f, NEW q \in Seq(Buffers), q # <<>>, Sorted(f, q)
  PROVE  Sorted(f, Tail(q))
<1> DEFINE n == Len(q)
           t == Tail(q)
<1>1. /\ n \in Nat \ {0} /\ Len(t) = n - 1
      /\ \A i \in 1..(n - 1) : t[i] = q[i + 1]
  BY HeadTailProperties, EmptySeq
<1>2. \A i, j \in 1..n : i < j => f[q[i]].number < f[q[j]].number
  BY DEF Sorted
<1> HIDE DEF n, t
<1>3. ASSUME NEW i \in 1..(n - 1), NEW j \in 1..(n - 1), i < j
      PROVE  f[t[i]].number < f[t[j]].number
  <2>1. i + 1 \in 1..n /\ j + 1 \in 1..n /\ i + 1 < j + 1
    BY <1>1, <1>3
  <2>. QED BY <1>1, <1>2, <2>1
<1>. QED BY <1>1, <1>3 DEF Sorted, t

LEMMA SortedQueues ==
  /\ ArrivalOrder <=> Sorted(content, m_default) /\ \A e \in Entries : Sorted(content, entry[e].queue)
  /\ ArrivalOrder' <=> Sorted(content', m_default') /\ \A e \in Entries : Sorted(content', entry'[e].queue)
BY DEF ArrivalOrder, Ascending, Sorted

Carrying == {"routing", "handling", "defaulting"}
Queued(b) == b \in Contents(m_default) \/ \E e \in Entries : b \in Contents(entry[e].queue)

\* The packet in the read thread is later than every packet in a queue.
ReaderLast ==
  reader.pc \in Carrying =>
    \A b \in Buffers : Queued(b) => content[b].number < content[reader.buf].number

\* A packet for m_default came before its socket was registered, if it is by now.
Unwanted(b) ==
  LET e == m_socketQueues[content[b].socket]
  IN  e # None => content[b].number <= entry[e].since
DefaultingUnwanted == reader.pc = "defaulting" => Unwanted(reader.buf)

OInv == ArrivalOrder /\ RegisteredNotDefault /\ ReaderLast /\ DefaultingUnwanted

LEMMA UnwantedDefault ==
  /\ RegisteredNotDefault <=> \A b \in Contents(m_default) : Unwanted(b)
  /\ RegisteredNotDefault' <=> \A b \in Contents(m_default') : Unwanted(b)'
BY DEF RegisteredNotDefault, Unwanted, Contents

\* The order is kept because there is one read thread, which finishes with one
\* packet before it takes the next.
THEOREM OrderAlways == Spec => []OInv
<1>1. Init => OInv
  <2> SUFFICES ASSUME Init PROVE OInv
    OBVIOUS
  <2>1. m_default = <<>> /\ (\A e \in Entries : entry[e].queue = <<>>) /\ reader.pc = "off"
    BY DEF Init
  <2>2. ArrivalOrder
    BY <2>1 DEF ArrivalOrder, Ascending
  <2>. QED BY <2>1, <2>2, EmptyQueue DEF OInv, RegisteredNotDefault, ReaderLast, DefaultingUnwanted, Carrying
<1>2. CInv /\ CInv' /\ BInv /\ OInv /\ [Next]_vars => OInv'
  <2> SUFFICES ASSUME CInv, CInv', BInv, OInv, [Next]_vars PROVE OInv'
    OBVIOUS
  <2> USE NoneApart
  <2>0. /\ TypeOK /\ Control /\ Filled /\ OnePlace /\ NoRepeats /\ RightQueue
        /\ ArrivalOrder /\ RegisteredNotDefault /\ ReaderLast /\ DefaultingUnwanted
    BY DEF CInv, BInv, OInv
  <2>a. m_default \in Seq(Buffers) /\ \A e \in Entries : entry[e].queue \in Seq(Buffers)
    BY <2>0 DEF TypeOK, EntryRecord
  <2>b. Sorted(content, m_default) /\ \A e \in Entries : Sorted(content, entry[e].queue)
    BY <2>0, SortedQueues
  <2>c. \A b \in Contents(m_default) : Unwanted(b)
    BY <2>0, UnwantedDefault
  <2>d. ASSUME NEW b \in Buffers, Queued(b) \/ (reader.pc \in Carrying /\ b = reader.buf)
        PROVE  /\ content[b].socket \in Sockets /\ content[b].number \in 1..MaxPackets
               /\ content[b].number <= arrived
    <3>1. b \in Travelling
      BY <2>d DEF Queued, Carrying, Travelling
    <3>. QED BY <2>0, <3>1 DEF Filled, Packets
  <2>e. ASSUME reader.buf \in Buffers PROVE ~Queued(reader.buf)
    <3>1. In(reader.buf, Reader)
      BY Held
    <3>2. /\ Reader \in Places /\ Default \in Places /\ Default # Reader
          /\ \A e \in Entries : Entry(e) \in Places /\ Entry(e) # Reader
      BY PlaceNames, PlacesApart
    <3>3. ~In(reader.buf, Default) /\ \A e \in Entries : ~In(reader.buf, Entry(e))
      BY <2>0, <2>e, <3>1, <3>2 DEF OnePlace
    <3>. QED BY <3>3, Held DEF Queued
  \* A queue that stays or loses its head.
  <2>f. ASSUME NEW q \in Seq(Buffers), NEW r, Sorted(content, q),
               r = q \/ (q # <<>> /\ r = Tail(q))
        PROVE  Sorted(content, r) /\ Contents(r) \subseteq Contents(q)
    <3>1. CASE r = q
      BY <2>f, <3>1
    <3>2. CASE q # <<>> /\ r = Tail(q)
      BY <2>f, <3>2, SortedTail, PopBuffer
    <3>. QED BY <2>f, <3>1, <3>2
  \* Steps that at most pop from queues.
  <2>1. ASSUME UNCHANGED <<m_socketQueues, content>>,
               m_default' = m_default \/ (m_default # <<>> /\ m_default' = Tail(m_default)),
               \A e \in Entries : /\ entry'[e].since = entry[e].since
                                  /\ \/ entry'[e].queue = entry[e].queue
                                     \/ entry[e].queue # <<>> /\ entry'[e].queue = Tail(entry[e].queue),
               reader'.pc \in Carrying => reader.pc \in Carrying /\ reader'.buf = reader.buf,
               reader'.pc = "defaulting" => reader.pc = "defaulting"
        PROVE  OInv'
    <3>1. Sorted(content, m_default') /\ Contents(m_default') \subseteq Contents(m_default)
      BY <2>a, <2>b, <2>f, <2>1
    <3>2. ASSUME NEW e \in Entries
          PROVE  Sorted(content, entry'[e].queue) /\ Contents(entry'[e].queue) \subseteq Contents(entry[e].queue)
      BY <2>a, <2>b, <2>f, <2>1
    <3>3. ArrivalOrder'
      BY <2>1, <3>1, <3>2, SortedQueues
    <3>4. \A b \in Buffers : Queued(b)' => Queued(b)
      BY <3>1, <3>2 DEF Queued, Contents
    <3>5. ASSUME NEW b \in Buffers, Unwanted(b), content[b].socket \in Sockets PROVE Unwanted(b)'
      <4>1. m_socketQueues[content[b].socket] \in Entries \cup {None}
        BY <2>0, <3>5 DEF TypeOK
      <4>. QED BY <2>1, <3>5, <4>1 DEF Unwanted
    <3>6. RegisteredNotDefault'
      <4>1. ASSUME NEW b \in Contents(m_default') PROVE Unwanted(b)'
        <5>1. b \in Contents(m_default) /\ b \in Buffers
          BY <2>a, <3>1, QueueBuffers
        <5>2. Unwanted(b) /\ Queued(b)
          BY <2>c, <5>1 DEF Queued
        <5>3. content[b].socket \in Sockets
          BY <2>d, <5>1, <5>2
        <5>. QED BY <3>5, <5>1, <5>2, <5>3
      <4>. QED BY <4>1, UnwantedDefault
    <3>7. ReaderLast'
      BY <2>0, <2>1, <3>4 DEF ReaderLast
    <3>8. DefaultingUnwanted'
      <4> SUFFICES ASSUME reader'.pc = "defaulting" PROVE Unwanted(reader.buf)'
        BY DEF DefaultingUnwanted
      <4>1. /\ reader.pc = "defaulting" /\ reader.pc \in Carrying /\ reader'.buf = reader.buf
            /\ reader.buf \in Buffers
        BY <2>0, <2>1 DEF TypeOK, ReaderRecord, Control, Holding, Carrying
      <4> PICK b \in Buffers : b = reader.buf
        BY <4>1
      <4>2. Unwanted(b)'
        BY <2>0, <2>d, <3>5, <4>1 DEF DefaultingUnwanted
      <4>. QED BY <4>1, <4>2 DEF Unwanted
    <3>. QED BY <3>3, <3>6, <3>7, <3>8 DEF OInv
  \* Steps that change the map: what is in the queues, and what is on its way to
  \* m_default, stays as it is or goes.
  <2>h. ASSUME UNCHANGED <<m_default, reader, content>>, ArrivalOrder',
               \A b \in Buffers : Queued(b)' => Queued(b),
               \A b \in Buffers : /\ Unwanted(b)
                                  /\ Queued(b) \/ (reader.pc \in Carrying /\ b = reader.buf)
                                  => Unwanted(b)'
        PROVE  OInv'
    <3>1. RegisteredNotDefault'
      <4>1. \A b \in Contents(m_default) : b \in Buffers /\ Queued(b) /\ Unwanted(b)
        BY <2>a, <2>c, QueueBuffers DEF Queued
      <4>2. \A b \in Contents(m_default') : Unwanted(b)'
        <5> SUFFICES ASSUME NEW b \in Contents(m_default') PROVE Unwanted(b)'
          OBVIOUS
        <5>1. b \in Buffers /\ Queued(b) /\ Unwanted(b)
          BY <2>h, <4>1
        <5>. QED BY <2>h, <5>1
      <4>. QED BY <4>2, UnwantedDefault
    <3>2. ReaderLast'
      BY <2>0, <2>h DEF ReaderLast
    <3>3. DefaultingUnwanted'
      <4> SUFFICES ASSUME reader'.pc = "defaulting" PROVE Unwanted(reader.buf)'
        BY DEF DefaultingUnwanted
      <4>1. reader.pc = "defaulting" /\ reader.pc \in Carrying /\ reader.buf \in Buffers
        BY <2>0, <2>h DEF TypeOK, ReaderRecord, Control, Holding, Carrying
      <4> PICK b \in Buffers : b = reader.buf
        BY <4>1
      <4>2. Unwanted(b)'
        BY <2>0, <2>h, <4>1 DEF DefaultingUnwanted
      <4>. QED BY <2>h, <4>2 DEF Unwanted
    <3>. QED BY <2>h, <3>1, <3>2, <3>3 DEF OInv
  \* The same for a step of the read thread, and for one of the clients.
  <2>g. ASSUME UNCHANGED <<m_socketQueues, m_default, entry, content>>,
               reader'.pc \in Carrying => reader.pc \in Carrying /\ reader'.buf = reader.buf,
               reader'.pc = "defaulting" => reader.pc = "defaulting"
        PROVE  OInv'
    BY <2>1, <2>g
  <2>2. CASE stop_reading \/ DoRead_sleeps \/ route_to_handler \/ signal
    <3>1. /\ UNCHANGED <<m_socketQueues, m_default, entry, content>>
          /\ reader'.pc \in Carrying => reader.pc \in Carrying /\ reader'.buf = reader.buf
          /\ reader'.pc # "defaulting"
      BY <2>0, <2>2 DEF TypeOK, ReaderRecord, Carrying, stop_reading, DoRead_sleeps, route_to_handler, signal, At, Goto,
         routerVars, worldVars
    <3>. QED BY <2>g, <3>1
  <2>3. CASE DoRead_begins
    <3>1. /\ UNCHANGED <<m_socketQueues, m_default, entry, content>>
          /\ reader'.pc = "reading"
      BY <2>0, <2>3 DEF TypeOK, ReaderRecord, DoRead_begins, routerVars
    <3>. QED BY <2>g, <3>1 DEF Carrying
  <2>4. CASE BulkRead_nothing \/ call_handler
    <3>1. /\ UNCHANGED <<m_socketQueues, m_default, entry, content>>
          /\ reader'.pc = "signalling"
      BY <2>0, <2>4 DEF TypeOK, ReaderRecord, BulkRead_nothing, call_handler, ReturnReadBuffer, WithoutBuffer,
         routerVars, worldVars
    <3>. QED BY <2>g, <3>1 DEF Carrying
  <2>5. ASSUME NEW s \in Sockets, BulkRead(s)
        PROVE  OInv'
    <3>0. reader.buf \in Buffers
      BY <2>0, <2>5 DEF TypeOK, ReaderRecord, Control, Holding, BulkRead, At
    <3>1. /\ reader'.pc = "routing" /\ reader'.buf = reader.buf /\ arrived' = arrived + 1 /\ arrived \in Nat
          /\ UNCHANGED <<m_socketQueues, m_default, entry>>
      BY <2>0, <2>5 DEF TypeOK, ReaderRecord, BulkRead, Goto, routerVars
    <3>2. /\ content'[reader.buf].number = arrived + 1
          /\ \A b \in Buffers : b # reader.buf => content'[b] = content[b]
      BY <2>0, <2>5, <3>0 DEF TypeOK, BulkRead
    <3>3. \A b \in Buffers : Queued(b) => content'[b] = content[b]
      BY <2>e, <3>0, <3>2
    <3>4. /\ \A b \in Contents(m_default) : content'[b] = content[b]
          /\ \A e \in Entries : \A b \in Contents(entry[e].queue) : content'[b] = content[b]
      BY <2>a, <3>3, QueueBuffers DEF Queued
    <3>5. ArrivalOrder'
      <4>1. Sorted(content', m_default)
        BY <2>b, <3>4, SortedSame
      <4>2. \A e \in Entries : Sorted(content', entry[e].queue)
        BY <2>b, <3>4, SortedSame
      <4>. QED BY <3>1, <4>1, <4>2, SortedQueues
    <3>6. RegisteredNotDefault'
      BY <2>0, <3>1, <3>4 DEF RegisteredNotDefault
    <3>7. ReaderLast'
      <4> SUFFICES ASSUME NEW b \in Buffers, Queued(b)'
                   PROVE  content'[b].number < content'[reader'.buf].number
        BY DEF ReaderLast
      <4>1. Queued(b)
        BY <3>1 DEF Queued
      <4>2. content'[b].number = content[b].number /\ content[b].number \in 1..MaxPackets /\ content[b].number <= arrived
        <5>1. content[b].number \in 1..MaxPackets /\ content[b].number <= arrived
          BY <2>d, <4>1
        <5>. QED BY <3>3, <4>1, <5>1
      <4>. QED BY <3>1, <3>2, <4>2
    <3>8. DefaultingUnwanted'
      BY <3>1 DEF DefaultingUnwanted
    <3>. QED BY <3>5, <3>6, <3>7, <3>8 DEF OInv
  <2>6. CASE route_to_queue \/ push_default
    <3>1. /\ reader.pc \in Carrying /\ reader.buf \in Buffers /\ reader'.pc = "signalling"
          /\ UNCHANGED <<m_socketQueues, content>>
      BY <2>0, <2>6 DEF TypeOK, ReaderRecord, Control, Holding, Carrying, route_to_queue, push_default, WithoutBuffer, At,
         routerVars, worldVars
    <3> PICK x \in Buffers : x = reader.buf
      BY <3>1
    <3>2. \A b \in Buffers : Queued(b) => content[b].number < content[x].number
      BY <2>0, <3>1 DEF ReaderLast
    <3>3. ReaderLast' /\ DefaultingUnwanted'
      BY <3>1 DEF ReaderLast, DefaultingUnwanted, Carrying
    <3>4. CASE route_to_queue
      <4>0. Found \in Entries
        <5>1. content[x] \in Packets
          BY <2>0, <3>1 DEF Carrying, Filled, Travelling
        <5>. QED BY <2>0, <3>4, <5>1 DEF TypeOK, Packets, Found, route_to_queue
      <4> PICK e \in Entries : e = Found
        BY <4>0
      <4>1. /\ entry' = [entry EXCEPT ![e].queue = Append(@, x)] /\ m_default' = m_default
            /\ entry[e] \in EntryRecord
        BY <2>0, <3>4 DEF TypeOK, route_to_queue
      <4>2. /\ entry'[e].queue = Append(entry[e].queue, x)
            /\ \A f \in Entries : f # e => entry'[f] = entry[f]
            /\ \A f \in Entries : entry'[f].since = entry[f].since
        BY <2>0, <4>1 DEF TypeOK, EntryRecord
      <4>3. Sorted(content, entry'[e].queue)
        <5>1. \A b \in Contents(entry[e].queue) : content[b].number < content[x].number
          BY <2>a, <3>2, QueueBuffers DEF Queued
        <5>. QED BY <2>a, <2>b, <4>2, <5>1, SortedAppend
      <4>4. ArrivalOrder'
        BY <2>b, <3>1, <4>1, <4>2, <4>3, SortedQueues
      <4>5. RegisteredNotDefault'
        <5> SUFFICES ASSUME NEW b \in Contents(m_default) PROVE Unwanted(b)'
          BY <4>1, UnwantedDefault
        <5>1. content[b].socket \in Sockets /\ Unwanted(b)
          <6>1. b \in Buffers /\ Queued(b)
            BY <2>a, QueueBuffers DEF Queued
          <6>. QED BY <2>c, <2>d, <6>1
        <5>2. m_socketQueues[content[b].socket] \in Entries \cup {None}
          BY <2>0, <5>1 DEF TypeOK
        <5>. QED BY <3>1, <4>2, <5>1, <5>2 DEF Unwanted
      <4>. QED BY <3>3, <4>4, <4>5 DEF OInv
    <3>5. CASE push_default
      <4>1. reader.pc = "defaulting" /\ m_default' = Append(m_default, x) /\ entry' = entry
        BY <3>5 DEF push_default, At
      <4>2. Sorted(content, m_default')
        <5>1. \A b \in Contents(m_default) : content[b].number < content[x].number
          BY <2>a, <3>2, QueueBuffers DEF Queued
        <5>. QED BY <2>a, <2>b, <4>1, <5>1, SortedAppend
      <4>3. ArrivalOrder'
        BY <2>b, <3>1, <4>1, <4>2, SortedQueues
      <4>4. Unwanted(x)
        BY <2>0, <4>1 DEF DefaultingUnwanted
      <4>5. RegisteredNotDefault'
        <5> SUFFICES ASSUME NEW b \in Contents(m_default') PROVE Unwanted(b)'
          BY UnwantedDefault
        <5>1. Contents(m_default') = Contents(m_default) \cup {x}
          BY <2>a, <4>1, PushBuffer
        <5>2. Unwanted(b)
          BY <2>c, <4>4, <5>1
        <5>. QED BY <3>1, <4>1, <5>2 DEF Unwanted
      <4>. QED BY <3>3, <4>3, <4>5 DEF OInv
    <3>. QED BY <2>6, <3>4, <3>5
  <2>7. CASE route_to_default
    <3>1. /\ reader.pc = "routing" /\ Found = None /\ reader.buf \in Buffers
          /\ reader'.pc = "defaulting" /\ reader'.buf = reader.buf
          /\ UNCHANGED <<m_socketQueues, m_default, entry, content>>
      BY <2>0, <2>7 DEF TypeOK, ReaderRecord, Control, Holding, route_to_default, Goto, At, routerVars, worldVars
    <3> PICK x \in Buffers : x = reader.buf
      BY <3>1
    <3>2. ArrivalOrder' /\ RegisteredNotDefault'
      BY <2>0, <3>1 DEF ArrivalOrder, Ascending, RegisteredNotDefault, Contents
    <3>3. ReaderLast'
      BY <2>0, <3>1 DEF ReaderLast, Carrying, Queued
    <3>4. m_socketQueues[content[x].socket] = None
      <4>1. content[x].socket \in Sockets
        BY <2>d, <3>1 DEF Carrying
      <4>. QED BY <2>0, <3>1, <4>1 DEF Control, Found
    <3>5. DefaultingUnwanted'
      BY <3>1, <3>4 DEF DefaultingUnwanted, Unwanted
    <3>. QED BY <3>2, <3>3, <3>5 DEF OInv
  \* The clients.
  <2>8. ASSUME NEW c \in Clients, NEW s \in Sockets, NEW h \in BOOLEAN, RegisterInterest(c, s, h)
        PROVE  OInv'
    <3> PICK e \in Entries \ InUse :
             /\ m_socketQueues' = [m_socketQueues EXCEPT ![s] = e]
             /\ entry' = [entry EXCEPT ![e] = [handler |-> h, queue |-> <<>>, since |-> arrived]]
      BY <2>8 DEF RegisterInterest
    <3>1. UNCHANGED <<m_default, reader, content, arrived>>
      BY <2>8 DEF RegisterInterest, worldVars
    <3>2. /\ entry'[e].queue = <<>> /\ entry'[e].since = arrived
          /\ \A x \in Entries : x # e => entry'[x] = entry[x]
          /\ m_socketQueues'[s] = e
          /\ \A r \in Sockets : r # s => m_socketQueues'[r] = m_socketQueues[r] /\ m_socketQueues[r] # e
      BY <2>0 DEF TypeOK, InUse
    <3>3. ArrivalOrder'
      <4>1. Sorted(content, <<>>)
        BY DEF Sorted
      <4>. QED BY <2>b, <3>1, <3>2, <4>1, SortedQueues
    <3>4. \A b \in Buffers : Queued(b)' => Queued(b)
      BY <3>1, <3>2, EmptyQueue DEF Queued, Contents
    <3>5. ASSUME NEW b \in Buffers, Unwanted(b), Queued(b) \/ (reader.pc \in Carrying /\ b = reader.buf)
          PROVE  Unwanted(b)'
      <4>1. /\ content[b].socket \in Sockets /\ content[b].number \in 1..MaxPackets
            /\ content[b].number <= arrived
        BY <2>d, <3>5
      <4>2. CASE content[b].socket = s
        BY <3>1, <3>2, <4>1, <4>2 DEF Unwanted
      <4>3. CASE content[b].socket # s
        <5>1. m_socketQueues[content[b].socket] \in Entries \cup {None}
          BY <2>0, <4>1 DEF TypeOK
        <5>. QED BY <3>1, <3>2, <3>5, <4>1, <4>3, <5>1 DEF Unwanted
      <4>. QED BY <4>2, <4>3
    <3>. QED BY <2>h, <3>1, <3>3, <3>4, <3>5
  <2>9. ASSUME NEW c \in Clients, NEW s \in Sockets, UnregisterInterest(c, s)
        PROVE  OInv'
    <3>0. m_socketQueues[s] \in Entries
      BY <2>0, <2>9 DEF TypeOK, UnregisterInterest, Unmap
    <3> PICK e \in Entries : e = m_socketQueues[s]
      BY <3>0
    <3>1. /\ m_socketQueues' = [m_socketQueues EXCEPT ![s] = None]
          /\ entry' = [entry EXCEPT ![e].queue = <<>>] /\ entry[e] \in EntryRecord
          /\ UNCHANGED <<m_default, reader, content, arrived>>
      BY <2>0, <2>9 DEF TypeOK, UnregisterInterest, Unmap, Salvage, worldVars
    <3>2. /\ entry'[e].queue = <<>>
          /\ \A x \in Entries : entry'[x].since = entry[x].since /\ (x # e => entry'[x] = entry[x])
          /\ m_socketQueues'[s] = None
          /\ \A r \in Sockets : r # s => m_socketQueues'[r] = m_socketQueues[r]
      BY <2>0, <3>1 DEF TypeOK, EntryRecord
    <3>3. ArrivalOrder'
      <4>1. Sorted(content, <<>>)
        BY DEF Sorted
      <4>. QED BY <2>b, <3>1, <3>2, <4>1, SortedQueues
    <3>4. \A b \in Buffers : Queued(b)' => Queued(b)
      BY <3>1, <3>2, EmptyQueue DEF Queued, Contents
    <3>5. ASSUME NEW b \in Buffers, Unwanted(b), Queued(b) \/ (reader.pc \in Carrying /\ b = reader.buf)
          PROVE  Unwanted(b)'
      <4>1. content[b].socket \in Sockets
        BY <2>d, <3>5
      <4>2. m_socketQueues[content[b].socket] \in Entries \cup {None}
        BY <2>0, <4>1 DEF TypeOK
      <4>. QED BY <3>1, <3>2, <3>5, <4>1, <4>2 DEF Unwanted
    <3>. QED BY <2>h, <3>1, <3>3, <3>4, <3>5
  <2>10. ASSUME NEW c \in Clients, wait_pop(c)
         PROVE  OInv'
    <3>1. UNCHANGED <<m_socketQueues, m_default, content, reader>>
      BY <2>10 DEF wait_pop, routerVars, worldVars
    <3>2. client[c].qep \in Entries
      BY <2>0, <2>10 DEF Control, wait_pop
    <3> PICK e \in Entries : e = client[c].qep
      BY <3>2
    <3>3. CASE entry' = entry
      BY <2>g, <3>1, <3>3
    <3>4. CASE entry[e].queue # <<>> /\ entry' = [entry EXCEPT ![e].queue = Tail(entry[e].queue)]
      <4>1. \A x \in Entries : /\ entry'[x].since = entry[x].since
                               /\ \/ entry'[x].queue = entry[x].queue
                                  \/ entry[x].queue # <<>> /\ entry'[x].queue = Tail(entry[x].queue)
        <5>1. \A x \in Entries : entry[x] \in EntryRecord
          BY <2>0 DEF TypeOK
        <5>. QED BY <2>0, <3>4, <5>1 DEF TypeOK, EntryRecord
      <4>. QED BY <2>1, <3>1, <4>1
    <3>. QED BY <2>10, <3>3, <3>4 DEF wait_pop
  <2>11. ASSUME NEW c \in Clients, DefaultRead(c)
         PROVE  OInv'
    <3>1. /\ UNCHANGED <<m_socketQueues, content, entry, reader>>
          /\ m_default # <<>> /\ m_default' = Tail(m_default)
      BY <2>11 DEF DefaultRead, routerVars, worldVars
    <3>. QED BY <2>1, <3>1
  <2>12. ASSUME NEW c \in Clients,
                \/ \E s \in Sockets : SocketRead(c, s)
                \/ \E d \in Devices : SetUsbDevice(c, d)
                \/ \E n \in 1..Cardinality(Buffers) : AllocateBuffers(c, n)
                \/ ReturnBuffer(c) \/ ClearUsbDevice(c) \/ qep_reset(c) \/ readwait(c) \/ close_device(c)
                \/ spurious_wakeup(c)
         PROVE  OInv'
    <3>1. UNCHANGED <<m_socketQueues, m_default, entry, content, reader>>
      BY <2>12 DEF SocketRead, SetUsbDevice, AllocateBuffers, ReturnBuffer, ClearUsbDevice, BeginClear, qep_reset,
         readwait, close_device, spurious_wakeup, routerVars, worldVars
    <3>. QED BY <2>g, <3>1
  <2>13. ASSUME NEW c \in Clients, SpinoffSimpleReadThread(c)
         PROVE  OInv'
    <3>1. UNCHANGED <<m_socketQueues, m_default, entry, content>> /\ reader'.pc = "idle"
      BY <2>0, <2>13 DEF TypeOK, ReaderRecord, SpinoffSimpleReadThread, Goto, worldVars
    <3>. QED BY <2>g, <3>1 DEF Carrying
  <2>14. CASE destroy \/ join \/ UNCHANGED vars
    <3>1. UNCHANGED <<m_socketQueues, m_default, entry, content, reader>>
      BY <2>14 DEF destroy, Destroy, join, vars, routerVars, worldVars
    <3>. QED BY <2>g, <3>1
  <2>15. CASE DoRead
    BY <2>2, <2>3, <2>4, <2>5, <2>6, <2>7, <2>15 DEF DoRead
  <2>16. ASSUME NEW c \in Clients, Call(c) PROVE OInv'
    BY <2>8, <2>9, <2>11, <2>12, <2>13, <2>16 DEF Call
  <2>17. ASSUME NEW c \in Clients, Continue(c) \/ spurious_wakeup(c) PROVE OInv'
    BY <2>10, <2>12, <2>17 DEF Continue
  <2>. QED BY <2>14, <2>15, <2>16, <2>17 DEF Next, finished
<1>. QED BY <1>1, <1>2, ControlAlways, BuffersAlways, PTL DEF Spec

\* Packets leave every queue in the order the device sent them, whatever the
\* read thread and the clients do in between.
THEOREM ArrivalOrderAlways == Spec => []ArrivalOrder
BY OrderAlways, PTL DEF OInv

\* After RegisterInterest only packets from before it can be in m_default, even
\* when the registration comes while the read thread has let go of m_mutex.
THEOREM RegisteredNotDefaultAlways == Spec => []RegisteredNotDefault
BY OrderAlways, PTL DEF OInv

-----------------------------------------------------------------------------
(***************************************************************************)
(* The device and the client that is closing it.                           *)
(***************************************************************************)
Clearing == {"clearing", "waiting", "cleared"}

\* One client at most is inside ~Controller.  It took the device out of the
\* router first, the device stays open as long, and once the client goes on to
\* close it no cycle of DoRead that reads from it is left.
DInv ==
  /\ m_dev # None => device[m_dev] = "open"
  /\ At("reading") => reader.dev \in Devices /\ device[reader.dev] = "open"
  /\ \A c \in Clients : client[c].pc \in Clearing =>
                          /\ m_dev = None
                          /\ \E d \in Devices : device[d] = "open"
                          /\ \A x \in Clients : client[x].pc \in Clearing => x = c
  /\ \A c \in Clients : client[c].pc = "cleared" => ~At("reading")

\* ReadWaitSignal is enough for ClearUsbDevice where pthread_cond_wait returns
\* only when it is signalled.
THEOREM NoReadAfterCloseAlways ==
  ASSUME ~SpuriousWakeups
  PROVE  Spec => []NoReadAfterClose
<1>1. Init => DInv
  BY DEF Init, DInv, Clearing, At
<1>2. CInv /\ CInv' /\ DInv /\ [Next]_vars => DInv'
  <2> SUFFICES ASSUME CInv, CInv', DInv, [Next]_vars PROVE DInv'
    OBVIOUS
  <2> USE NoneApart
  <2>0. TypeOK /\ TypeOK'
    BY DEF CInv
  <2>a. \A c \in Clients : client[c] \in ClientRecord
    BY <2>0 DEF TypeOK
  \* Steps that leave the device and the clients that close it alone.
  <2>1. ASSUME UNCHANGED <<m_dev, device>>,
               At("reading")' => At("reading") /\ reader'.dev = reader.dev,
               \A c \in Clients : client'[c].pc \in Clearing => client'[c].pc = client[c].pc
        PROVE  DInv'
    BY <2>1 DEF DInv, At, Clearing
  <2>2. CASE \/ stop_reading \/ DoRead_sleeps \/ BulkRead_nothing \/ route_to_queue \/ route_to_handler
             \/ call_handler \/ route_to_default \/ push_default \/ \E s \in Sockets : BulkRead(s)
    <3>1. UNCHANGED <<m_dev, device, client>> /\ reader'.pc # "reading"
      BY <2>0, <2>2 DEF TypeOK, ReaderRecord, stop_reading, DoRead_sleeps, BulkRead_nothing, route_to_queue,
         route_to_handler, call_handler, route_to_default, push_default, BulkRead, Goto, ReturnReadBuffer,
         WithoutBuffer, routerVars, worldVars
    <3>. QED BY <2>1, <3>1 DEF At
  <2>3. CASE DoRead_begins
    <3>1. /\ UNCHANGED <<m_dev, device, client>> /\ m_dev # None /\ reader'.dev = m_dev
      BY <2>0, <2>3 DEF TypeOK, ReaderRecord, DoRead_begins, routerVars
    <3>2. m_dev \in Devices
      BY <2>0, <3>1 DEF TypeOK
    <3>. QED BY <3>1, <3>2 DEF DInv, Clearing
  <2>4. CASE signal
    <3>1. /\ UNCHANGED <<m_dev, device>> /\ reader'.pc = "idle" /\ WakeOne
      BY <2>0, <2>4 DEF TypeOK, ReaderRecord, signal, routerVars, worldVars
    <3>2. CASE client' = client
      BY <2>1, <3>1, <3>2 DEF At
    <3>3. ASSUME NEW c \in Clients, client[c].pc = "waiting",
                 client' = [client EXCEPT ![c].pc = "cleared"]
          PROVE  DInv'
      <4>1. client'[c].pc = "cleared" /\ \A x \in Clients : x # c => client'[x] = client[x]
        BY <2>0, <2>a, <3>3 DEF TypeOK, ClientRecord
      <4>. QED BY <3>1, <3>3, <4>1 DEF DInv, Clearing, At
    <3>. QED BY <3>1, <3>2, <3>3 DEF WakeOne
  <2>5. ASSUME NEW c \in Clients,
               \/ \E s \in Sockets, h \in BOOLEAN : RegisterInterest(c, s, h)
               \/ \E s \in Sockets : UnregisterInterest(c, s) \/ SocketRead(c, s)
               \/ \E n \in 1..Cardinality(Buffers) : AllocateBuffers(c, n)
               \/ DefaultRead(c) \/ ReturnBuffer(c) \/ wait_pop(c) \/ qep_reset(c)
        PROVE  DInv'
    <3>1. UNCHANGED <<m_dev, device, reader>>
      BY <2>5 DEF RegisterInterest, UnregisterInterest, Unmap, Salvage, SocketRead, AllocateBuffers, DefaultRead,
         ReturnBuffer, wait_pop, qep_reset, routerVars, worldVars
    <3>2. \/ client' = client
          \/ \E e \in Entries \cup {None} : client' = [client EXCEPT ![c].pc = "popping", ![c].qep = e]
          \/ client' = [client EXCEPT ![c].pc = "resetting"]
          \/ \E b : client' = [client EXCEPT ![c].pc = "resetting", ![c].handle = b]
          \/ client' = [client EXCEPT ![c].pc = "idle", ![c].qep = None]
          \/ \E b : client' = [client EXCEPT ![c].handle = b]
      BY <2>0, <2>5 DEF TypeOK, RegisterInterest, UnregisterInterest, Unmap, Salvage, SocketRead, AllocateBuffers,
         DefaultRead, ReturnBuffer, wait_pop, qep_reset
    <3>3. /\ \A x \in Clients : x # c => client'[x].pc = client[x].pc
          /\ client'[c].pc \in {client[c].pc, "popping", "resetting", "idle"}
      BY <2>0, <2>a, <3>2 DEF TypeOK, ClientRecord
    <3>. QED BY <2>1, <3>1, <3>3 DEF At, Clearing
  <2>6. ASSUME NEW c \in Clients, NEW d \in Devices, SetUsbDevice(c, d)
        PROVE  DInv'
    <3>1. /\ m_dev' = d /\ device'[d] = "open" /\ \A x \in Devices : device[x] = "open" => device'[x] = "open"
          /\ UNCHANGED <<client, reader>> /\ \A x \in Devices : device[x] # "open"
      BY <2>0, <2>6 DEF TypeOK, SetUsbDevice
    <3>. QED BY <2>0, <3>1 DEF DInv, At, TypeOK, ReaderRecord
  <2>7. ASSUME NEW c \in Clients, ClearUsbDevice(c)
        PROVE  DInv'
    <3>1. /\ m_dev # None /\ m_dev \in Devices /\ m_dev' = None /\ UNCHANGED <<device, reader>>
          /\ client'[c].pc = "clearing" /\ \A x \in Clients : x # c => client'[x] = client[x]
      BY <2>0, <2>a, <2>7 DEF TypeOK, ClientRecord, ClearUsbDevice, BeginClear, worldVars
    <3>. QED BY <3>1 DEF DInv, Clearing, At
  <2>8. ASSUME NEW c \in Clients, readwait(c)
        PROVE  DInv'
    <3>1. /\ client[c].pc = "clearing" /\ UNCHANGED <<m_dev, device, reader>>
          /\ client'[c].pc = "waiting" /\ \A x \in Clients : x # c => client'[x] = client[x]
      BY <2>0, <2>a, <2>8 DEF TypeOK, ClientRecord, readwait, routerVars, worldVars
    <3>. QED BY <3>1 DEF DInv, Clearing, At
  <2>9. ASSUME NEW c \in Clients, close_device(c)
        PROVE  DInv'
    <3>1. /\ client[c].pc = "cleared" /\ UNCHANGED <<m_dev, reader>>
          /\ client'[c].pc = "idle" /\ \A x \in Clients : x # c => client'[x] = client[x]
      BY <2>0, <2>a, <2>9 DEF TypeOK, ClientRecord, close_device, routerVars
    <3>. QED BY <3>1 DEF DInv, Clearing, At
  <2>10. ASSUME NEW c \in Clients, SpinoffSimpleReadThread(c)
         PROVE  DInv'
    <3>1. UNCHANGED <<m_dev, device, client>> /\ reader'.pc = "idle"
      BY <2>0, <2>10 DEF TypeOK, ReaderRecord, SpinoffSimpleReadThread, Goto, worldVars
    <3>. QED BY <2>1, <3>1 DEF At
  <2>11. CASE destroy \/ join \/ UNCHANGED vars
    <3>1. UNCHANGED <<m_dev, device, client, reader>>
      BY <2>11 DEF destroy, Destroy, join, vars, routerVars, worldVars
    <3>. QED BY <2>1, <3>1 DEF At
  <2>12. CASE DoRead
    BY <2>2, <2>3, <2>4, <2>12 DEF DoRead
  <2>13. ASSUME NEW c \in Clients, Call(c) PROVE DInv'
    BY <2>5, <2>6, <2>7, <2>10, <2>13 DEF Call
  <2>14. ASSUME NEW c \in Clients, Continue(c) \/ spurious_wakeup(c) PROVE DInv'
    BY <2>5, <2>8, <2>9, <2>14 DEF Continue, spurious_wakeup
  <2>. QED BY <2>11, <2>12, <2>13, <2>14 DEF Next, finished
<1>3. DInv => NoReadAfterClose
  BY DEF DInv, NoReadAfterClose
<1>. QED BY <1>1, <1>2, <1>3, ControlAlways, PTL DEF Spec
-----------------------------------------------------------------------------
(***************************************************************************)
(* No packet is lost and none is delivered twice: the count that           *)
(* EveryPacketOnce states, from an invariant without cardinalities.        *)
(***************************************************************************)
\* The packets in the buffers T, filled as c says, and those with a fate in F
\* are the packets 1..N, each of them once.
Once(T, c, F, N) ==
  /\ \A b \in T : c[b].number \in 1..N
  /\ \A f \in F : f[2] \in 1..N
  /\ \A a, b \in T : c[a].number = c[b].number => a = b
  /\ \A f, g \in F : f[2] = g[2] => f = g
  /\ \A b \in T : \A f \in F : c[b].number # f[2]
  /\ \A n \in 1..N : (\E b \in T : c[b].number = n) \/ (\E f \in F : f[2] = n)

\* The fates of the packets in the buffers S, filled as c says.
Taken(how, c, S) == {<<how, c[b].number>> : b \in S}

\* The buffers S are consumed.
LEMMA OnceTaken ==
  ASSUME NEW T, NEW c, NEW F, NEW N, Once(T, c, F, N), NEW S, S \subseteq T, NEW how
  PROVE  Once(T \ S, c, F \cup Taken(how, c, S), N)
<1> DEFINE G == Taken(how, c, S)
<1>1. \A g \in G : \E b \in S : g = <<how, c[b].number>> /\ g[2] = c[b].number
  BY DEF Taken
<1>2. ASSUME NEW b \in S PROVE \E g \in G : g[2] = c[b].number
  <2> DEFINE g == <<how, c[b].number>>
  <2>1. g \in G /\ g[2] = c[b].number
    BY DEF Taken
  <2>. QED BY <2>1
<1>3. \A f, g \in G : f[2] = g[2] => f = g
  BY <1>1
<1> HIDE DEF G
<1>4. \A f \in F \cup G : f[2] \in 1..N
  BY <1>1 DEF Once
<1>5. \A f, g \in F \cup G : f[2] = g[2] => f = g
  BY <1>1, <1>3 DEF Once
<1>6. \A b \in T \ S : \A f \in F \cup G : c[b].number # f[2]
  BY <1>1 DEF Once
<1>7. \A n \in 1..N : (\E b \in T \ S : c[b].number = n) \/ (\E f \in F \cup G : f[2] = n)
  BY <1>2 DEF Once
<1>8. Once(T \ S, c, F \cup G, N)
  BY <1>4, <1>5, <1>6, <1>7 DEF Once
<1>. QED BY <1>8 DEF G

\* Packet N + 1 arrives in buffer b.
LEMMA OnceArrived ==
  ASSUME NEW T, NEW c, NEW F, NEW N \in Nat, Once(T, c, F, N), NEW b, b \notin T,
         NEW d, d[b].number = N + 1, \A x \in T : d[x] = c[x]
  PROVE  Once(T \cup {b}, d, F, N + 1)
<1>1. \A n \in 1..N : n \in 1..(N + 1) /\ n # N + 1
  OBVIOUS
<1>2. \A n \in 1..(N + 1) : n \in 1..N \/ n = N + 1
  OBVIOUS
<1>3. \A x \in T : d[x].number = c[x].number /\ d[x].number \in 1..N
  BY DEF Once
<1>4. /\ \A x \in T \cup {b} : d[x].number \in 1..(N + 1)
      /\ \A f \in F : f[2] \in 1..(N + 1)
  BY <1>1, <1>3 DEF Once
<1>5. \A x, y \in T \cup {b} : d[x].number = d[y].number => x = y
  BY <1>1, <1>3 DEF Once
<1>6. \A x \in T \cup {b} : \A f \in F : d[x].number # f[2]
  BY <1>1, <1>3 DEF Once
<1>7. \A n \in 1..(N + 1) : (\E x \in T \cup {b} : d[x].number = n) \/ (\E f \in F : f[2] = n)
  BY <1>2, <1>3 DEF Once
<1>8. \A f, g \in F : f[2] = g[2] => f = g
  BY DEF Once
<1>. QED BY <1>4, <1>5, <1>6, <1>7, <1>8 DEF Once

LEMMA OnceCounted ==
  ASSUME NEW T, NEW c, NEW F, NEW N, Once(T, c, F, N)
  PROVE  \A n \in 1..N :
           Cardinality({b \in T : c[b].number = n}) + Cardinality({f \in F : f[2] = n}) = 1
<1> SUFFICES ASSUME NEW n \in 1..N
             PROVE  Cardinality({b \in T : c[b].number = n}) + Cardinality({f \in F : f[2] = n}) = 1
  OBVIOUS
<1> DEFINE B == {b \in T : c[b].number = n}
           G == {f \in F : f[2] = n}
<1>0. Cardinality({}) = 0 /\ \A x : Cardinality({x}) = 1
  BY FS_EmptySet, FS_Singleton
<1>1. ASSUME NEW b \in T, c[b].number = n PROVE B = {b} /\ G = {}
  BY <1>1 DEF Once
<1>2. ASSUME NEW f \in F, f[2] = n PROVE B = {} /\ G = {f}
  BY <1>2 DEF Once
<1>3. (\E b \in T : c[b].number = n) \/ (\E f \in F : f[2] = n)
  BY DEF Once
<1> HIDE DEF B, G
<1>4. Cardinality(B) + Cardinality(G) = 1
  <2>1. (Cardinality(B) = 1 /\ Cardinality(G) = 0) \/ (Cardinality(B) = 0 /\ Cardinality(G) = 1)
    BY <1>0, <1>1, <1>2, <1>3, Zenon
  <2>. QED BY <2>1
<1>. QED BY <1>4 DEF B, G

-----------------------------------------------------------------------------
\* Where a packet can be while nobody has consumed it.
LEMMA OnTheWay ==
  /\ Travelling \subseteq Buffers
  /\ \A b \in Buffers : b \in Travelling <=>
                         \/ b \in Contents(m_default)
                         \/ \E e \in Entries : b \in Contents(entry[e].queue)
                         \/ b = reader.buf /\ reader.pc \in Carrying
  /\ \A b \in Buffers : b \in Travelling' <=>
                         \/ b \in Contents(m_default')
                         \/ \E e \in Entries : b \in Contents(entry'[e].queue)
                         \/ b = reader'.buf /\ reader'.pc \in Carrying
BY DEF Travelling, Carrying, Contents

\* A buffer in m_free or in a client's DataHandle has no packet on its way.
LEMMA GivenUp ==
  ASSUME OnePlace', NEW b \in Buffers, b \in m_free' \/ \E c \in Clients : b = client'[c].handle
  PROVE  b \notin Travelling'
<1>1. PICK p \in Places : In(b, p)' /\ \A q \in Places : In(b, q)' => q = p
  BY DEF OnePlace
<1>2. p = FreeList \/ \E c \in Clients : p = Client(c)
  BY <1>1, HeldNext, PlaceNames
<1>3. b \notin Contents(m_default') /\ b # reader'.buf
  BY <1>1, <1>2, HeldNext, PlaceNames, PlacesApart
<1>4. \A e \in Entries : b \notin Contents(entry'[e].queue)
  BY <1>1, <1>2, HeldNext, PlaceNames, PlacesApart
<1>. QED BY <1>3, <1>4, OnTheWay

PInv == Once(Travelling, content, fate, arrived)

\* Every packet the devices delivered is in one buffer on its way or has been
\* consumed, never both and never twice (DoRead, SocketRead, DefaultRead and
\* UnregisterInterest of router.cc).
THEOREM EveryPacketOnceAlways == Spec => []EveryPacketOnce
<1>1. Init => PInv
  <2> SUFFICES ASSUME Init PROVE PInv
    OBVIOUS
  <2>1. Travelling = {} /\ fate = {} /\ arrived = 0
    BY EmptyQueue, OnTheWay DEF Init, Carrying
  <2>. QED BY <2>1 DEF PInv, Once
<1>2. CInv /\ CInv' /\ BInv /\ BInv' /\ PInv /\ [Next]_vars => PInv'
  <2> SUFFICES ASSUME CInv, CInv', BInv, BInv', PInv, [Next]_vars PROVE PInv'
    OBVIOUS
  <2> USE NoneApart
  <2>0. TypeOK /\ Control /\ Filled /\ OnePlace /\ OnePlace' /\ RightQueue
    BY DEF CInv, BInv
  <2>a. \A e \in Entries : entry[e] \in EntryRecord /\ entry[e].queue \in Seq(Buffers)
    BY <2>0 DEF TypeOK, EntryRecord
  \* Steps after which the same packets are on their way.
  <2>1. ASSUME \A b \in Buffers : b \in Travelling' <=> b \in Travelling,
               UNCHANGED <<content, arrived, fate>>
        PROVE  PInv'
    <3>1. Travelling' = Travelling
      BY <2>1, OnTheWay DEF Travelling
    <3>. QED BY <2>1, <3>1 DEF PInv
  <2>2. ASSUME UNCHANGED <<m_default, content, arrived, fate>>,
               \A e \in Entries : entry'[e].queue = entry[e].queue,
               \/ reader'.pc \in Carrying /\ reader.pc \in Carrying /\ reader'.buf = reader.buf
               \/ reader'.pc \notin Carrying /\ reader.pc \notin Carrying
        PROVE  PInv'
    BY <2>1, <2>2, OnTheWay
  \* Steps that consume the packets in S.
  <2>3. ASSUME NEW S, S \subseteq Travelling, NEW how, fate' = fate \cup Consumed(how, S),
               UNCHANGED <<content, arrived>>,
               \A b \in Buffers : b \in Travelling' <=> b \in Travelling /\ b \notin S
        PROVE  PInv'
    <3>1. Travelling' = Travelling \ S
      BY <2>3, OnTheWay DEF Travelling
    <3>2. Once(Travelling \ S, content, fate \cup Taken(how, content, S), arrived)
      BY <2>3, OnceTaken DEF PInv
    <3>3. Consumed(how, S) = Taken(how, content, S)
      BY DEF Consumed, Taken
    <3>. QED BY <2>3, <3>1, <3>2, <3>3 DEF PInv
  \* The read thread.
  <2>4. CASE \/ stop_reading \/ DoRead_sleeps \/ DoRead_begins \/ BulkRead_nothing \/ signal
             \/ route_to_handler \/ route_to_default
    <3>1. UNCHANGED <<m_default, entry, content, arrived, fate>>
      BY <2>4 DEF stop_reading, DoRead_sleeps, DoRead_begins, BulkRead_nothing, signal, route_to_handler,
         route_to_default, routerVars, worldVars
    <3>2. \/ reader'.pc \in Carrying /\ reader.pc \in Carrying /\ reader'.buf = reader.buf
          \/ reader'.pc \notin Carrying /\ reader.pc \notin Carrying
      BY <2>0, <2>4 DEF TypeOK, ReaderRecord, Carrying, stop_reading, DoRead_sleeps, DoRead_begins, BulkRead_nothing,
         signal, route_to_handler, route_to_default, At, Goto, ReturnReadBuffer, WithoutBuffer
    <3>. QED BY <2>2, <3>1, <3>2
  <2>5. ASSUME NEW s \in Sockets, BulkRead(s)
        PROVE  PInv'
    <3>1. /\ reader.pc = "reading" /\ reader'.pc = "routing" /\ reader'.buf = reader.buf /\ reader.buf \in Buffers
          /\ content' = [content EXCEPT ![reader.buf] = [socket |-> s, number |-> arrived + 1]]
          /\ arrived' = arrived + 1 /\ arrived \in Nat
          /\ UNCHANGED <<m_default, entry, fate>>
      BY <2>0, <2>5, PacketsAssumption DEF TypeOK, ReaderRecord, Control, Holding, BulkRead, At, Goto, routerVars
    <3> PICK b \in Buffers : b = reader.buf
      BY <3>1
    <3>2. /\ content'[b].number = arrived + 1
          /\ \A x \in Buffers : x # b => content'[x] = content[x]
      BY <2>0, <3>1 DEF TypeOK
    <3>3. In(b, Reader) /\ ~In(b, Default) /\ \A e \in Entries : ~In(b, Entry(e))
      BY <2>0, Held, PlaceNames, PlacesApart DEF OnePlace
    <3>4. b \notin Travelling
      BY <3>1, <3>3, Held, OnTheWay DEF Carrying
    <3>5. Travelling' = Travelling \cup {b}
      <4>1. \A x \in Buffers : x \in Travelling' <=> x \in Travelling \/ x = b
        BY <3>1, OnTheWay DEF Carrying
      <4>. QED BY <4>1, OnTheWay DEF Travelling
    <3> PICK T : T = Travelling
      OBVIOUS
    <3> PICK d : d = content'
      OBVIOUS
    <3>6. T \subseteq Buffers /\ b \notin T /\ d[b].number = arrived + 1
          /\ \A x \in T : d[x] = content[x]
      BY <3>2, <3>4, OnTheWay
    <3>7. Once(T, content, fate, arrived)
      BY DEF PInv
    <3>8. Once(T \cup {b}, d, fate, arrived + 1)
      <4>1. arrived \in Nat /\ b \notin T /\ d[b].number = arrived + 1 /\ \A x \in T : d[x] = content[x]
        BY <3>1, <3>6
      <4>. QED BY <3>7, <4>1, OnceArrived
    <3>. QED BY <3>1, <3>5, <3>8 DEF PInv
  <2>6. CASE route_to_queue
    <3>0. /\ reader.pc = "routing" /\ reader.buf \in Buffers /\ Found \in Entries
          /\ reader'.pc = "signalling"
          /\ entry' = [entry EXCEPT ![Found].queue = Append(@, reader.buf)]
          /\ UNCHANGED <<m_default, content, arrived, fate>>
      BY <2>0, <2>6 DEF TypeOK, ReaderRecord, Control, Holding, route_to_queue, At, Found, Filled, Travelling, Packets,
         WithoutBuffer, routerVars, worldVars
    <3> PICK e \in Entries : e = Found
      BY <3>0
    <3> PICK q \in Seq(Buffers) : q = entry[e].queue
      BY <2>a
    <3>1. /\ entry'[e].queue = Append(q, reader.buf)
          /\ \A x \in Entries : x # e => entry'[x] = entry[x]
      BY <2>0, <2>a, <3>0 DEF TypeOK, EntryRecord
    <3>2. Contents(entry'[e].queue) = Contents(q) \cup {reader.buf}
      BY <3>0, <3>1, PushBuffer
    <3>3. \A b \in Buffers : b \in Travelling' <=> b \in Travelling
      BY <3>0, <3>1, <3>2, OnTheWay DEF Carrying
    <3>. QED BY <2>1, <3>0, <3>3
  <2>7. CASE push_default
    <3>1. /\ reader.pc = "defaulting" /\ reader.buf \in Buffers /\ reader'.pc = "signalling"
          /\ m_default' = Append(m_default, reader.buf) /\ m_default \in Seq(Buffers)
          /\ UNCHANGED <<entry, content, arrived, fate>>
      BY <2>0, <2>7 DEF TypeOK, ReaderRecord, Control, Holding, push_default, At, WithoutBuffer, routerVars, worldVars
    <3>2. Contents(m_default') = Contents(m_default) \cup {reader.buf}
      BY <3>1, PushBuffer
    <3>3. \A b \in Buffers : b \in Travelling' <=> b \in Travelling
      BY <3>1, <3>2, OnTheWay DEF Carrying
    <3>. QED BY <2>1, <3>1, <3>3
  <2>8. CASE call_handler
    <3>1. /\ reader.pc = "handling" /\ reader.buf \in Buffers /\ reader'.pc = "signalling"
          /\ reader.buf \in m_free'
          /\ fate' = fate \cup Consumed("handled", {reader.buf})
          /\ UNCHANGED <<m_default, entry, content, arrived>>
      BY <2>0, <2>8 DEF TypeOK, ReaderRecord, Control, Holding, call_handler, At, ReturnReadBuffer, WithoutBuffer,
         routerVars, worldVars
    <3> PICK b \in Buffers : b = reader.buf
      BY <3>1
    <3>2. b \in Travelling /\ b \notin Travelling'
      BY <2>0, <3>1, GivenUp, OnTheWay DEF Carrying
    <3>3. \A x \in Buffers : x \in Travelling' <=> x \in Travelling /\ x \notin {b}
      BY <3>1, <3>2, OnTheWay DEF Carrying
    <3>. QED BY <2>3, <3>1, <3>2, <3>3
  \* The clients.
  <2>9. ASSUME NEW c \in Clients, NEW s \in Sockets, NEW h \in BOOLEAN, RegisterInterest(c, s, h)
        PROVE  PInv'
    <3> PICK e \in Entries \ InUse :
             entry' = [entry EXCEPT ![e] = [handler |-> h, queue |-> <<>>, since |-> arrived]]
      BY <2>9 DEF RegisterInterest
    <3>1. UNCHANGED <<m_default, reader, content, arrived, fate>>
      BY <2>9 DEF RegisterInterest, worldVars
    <3>2. Contents(entry[e].queue) = {}
      <4>1. \A b \in Contents(entry[e].queue) :
               content[b].socket \in Sockets /\ m_socketQueues[content[b].socket] = e
        BY <2>0, <2>a, QueueBuffers DEF RightQueue, Filled, Travelling, Packets
      <4>. QED BY <4>1 DEF InUse
    <3>3. /\ Contents(entry'[e].queue) = {}
          /\ \A x \in Entries : x # e => entry'[x] = entry[x]
      BY <2>0, EmptyQueue DEF TypeOK
    <3>4. \A b \in Buffers : b \in Travelling' <=> b \in Travelling
      BY <3>1, <3>2, <3>3, OnTheWay
    <3>. QED BY <2>1, <3>1, <3>4
  <2>10. ASSUME NEW c \in Clients, NEW s \in Sockets, UnregisterInterest(c, s)
         PROVE  PInv'
    <3>0. m_socketQueues[s] \in Entries
      BY <2>0, <2>10 DEF TypeOK, UnregisterInterest, Unmap
    <3> PICK e \in Entries : e = m_socketQueues[s]
      BY <3>0
    <3> PICK S : S = Contents(entry[e].queue)
      OBVIOUS
    <3>1. /\ m_free' = m_free \cup S
          /\ entry' = [entry EXCEPT ![e].queue = <<>>]
          /\ fate' = fate \cup Consumed("dropped", S)
          /\ UNCHANGED <<m_default, reader, content, arrived>>
      BY <2>10 DEF UnregisterInterest, Unmap, Salvage, worldVars
    <3>2. /\ Contents(entry'[e].queue) = {}
          /\ \A x \in Entries : x # e => entry'[x] = entry[x]
      BY <2>0, <2>a, <3>1, EmptyQueue DEF TypeOK, EntryRecord
    <3>3. S \subseteq Buffers /\ S \subseteq Travelling
      BY <2>a, QueueBuffers, OnTheWay
    <3>4. \A b \in Buffers : b \in S => b \notin Travelling'
      BY <2>0, <3>1, GivenUp
    <3>5. \A b \in Buffers : b \in Travelling' <=> b \in Travelling /\ b \notin S
      BY <3>1, <3>2, <3>4, OnTheWay
    <3>. QED BY <2>3, <3>1, <3>3, <3>5
  <2>11. ASSUME NEW c \in Clients, wait_pop(c)
         PROVE  PInv'
    <3>0. client[c].qep \in Entries
      BY <2>0, <2>11 DEF Control, wait_pop
    <3> PICK e \in Entries : e = client[c].qep
      BY <3>0
    <3> PICK q \in Seq(Buffers) : q = entry[e].queue
      BY <2>a
    <3>1. UNCHANGED <<m_default, reader, content, arrived>>
      BY <2>11 DEF wait_pop, worldVars
    <3>2. CASE q = <<>>
      <4>1. UNCHANGED <<entry, fate>>
        BY <2>11, <3>2 DEF wait_pop
      <4>. QED BY <2>1, <3>1, <4>1, OnTheWay
    <3>3. CASE q # <<>>
      <4>1. /\ client' = [client EXCEPT ![c].pc = "resetting", ![c].handle = Head(q)]
            /\ entry' = [entry EXCEPT ![e].queue = Tail(q)]
            /\ fate' = fate \cup Consumed("read", {Head(q)})
        BY <2>11, <3>3 DEF wait_pop
      <4>2. Head(q) \in Buffers /\ Contents(q) = Contents(Tail(q)) \cup {Head(q)}
        BY <3>3, PopBuffer
      <4>3. client'[c].handle = Head(q)
        BY <2>0, <4>1 DEF TypeOK, ClientRecord
      <4> PICK b \in Buffers : b = Head(q)
        BY <4>2
      <4>4. b \in Travelling /\ b \notin Travelling'
        BY <2>0, <4>2, <4>3, GivenUp, OnTheWay
      <4>5. /\ entry'[e].queue = Tail(q)
            /\ \A x \in Entries : x # e => entry'[x] = entry[x]
        BY <2>0, <2>a, <4>1 DEF TypeOK, EntryRecord
      <4>6. \A x \in Buffers : x \in Travelling' <=> x \in Travelling /\ x \notin {b}
        BY <3>1, <4>2, <4>4, <4>5, OnTheWay
      <4>. QED BY <2>3, <3>1, <4>1, <4>4, <4>6
    <3>. QED BY <3>2, <3>3
  <2>12. ASSUME NEW c \in Clients, DefaultRead(c)
         PROVE  PInv'
    <3>1. /\ m_default \in Seq(Buffers) /\ m_default # <<>> /\ m_default' = Tail(m_default)
          /\ client'[c].handle = Head(m_default)
          /\ fate' = fate \cup Consumed("read", {Head(m_default)})
          /\ UNCHANGED <<entry, reader, content, arrived>>
      BY <2>0, <2>12 DEF TypeOK, ClientRecord, DefaultRead, worldVars
    <3>2. Head(m_default) \in Buffers /\ Contents(m_default) = Contents(m_default') \cup {Head(m_default)}
      BY <3>1, PopBuffer
    <3> PICK b \in Buffers : b = Head(m_default)
      BY <3>2
    <3>3. b \in Travelling /\ b \notin Travelling'
      BY <2>0, <3>1, <3>2, GivenUp, OnTheWay
    <3>4. \A x \in Buffers : x \in Travelling' <=> x \in Travelling /\ x \notin {b}
      BY <3>1, <3>2, <3>3, OnTheWay
    <3>. QED BY <2>3, <3>1, <3>3, <3>4
  <2>13. ASSUME NEW c \in Clients,
                \/ \E s \in Sockets : SocketRead(c, s)
                \/ \E d \in Devices : SetUsbDevice(c, d)
                \/ \E n \in 1..Cardinality(Buffers) : AllocateBuffers(c, n)
                \/ ReturnBuffer(c) \/ ClearUsbDevice(c) \/ qep_reset(c) \/ readwait(c) \/ close_device(c)
                \/ spurious_wakeup(c)
         PROVE  PInv'
    <3>1. UNCHANGED <<m_default, entry, content, arrived, fate, reader>>
      BY <2>13 DEF SocketRead, SetUsbDevice, AllocateBuffers, ReturnBuffer, ClearUsbDevice, BeginClear, qep_reset,
         readwait, close_device, spurious_wakeup, routerVars, worldVars
    <3>. QED BY <2>1, <3>1, OnTheWay
  <2>14. ASSUME NEW c \in Clients, SpinoffSimpleReadThread(c)
         PROVE  PInv'
    <3>1. /\ UNCHANGED <<m_default, entry, content, arrived, fate>>
          /\ reader.pc = "off" /\ reader'.pc = "idle"
      BY <2>0, <2>14 DEF TypeOK, ReaderRecord, Control, Free, SpinoffSimpleReadThread, Goto, worldVars
    <3>. QED BY <2>2, <3>1 DEF Carrying
  <2>15. CASE destroy \/ join \/ UNCHANGED vars
    <3>1. UNCHANGED <<m_default, entry, content, arrived, fate, reader>>
      BY <2>15 DEF destroy, Destroy, join, vars, routerVars, worldVars
    <3>. QED BY <2>1, <3>1, OnTheWay
  <2>16. CASE DoRead
    BY <2>4, <2>5, <2>6, <2>7, <2>8, <2>16 DEF DoRead
  <2>17. ASSUME NEW c \in Clients, Call(c) PROVE PInv'
    BY <2>9, <2>10, <2>12, <2>13, <2>14, <2>17 DEF Call
  <2>18. ASSUME NEW c \in Clients, Continue(c) \/ spurious_wakeup(c) PROVE PInv'
    BY <2>11, <2>13, <2>18 DEF Continue
  <2>. QED BY <2>15, <2>16, <2>17, <2>18 DEF Next, finished
<1>3. PInv => EveryPacketOnce
  BY OnceCounted DEF PInv, EveryPacketOnce
<1>. QED BY <1>1, <1>2, <1>3, ControlAlways, BuffersAlways, PTL DEF Spec
=============================================================================
