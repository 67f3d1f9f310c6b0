----------------------------- MODULE RoutingQueue -----------------------------
(***************************************************************************)
(* SocketRoutingQueue of src/linberrylibs/src/router.cc: one read thread   *)
(* takes packets from the USB device and routes them by socket number to   *)
(* the queues that client threads read from.                               *)
(*                                                                         *)
(* Every critical section of m_mutex is one step: nothing blocks inside    *)
(* one.  The DataQueue objects inside the router are atomic sequences      *)
(* here, which DataQueue_proof justifies.  Which free buffer is reused     *)
(* makes no difference, so m_free is a set.                                *)
(*                                                                         *)
(* An operator introduced as a "variant" is the definition after it with a *)
(* slip; the runs must tell the two apart.                                 *)
(***************************************************************************)
EXTENDS Sequences, FiniteSets, Naturals

CONSTANTS
  Clients,          \* the threads that use the router
  Sockets,          \* socket numbers seen in packets
  Buffers,          \* bound: the Data objects there can be
  Entries,          \* the QueueEntry objects, by address
  Devices,          \* bound: the Usb::Device objects, made one after the other
  MaxPackets,       \* bound: packets the devices deliver
  Prealloc,         \* prealloc_buffer_count of the constructor
  SpuriousWakeups,  \* TRUE when pthread_cond_wait may return for no reason
  None              \* no buffer, entry or device

ASSUME BuffersAssumption == IsFiniteSet(Buffers) /\ Prealloc \in 0..Cardinality(Buffers)
ASSUME NoneAssumption == None \notin Buffers \cup Entries \cup Devices
ASSUME PacketsAssumption == MaxPackets \in Nat
ASSUME SpuriousAssumption == SpuriousWakeups \in BOOLEAN

VARIABLES
  m_dev,                \* the device to read from, or None
  m_interest,           \* whether DoRead looks into the map at all
  m_socketQueues,       \* the entry registered for a socket, or None
  m_continue_reading,   \* the read thread's permission to go on
  alive,                \* "alive", "joining" inside the destructor, or "gone"
  m_free, m_default,    \* the idle buffers; the queue of unregistered sockets
  entry,                \* QueueEntry: m_handler (is there one), m_queue and,
                        \* as history, the packets delivered before it was made
  reader,               \* the read thread: pc and DoRead's dev, buf and qi
  client,               \* each client: pc, SocketRead's qep, its DataHandle
  unmade,               \* buffers not allocated yet
  content,              \* the packet in a buffer: its socket and its number
  arrived,              \* how many packets the devices have delivered
  device,               \* "unmade", "open" or "closed"
  fate                  \* history: <<how, n>> when packet n was consumed

routerVars == <<m_dev, m_interest, m_socketQueues, m_continue_reading, alive>>
worldVars == <<unmade, content, arrived, device>>
vars == <<routerVars, m_free, m_default, entry, reader, client, worldVars, fate>>

Packets == [socket : Sockets, number : 1..MaxPackets]
NoPacket == [socket |-> None, number |-> 0]

Contents(q) == {q[i] : i \in 1..Len(q)}
InUse == {m_socketQueues[s] : s \in Sockets} \cup {client[c].qep : c \in Clients} \cup {reader.qi}
Consumed(how, bs) == {<<how, content[b].number>> : b \in bs}

Init ==
  /\ m_dev = None
  /\ m_interest = FALSE
  /\ m_socketQueues = [s \in Sockets |-> None]
  /\ m_continue_reading = FALSE
  /\ alive = "alive"
  /\ m_free \in {bs \in SUBSET Buffers : Cardinality(bs) = Prealloc}
  /\ m_default = <<>>
  /\ entry = [e \in Entries |-> [handler |-> FALSE, queue |-> <<>>, since |-> 0]]
  /\ reader = [pc |-> "off", dev |-> None, buf |-> None, qi |-> None]
  /\ client = [c \in Clients |-> [pc |-> "idle", qep |-> None, handle |-> None]]
  /\ unmade = Buffers \ m_free
  /\ content = [b \in Buffers |-> NoPacket]
  /\ arrived = 0
  /\ device = [d \in Devices |-> "unmade"]
  /\ fate = {}

-----------------------------------------------------------------------------
(***************************************************************************)
(* The read thread: one DoRead after the other while m_continue_reading.   *)
(***************************************************************************)
At(label) == reader.pc = label
Goto(label) == reader' = [reader EXCEPT !.pc = label]

\* The loop of SimpleReadThread: out of it, or into a DoRead that finds no
\* device and sleeps a little.
stop_reading ==
  /\ At("idle") /\ ~m_continue_reading
  /\ Goto("off")
  /\ UNCHANGED <<routerVars, m_free, m_default, entry, client, worldVars, fate>>

DoRead_sleeps ==
  /\ At("idle") /\ m_continue_reading
  /\ m_dev = None
  /\ Goto("sleeping")
  /\ UNCHANGED <<routerVars, m_free, m_default, entry, client, worldVars, fate>>

\* Under m_mutex: remember the device and fetch a buffer, a new one when
\* m_free is empty.
DoRead_begins ==
  /\ At("idle") /\ m_continue_reading
  /\ m_dev # None
  /\ \E b \in IF m_free # {} THEN m_free ELSE unmade :
       /\ reader' = [reader EXCEPT !.pc = "reading", !.dev = m_dev, !.buf = b]
       /\ m_free' = m_free \ {b}
       /\ unmade' = unmade \ {b}
  /\ UNCHANGED <<routerVars, m_default, entry, client, content, arrived, device, fate>>

\* The end of a cycle: the buffer gone to a queue, or given back by ~DataHandle.
WithoutBuffer == reader' = [reader EXCEPT !.pc = "signalling", !.buf = None, !.qi = None]
ReturnReadBuffer == WithoutBuffer /\ m_free' = m_free \cup {reader.buf}

\* BulkRead without a usable packet: nothing there, timeout, error, too short.
BulkRead_nothing ==
  /\ At("reading")
  /\ ReturnReadBuffer
  /\ UNCHANGED <<routerVars, m_default, entry, client, worldVars, fate>>

\* BulkRead with a packet for socket s.
BulkRead(s) ==
  /\ At("reading")
  /\ arrived < MaxPackets
  /\ arrived' = arrived + 1
  /\ content' = [content EXCEPT ![reader.buf] = [socket |-> s, number |-> arrived + 1]]
  /\ Goto("routing")
  /\ UNCHANGED <<routerVars, m_free, m_default, entry, client, unmade, device, fate>>

\* Under m_mutex: the entry of the packet's socket, if anybody is interested.
Found == IF m_interest THEN m_socketQueues[content[reader.buf].socket] ELSE None

\* Variant: buf.get() for buf.release(), so that ~DataHandle returns it too.
route_to_queue_keeps ==
  /\ At("routing")
  /\ Found # None /\ ~entry[Found].handler
  /\ entry' = [entry EXCEPT ![Found].queue = Append(@, reader.buf)]
  /\ ReturnReadBuffer
  /\ UNCHANGED <<routerVars, m_default, client, worldVars, fate>>

route_to_queue ==
  /\ At("routing")
  /\ Found # None /\ ~entry[Found].handler
  /\ entry' = [entry EXCEPT ![Found].queue = Append(@, reader.buf)]
  /\ WithoutBuffer
  /\ UNCHANGED <<routerVars, m_free, m_default, client, worldVars, fate>>

route_to_handler ==
  /\ At("routing")
  /\ Found # None /\ entry[Found].handler
  /\ reader' = [reader EXCEPT !.pc = "handling", !.qi = Found]
  /\ UNCHANGED <<routerVars, m_free, m_default, entry, client, worldVars, fate>>

\* Variant: no return after the handler, the packet goes on to m_default.
call_handler_falls_through ==
  /\ At("handling")
  /\ fate' = fate \cup Consumed("handled", {reader.buf})
  /\ Goto("defaulting")
  /\ UNCHANGED <<routerVars, m_free, m_default, entry, client, worldVars>>

\* The handler runs with m_mutex released and leaves the buffer to DoRead.
call_handler ==
  /\ At("handling")
  /\ fate' = fate \cup Consumed("handled", {reader.buf})
  /\ ReturnReadBuffer
  /\ UNCHANGED <<routerVars, m_default, entry, client, worldVars>>

\* m_mutex is released before the push to m_default.
route_to_default ==
  /\ At("routing")
  /\ Found = None
  /\ Goto("defaulting")
  /\ UNCHANGED <<routerVars, m_free, m_default, entry, client, worldVars, fate>>

push_default ==
  /\ At("defaulting")
  /\ m_default' = Append(m_default, reader.buf)
  /\ WithoutBuffer
  /\ UNCHANGED <<routerVars, m_free, entry, client, worldVars, fate>>

\* ~ReadWaitSignal, the last thing a cycle does, wakes one thread inside
\* ClearUsbDevice if one is waiting.
WakeOne ==
  LET waiting == {c \in Clients : client[c].pc = "waiting"}
  IN  IF waiting = {} THEN UNCHANGED client
      ELSE \E c \in waiting : client' = [client EXCEPT ![c].pc = "cleared"]

\* Variant: the early return for "no device" comes before ReadWaitSignal.
signal_only_after_reading ==
  /\ reader.pc \in {"signalling", "sleeping"}
  /\ IF At("sleeping") THEN UNCHANGED client ELSE WakeOne
  /\ reader' = [reader EXCEPT !.pc = "idle", !.dev = None]
  /\ UNCHANGED <<routerVars, m_free, m_default, entry, worldVars, fate>>

signal ==
  /\ reader.pc \in {"signalling", "sleeping"}
  /\ WakeOne
  /\ reader' = [reader EXCEPT !.pc = "idle", !.dev = None]
  /\ UNCHANGED <<routerVars, m_free, m_default, entry, worldVars, fate>>

DoRead ==
  \/ stop_reading \/ DoRead_sleeps \/ DoRead_begins \/ BulkRead_nothing
  \/ \E s \in Sockets : BulkRead(s)
  \/ route_to_queue \/ route_to_handler \/ call_handler \/ route_to_default
  \/ push_default \/ signal

-----------------------------------------------------------------------------
(***************************************************************************)
(* The clients.  A client is inside one member function at a time and      *)
(* holds at most one DataHandle.                                           *)
(***************************************************************************)
Free(c) == alive = "alive" /\ client[c].pc = "idle"

\* Throws when the socket is registered already, otherwise makes a QueueEntry.
RegisterInterest(c, s, handler) ==
  /\ Free(c)
  /\ m_socketQueues[s] = None
  /\ \E e \in Entries \ InUse :
       /\ m_socketQueues' = [m_socketQueues EXCEPT ![s] = e]
       /\ entry' = [entry EXCEPT ![e] =
                      [handler |-> handler, queue |-> <<>>, since |-> arrived]]
  /\ m_interest' = TRUE
  /\ UNCHANGED <<m_dev, m_continue_reading, alive, m_free, m_default, reader, client,
                 worldVars, fate>>

\* Taking s out of the map and leaving m_interest as given.
Unmap(c, s, interest) ==
  /\ Free(c)
  /\ m_socketQueues[s] # None
  /\ m_socketQueues' = [m_socketQueues EXCEPT ![s] = None]
  /\ m_interest' = interest
  /\ UNCHANGED <<m_dev, m_continue_reading, alive, reader, client, worldVars>>

OthersRegistered(s) == \E r \in Sockets \ {s} : m_socketQueues[r] # None

\* m_free.append_from(the entry's queue): the packets in it are discarded.
Salvage(e) ==
  /\ m_free' = m_free \cup Contents(entry[e].queue)
  /\ entry' = [entry EXCEPT ![e].queue = <<>>]
  /\ fate' = fate \cup Consumed("dropped", Contents(entry[e].queue))
  /\ UNCHANGED m_default

\* Variants: nothing salvaged; m_interest simply cleared; the data moved to
\* m_default for whoever reads that.
UnregisterInterest_no_salvage(c, s) ==
  Unmap(c, s, OthersRegistered(s)) /\ UNCHANGED <<m_free, m_default, entry, fate>>
UnregisterInterest_clears_flag(c, s) ==
  Unmap(c, s, FALSE) /\ Salvage(m_socketQueues[s])
UnregisterInterest_to_default(c, s) ==
  /\ Unmap(c, s, OthersRegistered(s))
  /\ m_default' = m_default \o entry[m_socketQueues[s]].queue
  /\ entry' = [entry EXCEPT ![m_socketQueues[s]].queue = <<>>]
  /\ UNCHANGED <<m_free, fate>>

UnregisterInterest(c, s) ==
  Unmap(c, s, OthersRegistered(s)) /\ Salvage(m_socketQueues[s])

\* SocketRead: take a share of the entry under m_mutex (an unregistered socket
\* throws), wait on its queue, give the share back under m_mutex.
SocketRead(c, s) ==
  /\ Free(c)
  /\ client[c].handle = None
  /\ m_socketQueues[s] # None
  /\ client' = [client EXCEPT ![c].pc = "popping", ![c].qep = m_socketQueues[s]]
  /\ UNCHANGED <<routerVars, m_free, m_default, entry, reader, worldVars, fate>>

\* Something is there, or the timeout comes first.
wait_pop(c) ==
  /\ client[c].pc = "popping"
  /\ LET e == client[c].qep
         q == entry[e].queue
     IN  \/ /\ q # <<>>
            /\ client' = [client EXCEPT ![c].pc = "resetting", ![c].handle = Head(q)]
            /\ entry' = [entry EXCEPT ![e].queue = Tail(q)]
            /\ fate' = fate \cup Consumed("read", {Head(q)})
         \/ /\ q = <<>>
            /\ client' = [client EXCEPT ![c].pc = "resetting"]
            /\ UNCHANGED <<entry, fate>>
  /\ UNCHANGED <<routerVars, m_free, m_default, reader, worldVars>>

qep_reset(c) ==
  /\ client[c].pc = "resetting"
  /\ client' = [client EXCEPT ![c].pc = "idle", ![c].qep = None]
  /\ UNCHANGED <<routerVars, m_free, m_default, entry, reader, worldVars, fate>>

\* DefaultRead that finds something; a timeout changes nothing.
DefaultRead(c) ==
  /\ Free(c)
  /\ client[c].handle = None
  /\ m_default # <<>>
  /\ client' = [client EXCEPT ![c].handle = Head(m_default)]
  /\ m_default' = Tail(m_default)
  /\ fate' = fate \cup Consumed("read", {Head(m_default)})
  /\ UNCHANGED <<routerVars, m_free, entry, reader, worldVars>>

\* Variant: clear() without its test for an empty handle.
ReturnBuffer_unchecked(c) ==
  /\ Free(c)
  /\ m_free' = m_free \cup {client[c].handle}
  /\ client' = [client EXCEPT ![c].handle = None]
  /\ UNCHANGED <<routerVars, m_default, entry, reader, worldVars, fate>>

\* ~DataHandle at the client.
ReturnBuffer(c) ==
  /\ Free(c)
  /\ client[c].handle # None
  /\ m_free' = m_free \cup {client[c].handle}
  /\ client' = [client EXCEPT ![c].handle = None]
  /\ UNCHANGED <<routerVars, m_default, entry, reader, worldVars, fate>>

\* Grows m_free to count buffers, if there are fewer.
AllocateBuffers(c, count) ==
  /\ Free(c)
  /\ \E new \in SUBSET unmade :
       /\ Cardinality(m_free) + Cardinality(new) = count
       /\ m_free' = m_free \cup new
       /\ unmade' = unmade \ new
  /\ UNCHANGED <<routerVars, m_default, entry, reader, client, content, arrived, device, fate>>

\* A Controller is made on a new device, when no other Controller is left.
SetUsbDevice(c, d) ==
  /\ Free(c)
  /\ device[d] = "unmade" /\ \A x \in Devices : device[x] # "open"
  /\ m_dev' = d
  /\ device' = [device EXCEPT ![d] = "open"]
  /\ UNCHANGED <<m_interest, m_socketQueues, m_continue_reading, alive, m_free, m_default,
                 entry, reader, client, unmade, content, arrived, fate>>

\* ~Controller: ClearUsbDevice first, in the part under m_mutex and the wait
\* without a condition, then the device is closed.
BeginClear(c, label) ==
  /\ Free(c)
  /\ m_dev # None
  /\ m_dev' = None
  /\ client' = [client EXCEPT ![c].pc = label]
  /\ UNCHANGED <<m_interest, m_socketQueues, m_continue_reading, alive, m_free, m_default,
                 entry, reader, worldVars, fate>>

\* Variant: ClearUsbDevice without its wait.
ClearUsbDevice_no_wait(c) == BeginClear(c, "cleared")

ClearUsbDevice(c) == BeginClear(c, "clearing")

readwait(c) ==
  /\ client[c].pc = "clearing"
  /\ client' = [client EXCEPT ![c].pc = "waiting"]
  /\ UNCHANGED <<routerVars, m_free, m_default, entry, reader, worldVars, fate>>

spurious_wakeup(c) ==
  /\ SpuriousWakeups
  /\ client[c].pc = "waiting"
  /\ client' = [client EXCEPT ![c].pc = "cleared"]
  /\ UNCHANGED <<routerVars, m_free, m_default, entry, reader, worldVars, fate>>

close_device(c) ==
  /\ client[c].pc = "cleared"
  /\ client' = [client EXCEPT ![c].pc = "idle"]
  /\ device' = [d \in Devices |-> IF device[d] = "open" THEN "closed" ELSE device[d]]
  /\ UNCHANGED <<routerVars, m_free, m_default, entry, reader, unmade, content, arrived, fate>>

SpinoffSimpleReadThread(c) ==
  /\ Free(c)
  /\ ~m_continue_reading
  /\ m_continue_reading' = TRUE
  /\ Goto("idle")
  /\ UNCHANGED <<m_dev, m_interest, m_socketQueues, alive, m_free, m_default, entry, client,
                 worldVars, fate>>

\* ~SocketRoutingQueue: the owner runs it when nobody uses the router.
Destroy(reading) ==
  /\ alive = "alive"
  /\ m_dev = None
  /\ \A c \in Clients : client[c] = [pc |-> "idle", qep |-> None, handle |-> None]
  /\ alive' = "joining"
  /\ m_continue_reading' = reading
  /\ UNCHANGED <<m_dev, m_interest, m_socketQueues, m_free, m_default, entry, reader, client,
                 worldVars, fate>>

\* Variant: a destructor that only joins.
destroy == Destroy(FALSE)

join ==
  /\ alive = "joining"
  /\ At("off")
  /\ alive' = "gone"
  /\ UNCHANGED <<m_dev, m_interest, m_socketQueues, m_continue_reading, m_free, m_default,
                 entry, reader, client, worldVars, fate>>

finished == alive = "gone" /\ UNCHANGED vars

-----------------------------------------------------------------------------
Call(c) ==
  \/ \E s \in Sockets : \/ \E h \in BOOLEAN : RegisterInterest(c, s, h)
                        \/ UnregisterInterest(c, s)
                        \/ SocketRead(c, s)
  \/ DefaultRead(c) \/ ReturnBuffer(c)
  \/ \E count \in 1..Cardinality(Buffers) : AllocateBuffers(c, count)
  \/ \E d \in Devices : SetUsbDevice(c, d)
  \/ ClearUsbDevice(c) \/ SpinoffSimpleReadThread(c)

Continue(c) == wait_pop(c) \/ qep_reset(c) \/ readwait(c) \/ close_device(c)

Next == \/ DoRead
        \/ \E c \in Clients : Call(c) \/ Continue(c) \/ spurious_wakeup(c)
        \/ destroy \/ join \/ finished

Spec == Init /\ [][Next]_vars

\* The read thread is scheduled, every BulkRead and every handler returns, and
\* a client goes on with what it started.
Fairness == /\ WF_vars(DoRead)
            /\ \A c \in Clients : WF_vars(Continue(c))
            /\ WF_vars(join)

FairSpec == Spec /\ Fairness

-----------------------------------------------------------------------------
EntryRecord == [handler : BOOLEAN, queue : Seq(Buffers), since : 0..MaxPackets]
ReaderRecord == [pc : {"off", "idle", "sleeping", "reading", "routing", "handling", "defaulting",
                       "signalling"},
                 dev : Devices \cup {None}, buf : Buffers \cup {None}, qi : Entries \cup {None}]
ClientRecord == [pc : {"idle", "popping", "resetting", "clearing", "waiting", "cleared"},
                 qep : Entries \cup {None}, handle : Buffers \cup {None}]
Fates == {"read", "handled", "dropped"} \X (1..MaxPackets)

TypeOK ==
  /\ m_dev \in Devices \cup {None}
  /\ m_interest \in BOOLEAN
  /\ m_socketQueues \in [Sockets -> Entries \cup {None}]
  /\ m_continue_reading \in BOOLEAN
  /\ alive \in {"alive", "joining", "gone"}
  /\ m_free \subseteq Buffers
  /\ m_default \in Seq(Buffers)
  /\ entry \in [Entries -> EntryRecord]
  /\ reader \in ReaderRecord
  /\ client \in [Clients -> ClientRecord]
  /\ unmade \subseteq Buffers
  /\ content \in [Buffers -> Packets \cup {NoPacket}]
  /\ arrived \in 0..MaxPackets
  /\ device \in [Devices -> {"unmade", "open", "closed"}]
  /\ fate \subseteq Fates

\* The places a buffer can be in.
Places == ({"unmade", "free", "default", "reader"} \X {None})
            \cup ({"entry"} \X Entries) \cup ({"client"} \X Clients)
In(b, p) == \/ p[1] = "unmade"  /\ b \in unmade
            \/ p[1] = "free"    /\ b \in m_free
            \/ p[1] = "default" /\ b \in Contents(m_default)
            \/ p[1] = "reader"  /\ b = reader.buf
            \/ p[1] = "entry"   /\ b \in Contents(entry[p[2]].queue)
            \/ p[1] = "client"  /\ b = client[p[2]].handle

NoRepeat(q) == \A i, j \in 1..Len(q) : q[i] = q[j] => i = j

\* Buffers go round between m_free, the read thread, the queues and the
\* DataHandles of the clients without one ever being in two places or in none
\* (ReturnBuffer, release, append_from in router.cc).
BufferInOnePlace ==
  /\ \A b \in Buffers : \E p \in Places : In(b, p) /\ \A q \in Places : In(b, q) => q = p
  /\ NoRepeat(m_default) /\ \A e \in Entries : NoRepeat(entry[e].queue)

\* Buffers whose packet nobody has consumed yet.
Travelling ==
  {b \in Buffers : \/ b \in Contents(m_default)
                   \/ \E e \in Entries : b \in Contents(entry[e].queue)
                   \/ b = reader.buf /\ reader.pc \in {"routing", "handling", "defaulting"}}

\* Every packet a device delivered is on its way in one buffer, or was consumed
\* once: by a reader, by a handler, or discarded by UnregisterInterest.
EveryPacketOnce ==
  \A n \in 1..arrived :
    Cardinality({b \in Travelling : content[b].number = n})
      + Cardinality({f \in fate : f[2] = n}) = 1

\* An entry's queue only ever holds packets of the socket the entry is still
\* registered for: after UnregisterInterest nothing can be stranded in a queue
\* no reader can reach ("discards any existing data in its interest queue").
RightQueue ==
  \A e \in Entries : \A b \in Contents(entry[e].queue) :
    m_socketQueues[content[b].socket] = e

\* A registered socket's packets are not in the default queue, except those
\* that the device delivered before the registration ("use the SocketRead()
\* function from then on").
RegisteredNotDefault ==
  \A b \in Contents(m_default) :
    LET e == m_socketQueues[content[b].socket]
    IN  e # None => content[b].number <= entry[e].since

Ascending(q) == \A i, j \in 1..Len(q) : i < j => content[q[i]].number < content[q[j]].number

\* Packets leave every queue in the order the device sent them.
ArrivalOrder == Ascending(m_default) /\ \A e \in Entries : Ascending(entry[e].queue)

\* "wait for the DoRead cycle to finish, so the external Usb::Device object
\* doesn't close before we're done with it": DoRead never reads from a device
\* that is closed already.
NoReadAfterClose == At("reading") => device[reader.dev] = "open"

\* The destructors come back. ~Controller does when a read thread is running, even
\* if the cycle it waits for had ended before it began to wait;
\* ~SocketRoutingQueue does because the read thread notices m_continue_reading.
DestructorsReturn ==
  /\ \A c \in Clients : (client[c].pc = "clearing" /\ m_continue_reading) ~> client[c].pc = "idle"
  /\ alive = "joining" ~> alive = "gone"
=============================================================================
