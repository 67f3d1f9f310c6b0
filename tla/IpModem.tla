------------------------------- MODULE IpModem -------------------------------
\* Mode::IpModem (m_ipmodem.cc): a modem on a pair of USB end points of its own.
\* Open talks the handheld into modem mode, with up to three password prompts;
\* then a thread reads what the handheld sends and gives it to a callback, while
\* the caller writes PPP data through a filter. Close says good-bye on the same
\* end points, reads an answer from under the thread, and only then stops it.
\*
\* The handheld is external. Its packets are told apart by what the code looks at:
\*   "null" (first byte 0), "request" for a password (2, with seed and tries),
\*   "verdict" on a password and "ack" (both 4), "protected" (7), and "data".
\* An object is opened once: it is made, opened (again after a failed attempt),
\* closed and destroyed, as pppob does.
EXTENDS PppFilter

CONSTANTS
  Passwords,        \* what a caller may give to Open
  RightPassword,
  NoPassword,       \* the empty string or a null pointer
  Bytes,            \* Flag and the other bytes
  Chunks,           \* what the caller may write in one call
  Prompts,          \* how many times the device may ask for the password; Open
                    \* has an answer to three requests
  MinTries,         \* LINBERRY_MIN_PASSWORD_TRIES
  MaxTries,         \* tries a device has left at first, and after the right password
  MaxOpens, MaxFaults, MaxTimeouts, MaxData   \* bounds

ASSUME IpModemAssumption ==
  /\ RightPassword # NoPassword
  /\ MinTries \in Nat \ {0} /\ MaxTries \in Nat /\ MinTries <= MaxTries
  /\ Prompts \subseteq 0..3
  /\ {MaxOpens, MaxFaults, MaxTimeouts, MaxData} \subseteq Nat
  /\ Flag \in Bytes
  /\ \A text \in Chunks : text \in Seq(Bytes) /\ text # << >>

VARIABLES
  object,           \* "alive" or "destroyed"
  call,             \* the public call in progress, or the last one, with its locals
  continue_reading, \* m_continue_reading
  reader,           \* the data thread, and the packet it holds
  filter,           \* m_filter
  wire,             \* the last Write: what it was given and what it put on the wire
  receiver,         \* what the device makes of the bytes written to it
  down, up,         \* commands and packets on their way
  device,
  sent, heard,      \* data packets sent by the device; numbers given to the callback
  lost,             \* data packets read by Open or Close
  before,           \* tries the device had when the last Open began
  late,             \* an answer came, or will come, to a call that no longer waits
  sloppy,           \* a password was sent to a request that said that too few
                    \* tries are left
  opens, faults, timeouts

usbVars  == <<down, up>>
dataVars == <<sent, heard, lost>>
pppVars  == <<filter, wire, receiver>>
history  == <<before, late, sloppy, opens, faults, timeouts>>
vars == <<object, call, continue_reading, reader, pppVars, usbVars, device, dataVars, history>>

Packet(kind, seed, n) == [kind |-> kind, seed |-> seed, n |-> n]
Null == Packet("null", 0, 0)
Ack  == Packet("ack", 0, 0)

Writing  == {"stop", "start", "hash", "restart", "key", "at", "end", "end_stop"}
Waiting  == {"stop_wait", "start_wait", "hash_wait", "null_wait", "restart_wait",
             "at_wait", "at_null_wait", "end_wait"}

Init ==
  /\ object = "alive"
  /\ call = [op |-> "none", pc |-> "idle", password |-> NoPassword, seed |-> 0,
             back |-> "idle", answer |-> Null, result |-> "returned"]
  /\ continue_reading = FALSE
  /\ reader = [pc |-> "none", hand |-> 0]
  /\ filter = NewFilter
  /\ wire = [text |-> << >>, bytes |-> << >>]
  /\ receiver = [ppp |-> FALSE, inside |-> FALSE, bare |-> FALSE]
  /\ down = << >> /\ up = << >>
  /\ device \in {[prompts |-> p, seed |-> 1, tries |-> MaxTries, online |-> FALSE] : p \in Prompts}
  /\ sent = 0 /\ heard = << >> /\ lost = {}
  /\ before = MaxTries /\ late = FALSE /\ sloppy = FALSE
  /\ opens = 0 /\ faults = 0 /\ timeouts = 0

-----------------------------------------------------------------------------
\* Leaving a call. The destructor swallows what Close throws.
Return(result) ==
  /\ call' = [call EXCEPT !.pc = "idle", !.back = "idle", !.password = NoPassword,
                          !.answer = Null, !.seed = 0, !.result = result]
  /\ object' = IF call.op = "Destroy" THEN "destroyed" ELSE object

Goto(pc) == call' = [call EXCEPT !.pc = pc] /\ UNCHANGED object

\* BulkWrite of one command.
Send(kind) == down' = Append(down, [kind |-> kind, seed |-> call.seed, right |-> call.password = RightPassword])

\* BulkRead by a call: data it takes does not reach the callback.
Receive ==
  /\ up # << >>
  /\ up' = Tail(up)
  /\ UNCHANGED <<down, continue_reading, reader, pppVars, device, sent, before, late, opens, faults, timeouts>>

Dropped == lost' = lost \cup (IF Head(up).kind = "data" THEN {Head(up).n} ELSE {}) /\ UNCHANGED heard

\* SendPassword up to its first read: without a password there is nothing to send.
SendPassword(seed, back) ==
  IF call.password = NoPassword
    THEN Return("BadPassword")
    ELSE call' = [call EXCEPT !.pc = "hash", !.seed = seed, !.back = back] /\ UNCHANGED object

Quiet == UNCHANGED <<continue_reading, reader, pppVars, up, device, dataVars>>

-----------------------------------------------------------------------------
\* Open.
Open(password) ==
  /\ object = "alive" /\ call.pc = "idle" /\ call.op \in {"none", "Open"} /\ ~continue_reading
  /\ opens < MaxOpens
  /\ opens' = opens + 1
  /\ call' = [call EXCEPT !.op = "Open", !.pc = "stop", !.password = password]
  /\ before' = device.tries
  /\ late' = (late \/ up # << >> \/ down # << >>)
  /\ UNCHANGED <<object, down, sloppy, faults, timeouts>> /\ Quiet

\* The commands that are only written, and where the call reads next. The three
\* packets that end the session are one command here.
Commands == {<<"stop", "stop", "stop_wait">>, <<"start", "start", "start_wait">>,
             <<"hash", "hash", "hash_wait">>, <<"restart", "start", "restart_wait">>,
             <<"at", "at", "at_wait">>, <<"end", "end", "end_stop">>, <<"end_stop", "stop", "end_wait">>}

SendCommand ==
  \E c \in Commands :
    /\ call.pc = c[1] /\ Send(c[2]) /\ Goto(c[3])
    /\ UNCHANGED history /\ Quiet

\* Answers that are not looked at: to stop, and the one after a null answer to AT.
ignored_response ==
  /\ Receive /\ Dropped /\ UNCHANGED sloppy
  /\ \/ call.pc = "stop_wait" /\ Goto("start")
     \/ call.pc = "at_null_wait" /\ Goto("spawn")

\* The answer to start: a first password request is obeyed if enough tries are left.
start_response_careless ==
  /\ call.pc = "start_wait" /\ Receive /\ Dropped
  /\ IF Head(up).kind = "request"
       THEN SendPassword(Head(up).seed, "restart")
       ELSE call' = [call EXCEPT !.pc = "key", !.answer = Head(up)] /\ UNCHANGED object
  /\ UNCHANGED sloppy

start_response ==
  /\ call.pc = "start_wait" /\ Receive /\ Dropped
  /\ \/ Head(up).kind = "request" /\ Head(up).n < MinTries /\ Return("BadPassword")
     \/ Head(up).kind = "request" /\ Head(up).n >= MinTries /\ SendPassword(Head(up).seed, "restart")
     \/ /\ Head(up).kind # "request"
        /\ call' = [call EXCEPT !.pc = "key", !.answer = Head(up)]
        /\ UNCHANGED object
  /\ UNCHANGED sloppy

\* The answer to a password. What an "ack" has where a verdict has its new seed
\* is not known.
CheckVerdict(packet) ==
  LET accepted == call' = [call EXCEPT !.pc = call.back, !.back = "idle"] /\ UNCHANGED object
      fits == packet.seed \in {call.seed + 1, 0}
  IN  \/ accepted /\ (packet.kind = "ack" \/ (packet.kind = "verdict" /\ fits))
      \/ Return("BadPassword") /\ (packet.kind = "ack" \/ (packet.kind = "verdict" /\ ~fits))
      \/ Return("Error") /\ packet.kind \notin {"ack", "verdict"}

password_response ==
  /\ call.pc \in {"hash_wait", "null_wait"} /\ Receive /\ Dropped
  /\ IF call.pc = "hash_wait" /\ Head(up).kind = "null" THEN Goto("null_wait") ELSE CheckVerdict(Head(up))
  /\ UNCHANGED sloppy

restart_response ==
  /\ call.pc = "restart_wait" /\ Receive /\ Dropped
  /\ call' = [call EXCEPT !.pc = "key", !.answer = Head(up)]
  /\ UNCHANGED <<object, sloppy>>

\* A password for a request that warns: the first request is heeded, those found
\* later are not.
Careless(packet) == packet.kind = "request" /\ packet.n < MinTries /\ call.password # NoPassword

\* The session key goes out before the last answer to start is looked at; a
\* password request found there is obeyed whatever its tries.
SendSessionKey ==
  /\ call.pc = "key"
  /\ Send("key")
  /\ IF call.answer.kind = "request" THEN SendPassword(call.answer.seed, "at") ELSE Goto("at")
  /\ sloppy' = (sloppy \/ Careless(call.answer))
  /\ UNCHANGED <<before, late, opens, faults, timeouts>> /\ Quiet

\* The answer to AT: nothing is kept of a second packet, and an answer that is no
\* packet of the protocol is the first thing the callback hears.
at_response ==
  /\ call.pc = "at_wait" /\ Receive
  /\ \/ Head(up).kind = "null" /\ Goto("at_null_wait")
     \/ Head(up).kind = "request" /\ SendPassword(Head(up).seed, "spawn")
     \/ Head(up).kind = "protected" /\ Return("BadPassword")
     \/ Head(up).kind \in {"ack", "verdict", "data"} /\ Goto("spawn")
  /\ sloppy' = (sloppy \/ Careless(Head(up)))
  /\ heard' = (IF Head(up).kind = "data" THEN Append(heard, Head(up).n) ELSE heard)
  /\ UNCHANGED lost

\* pthread_create, which may fail.
spawn_forgets ==
  /\ call.pc = "spawn"
  /\ \/ reader' = [reader EXCEPT !.pc = "testing"] /\ Return("returned")
     \/ UNCHANGED reader /\ Return("Error")
  /\ continue_reading' = TRUE
  /\ UNCHANGED <<pppVars, usbVars, device, dataVars, history>>

spawn ==
  /\ call.pc = "spawn"
  /\ \/ continue_reading' = TRUE /\ reader' = [reader EXCEPT !.pc = "testing"] /\ Return("returned")
     \/ UNCHANGED <<continue_reading, reader>> /\ Return("Error")
  /\ UNCHANGED <<pppVars, usbVars, device, dataVars, history>>

-----------------------------------------------------------------------------
\* Write: what the filter makes of the text, and what the device makes of that.
\* Between the flags of a frame it is inside; bytes outside a frame are bare.
Hear(r, b) ==
  CASE b = Flag -> [r EXCEPT !.ppp = TRUE, !.inside = ~@]
    [] b # Flag -> [r EXCEPT !.bare = @ \/ (r.ppp /\ ~r.inside)]

HearAll(r, bytes) ==
  LET done[n \in 0..Len(bytes)] == IF n = 0 THEN r ELSE Hear(done[n - 1], bytes[n])
  IN done[Len(bytes)]

\* PPP starts with a buffer of its own: before that the caller dials.
Dialling(text) == filter.ppp_mode \/ Head(text) = Flag \/ \A i \in DOMAIN text : text[i] # Flag

\* A BulkWrite that throws has changed the filter all the same; the caller
\* then gives up.
Write(text) ==
  /\ object = "alive" /\ call.pc = "idle" /\ call.op \in {"Open", "Write"}
  /\ call.result = "returned" /\ continue_reading
  /\ Dialling(text)
  /\ LET w == FilterWrite(filter, text)
     IN /\ filter' = w.filter
        /\ \/ /\ wire' = [text |-> text, bytes |-> w.out]
              /\ receiver' = HearAll(receiver, w.out)
              /\ call' = [call EXCEPT !.op = "Write"]
              /\ UNCHANGED faults
           \/ /\ faults < MaxFaults
              /\ faults' = faults + 1
              /\ call' = [call EXCEPT !.op = "Write", !.result = "Error"]
              /\ UNCHANGED <<wire, receiver>>
  /\ UNCHANGED <<object, continue_reading, reader, usbVars, device, dataVars,
                 before, late, sloppy, opens, timeouts>>

-----------------------------------------------------------------------------
\* Close, by the caller or by the destructor: the three packets that end the
\* session, stop, a read, and the end of the thread.
Close(op) ==
  /\ object = "alive" /\ call.pc = "idle"
  /\ op = "Close" => call.op # "none" /\ ~(call.op = "Close" /\ call.result = "returned")
  /\ call' = [call EXCEPT !.op = op, !.pc = "end"]
  /\ wire' = [text |-> << >>, bytes |-> << >>]
  /\ UNCHANGED <<object, continue_reading, reader, filter, receiver, usbVars, device, dataVars, history>>

\* m_continue_reading is tested, cleared, and the thread joined.
StopThread ==
  /\ continue_reading' = FALSE
  /\ IF continue_reading THEN Goto("join") ELSE Return("returned")

close_response ==
  /\ call.pc = "end_wait"
  /\ up # << >> /\ up' = Tail(up) /\ Dropped
  /\ StopThread
  /\ UNCHANGED <<down, reader, pppVars, device, sent, history>>

join ==
  /\ call.pc = "join" /\ reader.pc = "over"
  /\ reader' = [reader EXCEPT !.pc = "none"]
  /\ Return("returned")
  /\ UNCHANGED <<continue_reading, pppVars, usbVars, device, dataVars, history>>

-----------------------------------------------------------------------------
\* A read of a call ends without a packet: nothing will come, or not in time. Four
\* of the reads catch that.
timeout ==
  /\ call.pc \in Waiting
  /\ up = << >>
  /\ down # << >> => timeouts < MaxTimeouts
  /\ timeouts' = IF down # << >> THEN timeouts + 1 ELSE timeouts
  /\ late' = (late \/ down # << >>)
  /\ \/ call.pc = "stop_wait" /\ Goto("start") /\ UNCHANGED continue_reading
     \/ call.pc = "null_wait" /\ Return("Error") /\ UNCHANGED continue_reading
     \/ call.pc = "at_null_wait" /\ Goto("spawn") /\ UNCHANGED continue_reading
     \/ call.pc = "end_wait" /\ StopThread
     \/ /\ call.pc \notin {"stop_wait", "null_wait", "at_null_wait", "end_wait"}
        /\ Return("Timeout") /\ UNCHANGED continue_reading
  /\ UNCHANGED <<reader, pppVars, usbVars, device, dataVars, before, sloppy, opens, faults>>

\* Any other exception of a BulkWrite or BulkRead leaves the call.
usb_error ==
  /\ call.pc \in Writing \cup Waiting
  /\ faults < MaxFaults
  /\ faults' = faults + 1
  /\ Return("Error")
  /\ UNCHANGED <<usbVars, before, late, sloppy, opens, timeouts>>
  /\ UNCHANGED <<continue_reading, reader, pppVars, device, dataVars>>

\* The destructor begins, whatever state the object is in.
Destroy == Close("Destroy")

-----------------------------------------------------------------------------
\* DataReadThread: test, read, drop what carries the special flag, call back.
\* It survives every exception.
reader_tests ==
  /\ reader.pc = "testing"
  /\ reader' = [reader EXCEPT !.pc = IF continue_reading THEN "reading" ELSE "over"]
  /\ UNCHANGED <<object, call, continue_reading, pppVars, usbVars, device, dataVars, history>>

reader_reads_again ==
  /\ reader.pc = "reading" /\ up # << >>
  /\ up' = Tail(up)
  /\ reader' = IF Head(up).kind = "data" /\ continue_reading
                 THEN [pc |-> "calling", hand |-> Head(up).n]
                 ELSE [pc |-> "testing", hand |-> 0]
  /\ UNCHANGED <<object, call, continue_reading, pppVars, down, device, dataVars, history>>

reader_reads ==
  /\ reader.pc = "reading" /\ up # << >>
  /\ up' = Tail(up)
  /\ reader' = IF Head(up).kind = "data"
                 THEN [pc |-> "calling", hand |-> Head(up).n]
                 ELSE [pc |-> "testing", hand |-> 0]
  /\ UNCHANGED <<object, call, continue_reading, pppVars, down, device, dataVars, history>>

reader_gets_nothing ==
  /\ reader.pc = "reading" /\ up = << >>
  /\ reader' = [reader EXCEPT !.pc = "testing"]
  /\ UNCHANGED <<object, call, continue_reading, pppVars, usbVars, device, dataVars, history>>

callback ==
  /\ reader.pc = "calling"
  /\ heard' = Append(heard, reader.hand)
  /\ reader' = [pc |-> "testing", hand |-> 0]
  /\ UNCHANGED <<object, call, continue_reading, pppVars, usbVars, device, sent, lost, history>>

-----------------------------------------------------------------------------
\* The handheld takes its oldest command. Asked to start or for a modem it may
\* first ask for the password, or say that it wants one; a hash with the seed of
\* its last request is the right one or costs a try. Without tries it is silent.
Take ==
  /\ down # << >> /\ device.tries > 0
  /\ down' = Tail(down)
  /\ UNCHANGED <<object, call, continue_reading, reader, pppVars, heard, lost, history>>

Answer(packets) == up' = up \o packets

OtherSeed == -1     \* a new seed that fits no request answered

Request == Packet("request", device.seed, device.tries)

device_answers ==
  /\ Take
  /\ LET kind == Head(down).kind IN
     \/ kind = "stop" /\ \E p \in {<< >>, <<Ack>>} : Answer(p)
     \/ kind = "start" /\ \E p \in IF device.prompts > 0 THEN {<<Request>>, <<Null>>} ELSE {<<Ack>>} : Answer(p)
     \/ kind = "key" /\ \E p \in {<< >>, <<Null>>} : Answer(p)
     \/ kind = "at" /\ device.prompts > 0 /\ \E p \in {<<Request>>, <<Packet("protected", 0, 0)>>} : Answer(p)
     \/ kind = "end" /\ Answer(<< >>)
  /\ device' = IF Head(down).kind \in {"stop", "end"} THEN [device EXCEPT !.online = FALSE] ELSE device
  /\ UNCHANGED sent

device_connects ==
  /\ Take
  /\ Head(down).kind = "at" /\ device.prompts = 0
  /\ \/ /\ sent < MaxData
        /\ \E p \in {<< >>, <<Null>>} : Answer(Append(p, Packet("data", 0, sent + 1)))
        /\ sent' = sent + 1
     \/ Answer(<<Null>>) /\ UNCHANGED sent
  /\ device' = [device EXCEPT !.online = TRUE]

device_judges ==
  /\ Take
  /\ Head(down).kind = "hash"
  /\ LET c == Head(down)
         fits == c.right /\ c.seed = device.seed /\ device.prompts > 0
         news == IF fits THEN {c.seed + 1, 0} ELSE {OtherSeed}
     IN /\ \E p \in {<< >>, <<Null>>}, new \in news :
             Answer(Append(p, Packet("verdict", new, device.tries - 1)))
        /\ device' = IF fits
                       THEN [device EXCEPT !.prompts = @ - 1, !.seed = @ + 1, !.tries = MaxTries]
                       ELSE [device EXCEPT !.seed = @ + 1, !.tries = @ - 1]
  /\ UNCHANGED sent

device_sends ==
  /\ device.online /\ sent < MaxData
  /\ sent' = sent + 1
  /\ up' = Append(up, Packet("data", 0, sent + 1))
  /\ UNCHANGED <<object, call, continue_reading, reader, pppVars, down, device, heard, lost, history>>

\* The object is gone and nothing is left to do.
finished == object = "destroyed" /\ reader.pc = "none" /\ UNCHANGED vars

-----------------------------------------------------------------------------
Caller ==
  \/ \E password \in Passwords : Open(password)
  \/ SendCommand \/ SendSessionKey \/ ignored_response \/ start_response \/ password_response
  \/ restart_response \/ at_response \/ spawn
  \/ \E text \in Chunks : Write(text)
  \/ Close("Close") \/ Destroy \/ close_response \/ join
  \/ timeout \/ usb_error

DataReadThread == reader_tests \/ reader_reads \/ reader_gets_nothing \/ callback

Device == device_answers \/ device_connects \/ device_judges \/ device_sends

Next == Caller \/ DataReadThread \/ Device \/ finished

Spec == Init /\ [][Next]_vars

-----------------------------------------------------------------------------
\* The type of the state; the thread runs exactly while m_continue_reading says
\* so, but for the time it takes to notice.
TypeOK ==
  /\ object \in {"alive", "destroyed"}
  /\ call.pc \in {"idle", "spawn", "join"} \cup Writing \cup Waiting
  /\ call.result \in {"returned", "BadPassword", "Error", "Timeout"}
  /\ call.back \in {"idle", "restart", "at", "spawn"}
  /\ continue_reading \in BOOLEAN
  /\ reader.pc \in {"none", "testing", "reading", "calling", "over"}
  /\ continue_reading => reader.pc \in {"testing", "reading", "calling"}
  /\ ~continue_reading /\ reader.pc # "none" => call.pc = "join"
  /\ reader.hand # 0 <=> reader.pc = "calling"
  /\ device.tries \in 0..MaxTries /\ device.prompts \in 0..3
  /\ sent \in 0..MaxData /\ lost \subseteq 1..sent

\* The data packets of a queue, and those on their way to the callback in the
\* order in which it hears them: heard, in the hand of the thread, ahead of it.
DataAt(queue) == {i \in DOMAIN queue : queue[i].kind = "data"}
Heard  == {heard[i] : i \in DOMAIN heard}
InHand == IF reader.pc = "calling" THEN {reader.hand} ELSE {}
Ahead  == {up[i].n : i \in DataAt(up)}

\* What the handheld sends is heard once and in order, but for what Open and Close
\* read themselves and drop (lost): no more than the answer to AT in a first Open,
\* and nothing from there to Close. When Close or the destructor has come to its
\* end, and not by an exception, which leaves the thread running, nobody is left to
\* call the callback.
SerialData ==
  /\ \A i, j \in DOMAIN heard : i < j => heard[i] < heard[j]
  /\ \A i, j \in DataAt(up) : i < j => up[i].n < up[j].n
  /\ \A x \in Heard, y \in InHand \cup Ahead : x < y
  /\ \A x \in InHand, y \in Ahead : x < y
  /\ 1..sent = Heard \cup InHand \cup Ahead \cup lost
  /\ call.op \in {"Open", "Write"} /\ opens = 1 => lost \subseteq {1}
  /\ call.pc = "idle" /\ call.op \in {"Close", "Destroy"} /\ call.result = "returned" => reader.pc = "none"

\* "Refusing to proceed, to avoid device zapping itself": unless an answer was late,
\* one Open never costs more than one try, whichever requests it obeys; and as long
\* as no request after the first, where Open does not look at the tries, says that
\* too few are left and is obeyed all the same, none goes below the limit.
TriesSpared ==
  /\ ~late => device.tries >= before - 1
  /\ ~late /\ ~sloppy => device.tries >= MinTries - 1

\* What is left of a text without its flags.
Plain(text) ==
  LET done[n \in 0..Len(text)] ==
        IF n = 0 THEN << >>
        ELSE IF text[n] = Flag THEN done[n - 1] ELSE Append(done[n - 1], text[n])
  IN done[Len(text)]

\* Every byte of PPP reaches the device between two flags of its own frame,
\* however pppd cuts the stream into buffers; the filter adds nothing but flags
\* and stays within the buffer it reserves.
Framed ==
  /\ ~receiver.bare
  /\ Plain(wire.bytes) = Plain(wire.text)
  /\ Len(wire.bytes) <= Needed(wire.text)
=============================================================================
