------------------------------ MODULE SocketZero ------------------------------
(***************************************************************************)
(* Opening and closing logical sockets: SocketZero of socket.cc, with      *)
(* Controller::SelectMode and Mode::Open on top of it, over a device that  *)
(* answers one command after the other.  The host is one thread without a  *)
(* router, so that a read of the device may time out; the answer it waited *)
(* for may still come, and is then what the next read finds.               *)
(*                                                                         *)
(* Sequence numbers of handshakes are left out: on socket 0 CheckSequence  *)
(* only logs a mismatch.  The device is external, modelled by what the     *)
(* host expects of it.  A "variant" is the definition after it with a slip *)
(* that the runs must tell apart.                                          *)
(***************************************************************************)
EXTENDS Sequences, Naturals

CONSTANTS
  Modes,              \* the Mode objects of one Controller
  DesktopModes,       \* those of type Controller::Desktop
  Sockets,            \* the socket numbers the device hands out
  Tries,              \* password tries of a fresh device
  SequenceStart,      \* zeroSocketSequenceStart of the constructor
  RefusesReset,       \* TRUE when the device may not take a RESET
  ModeCommands,       \* what the modes send on the sockets they have open,
  ModeAnswers,        \* and receive
  MaxCalls,           \* bound: calls of the application
  MaxTimeouts         \* bound: reads that time out

ASSUME ModesAssumption == DesktopModes \subseteq Modes /\ Modes # {}
ASSUME SocketsAssumption == Sockets \subseteq Nat \ {0}
ASSUME TriesAssumption == Tries \in Nat
ASSUME SequenceAssumption == SequenceStart \in 0..255
ASSUME DeviceAssumption == RefusesReset \in BOOLEAN
ASSUME BoundsAssumption == MaxCalls \in Nat /\ MaxTimeouts \in Nat

VARIABLES
  zero,      \* SocketZero: m_zeroSocketSequence, m_halfOpen, m_challengeSeed,
             \* m_remainingTries, m_hideSequencePacket, m_resetOnClose
  mode,      \* Mode: m_ModeSocket as number; m_socket as handle (is there
             \* one) with its socket and flag; was the last Open a BadPassword
  call,      \* the call in progress: pc, what it is for, password, closeFlag
  down, up,  \* packets on their way to the device, and to the host
  device,    \* the device: is it locked, tries, seed, pending (the socket that
             \* waits for a password), open sockets
  calls, timeouts   \* counters for the bounds

vars == <<zero, mode, call, down, up, device, calls, timeouts>>

MinTries == 3                \* LINBERRY_MIN_PASSWORD_TRIES
Passwords == {"none", "right", "wrong"}
Commands == {"SELECT_MODE", "SELECT_DESKTOP", "OPEN_SOCKET", "PASSWORD", "CLOSE_SOCKET", "RESET"}
Answers == {"MODE_SELECTED", "PASSWORD_CHALLENGE", "PASSWORD_FAILED", "OPENED_SOCKET",
            "CLOSED_SOCKET", "RESET_REPLY", "SEQUENCE_HANDSHAKE", "REFUSED"}

NewMode == [number |-> 0, handle |-> FALSE, socket |-> 0, flag |-> 0, rejected |-> FALSE]
NoCall == [pc |-> "idle", op |-> "none", mode |-> CHOOSE m \in Modes : TRUE,
           password |-> "none", flag |-> 0, acked |-> FALSE]
NoHash == [seed |-> 0, password |-> "none"]

Init ==
  /\ zero = [sequence |-> SequenceStart, halfOpen |-> FALSE, seed |-> 0, tries |-> 0,
             hide |-> TRUE, resetOnClose |-> FALSE]
  /\ mode = [m \in Modes |-> NewMode]
  /\ call = NoCall
  /\ down = <<>> /\ up = <<>>
  /\ device \in [locked : BOOLEAN, tries : {Tries}, seed : {0}, pending : {0},
                 open : {{}}]
  /\ calls = 0 /\ timeouts = 0

-----------------------------------------------------------------------------
(***************************************************************************)
(* Sending and receiving on socket 0.                                      *)
(***************************************************************************)
RawSend(command, socket, hash) ==
  down' = Append(down, [command |-> command, socket |-> socket, hash |-> hash,
                        sequence |-> zero.sequence])

\* Variant: a sequence counter wider than the packet's byte.
Send_wide(command, socket) ==
  /\ RawSend(command, socket, NoHash)
  /\ zero' = [zero EXCEPT !.sequence = @ + 1]

\* Send overwrites the packet's sequence, whatever the caller has put there.
Send(command, socket) ==
  /\ RawSend(command, socket, NoHash)
  /\ zero' = [zero EXCEPT !.sequence = (@ + 1) % 256]

Reply == Head(up)
Hidden == zero.hide /\ Reply.command = "SEQUENCE_HANDSHAKE"

\* RawReceive reads on while it finds handshakes that are to be hidden.
SequencePacket ==
  /\ call.pc \in {"selecting", "extra", "opening", "authenticating", "closing", "resetting"}
  /\ up # <<>> /\ Hidden
  /\ up' = Tail(up)
  /\ UNCHANGED <<zero, mode, call, down, device, calls, timeouts>>

RawReceive(pc) == call.pc = pc /\ up # <<>> /\ ~Hidden /\ up' = Tail(up)

\* SendOpen, SendPasswordHash and Close take one handshake before the answer.
Receive(pc) == RawReceive(pc) /\ (call.acked \/ Reply.command # "SEQUENCE_HANDSHAKE")

check_sequence ==
  /\ ~call.acked
  /\ \E pc \in {"opening", "authenticating", "closing"} : RawReceive(pc)
  /\ Reply.command = "SEQUENCE_HANDSHAKE"
  /\ call' = [call EXCEPT !.acked = TRUE]
  /\ UNCHANGED <<zero, mode, down, device, calls, timeouts>>

Await(c, pc) == call' = [c EXCEPT !.pc = pc, !.acked = FALSE]
SetMode(m) == mode' = [mode EXCEPT ![call.mode] = m]

-----------------------------------------------------------------------------
(***************************************************************************)
(* Controller::SelectMode.                                                 *)
(***************************************************************************)
SelectMode(c) ==
  /\ Send(IF c.mode \in DesktopModes THEN "SELECT_DESKTOP" ELSE "SELECT_MODE", 0)
  /\ Await(c, "selecting")

\* The mode's socket number is taken out of the packet received last, which in
\* Desktop mode is the one after the reply.
Selected == SetMode([mode[call.mode] EXCEPT !.number = Reply.socket]) /\ Await(call, "selected")

mode_selected ==
  /\ RawReceive("selecting")
  /\ IF Reply.command # "MODE_SELECTED"
       THEN call' = NoCall /\ UNCHANGED <<mode, zero>>
     ELSE IF call.mode \notin DesktopModes
       THEN Selected /\ UNCHANGED zero
     ELSE zero' = [zero EXCEPT !.hide = FALSE] /\ Await(call, "extra") /\ UNCHANGED mode
  /\ UNCHANGED <<down, device, calls, timeouts>>

extra_packet ==
  /\ RawReceive("extra")
  /\ zero' = [zero EXCEPT !.hide = TRUE]
  /\ Selected
  /\ UNCHANGED <<down, device, calls, timeouts>>

-----------------------------------------------------------------------------
(***************************************************************************)
(* SocketZero::Open, run on the selected socket number.                    *)
(***************************************************************************)
number == mode[call.mode].number

SendOpen ==
  /\ call.pc = "selected" /\ ~zero.halfOpen
  /\ zero' = [zero EXCEPT !.tries = 0]
  /\ RawSend("OPEN_SOCKET", number, NoHash)
  /\ Await([call EXCEPT !.flag = zero.sequence], "opening")
  /\ UNCHANGED <<mode, up, device, calls, timeouts>>

still_half_open ==
  /\ call.pc = "selected" /\ zero.halfOpen
  /\ Await(call, "challenged")
  /\ UNCHANGED <<zero, mode, down, up, device, calls, timeouts>>

Challenged == [zero EXCEPT !.halfOpen = TRUE, !.seed = Reply.seed, !.tries = Reply.tries]
BadPassword == SetMode([mode[call.mode] EXCEPT !.rejected = TRUE]) /\ call' = NoCall

password_challenge ==
  /\ Receive("opening") /\ Reply.command = "PASSWORD_CHALLENGE"
  /\ zero' = Challenged
  /\ Await(call, "challenged")
  /\ UNCHANGED <<mode, down, device, calls, timeouts>>

\* Variant: an off-by-one.
EnoughTries_less == zero.tries + 1 >= MinTries

EnoughTries == zero.tries >= MinTries

refuse_password ==
  /\ call.pc = "challenged"
  /\ call.password = "none" \/ ~EnoughTries
  /\ BadPassword
  /\ UNCHANGED <<zero, down, up, device, calls, timeouts>>

SendPasswordHash ==
  /\ call.pc = "challenged"
  /\ call.password # "none" /\ EnoughTries
  /\ RawSend("PASSWORD", number, [seed |-> zero.seed, password |-> call.password])
  /\ Await([call EXCEPT !.flag = zero.sequence], "authenticating")
  /\ UNCHANGED <<zero, mode, up, device, calls, timeouts>>

\* Variant: the new challenge is not saved.
password_failed_stale ==
  /\ Receive("authenticating") /\ Reply.command = "PASSWORD_FAILED"
  /\ BadPassword
  /\ UNCHANGED <<zero, down, device, calls, timeouts>>

password_failed ==
  /\ Receive("authenticating") /\ Reply.command = "PASSWORD_FAILED"
  /\ zero' = Challenged
  /\ BadPassword
  /\ UNCHANGED <<down, device, calls, timeouts>>

Accepted == SetMode([mode[call.mode] EXCEPT !.handle = TRUE, !.socket = number, !.flag = call.flag])

\* Variant: without the check of the command.
Opened_any_command ==
  /\ call' = NoCall
  /\ IF Reply.socket = number /\ Reply.sequence = call.flag THEN Accepted ELSE UNCHANGED mode

\* The success check: a Socket, or "Bad OPENED packet in Open".
Opened ==
  /\ call' = NoCall
  /\ IF Reply.command = "OPENED_SOCKET" /\ Reply.socket = number /\ Reply.sequence = call.flag
       THEN Accepted
       ELSE UNCHANGED mode

opened_socket ==
  /\ Receive("opening") /\ Reply.command # "PASSWORD_CHALLENGE"
  /\ Opened
  /\ UNCHANGED <<zero, down, device, calls, timeouts>>

password_accepted ==
  /\ Receive("authenticating") /\ Reply.command # "PASSWORD_FAILED"
  /\ zero' = [zero EXCEPT !.halfOpen = FALSE]
  /\ Opened
  /\ UNCHANGED <<down, device, calls, timeouts>>

-----------------------------------------------------------------------------
(***************************************************************************)
(* SocketZero::Close, called by Mode::Open for the socket it has, and by   *)
(* ~Socket, where exceptions end.                                          *)
(***************************************************************************)
Close(c) ==
  /\ Send("CLOSE_SOCKET", mode[c.mode].socket)
  /\ Await(c, "closing")

\* Variant: without the final ForceClosed, ~Socket closes again.
CloseReturns ==
  /\ SetMode(NewMode)
  /\ IF call.op = "open" THEN SelectMode(call)
                         ELSE call' = NoCall /\ UNCHANGED <<zero, down>>

ForceClosed == [mode[call.mode] EXCEPT !.socket = 0, !.flag = 0]

CloseThrows(m) ==
  /\ SetMode(IF call.op = "open" THEN m ELSE NewMode)
  /\ call' = NoCall

IsClosed == /\ Reply.command = "CLOSED_SOCKET"
            /\ Reply.socket = mode[call.mode].socket
            /\ Reply.sequence = mode[call.mode].flag

closed_socket ==
  /\ Receive("closing") /\ IsClosed
  /\ IF zero.resetOnClose
       THEN Send("RESET", 0) /\ Await(call, "resetting") /\ UNCHANGED mode
       ELSE CloseReturns
  /\ UNCHANGED <<device, calls, timeouts>>

bad_closed ==
  /\ Receive("closing") /\ ~IsClosed
  /\ CloseThrows(ForceClosed)
  /\ UNCHANGED <<zero, down, device, calls, timeouts>>

reset_reply ==
  /\ RawReceive("resetting") /\ Reply.command = "RESET_REPLY"
  /\ CloseReturns
  /\ UNCHANGED <<device, calls, timeouts>>

missing_reset_reply ==
  /\ RawReceive("resetting") /\ Reply.command # "RESET_REPLY"
  /\ CloseThrows(mode[call.mode])
  /\ UNCHANGED <<zero, down, device, calls, timeouts>>

\* A read times out: every call but ~Socket passes the exception on, and only
\* the first read of Close is inside the try block.
timeout ==
  /\ timeouts < MaxTimeouts
  /\ up = <<>>
  /\ timeouts' = timeouts + 1
  /\ \/ call.pc \in {"selecting", "extra", "opening", "authenticating"} /\ call' = NoCall /\ UNCHANGED mode
     \/ call.pc = "closing" /\ ~call.acked /\ CloseThrows(ForceClosed)
     \/ call.pc = "closing" /\ call.acked /\ CloseThrows(mode[call.mode])
     \/ call.pc = "resetting" /\ CloseThrows(mode[call.mode])
  /\ UNCHANGED <<zero, down, up, device, calls>>

-----------------------------------------------------------------------------
(***************************************************************************)
(* The application: Mode::Open, RetryPassword ("only in response to        *)
(* BadPassword"), ~Mode, and JavaLoader's request to reset on close.       *)
(***************************************************************************)
Begin == call.pc = "idle" /\ calls < MaxCalls /\ calls' = calls + 1
TheCall(op, m, password) == [NoCall EXCEPT !.op = op, !.mode = m, !.password = password]

Open(m, password) ==
  /\ Begin
  /\ LET c == TheCall("open", m, password)
     IN  \/ /\ mode[m].number = 0 \/ (mode[m].handle /\ mode[m].socket = 0)
            /\ mode' = [mode EXCEPT ![m] = NewMode]
            /\ SelectMode(c)
         \/ /\ mode[m].number # 0 /\ mode[m].handle /\ mode[m].socket # 0
            /\ Close(c)
            /\ UNCHANGED mode
         \/ /\ mode[m].number # 0 /\ ~mode[m].handle     \* m_socket->Close() on null
            /\ call' = [c EXCEPT !.pc = "crashed"]
            /\ UNCHANGED <<zero, mode, down>>
  /\ UNCHANGED <<up, device, timeouts>>

RetryPassword(m, password) ==
  /\ Begin
  /\ mode[m].rejected /\ ~mode[m].handle
  /\ mode' = [mode EXCEPT ![m].rejected = FALSE]
  /\ Await(TheCall("retry", m, password), "selected")
  /\ UNCHANGED <<zero, down, up, device, timeouts>>

\* Variant: a ~Socket that does not close.
Destroy_forgets(m) ==
  /\ Begin
  /\ mode[m] # NewMode
  /\ mode' = [mode EXCEPT ![m] = NewMode]
  /\ UNCHANGED <<zero, call, down, up, device, timeouts>>

Destroy(m) ==
  /\ Begin
  /\ mode[m] # NewMode
  /\ IF mode[m].handle /\ mode[m].socket # 0
       THEN Close(TheCall("destroy", m, "none")) /\ UNCHANGED mode
       ELSE mode' = [mode EXCEPT ![m] = NewMode] /\ UNCHANGED <<zero, call, down>>
  /\ UNCHANGED <<up, device, timeouts>>

SetResetOnClose ==
  /\ call.pc = "idle" /\ ~zero.resetOnClose
  /\ zero' = [zero EXCEPT !.resetOnClose = TRUE]
  /\ UNCHANGED <<mode, call, down, up, device, calls, timeouts>>

at_rest == call.pc \in {"idle", "crashed"} /\ UNCHANGED vars

-----------------------------------------------------------------------------
(***************************************************************************)
(* The device answers its oldest command, after a handshake or not.  The   *)
(* handshake that follows a Desktop reply has at the place of the socket   *)
(* number bytes the code calls unknown: the number selected, or another.   *)
(***************************************************************************)
Request == Head(down)
Packet(command, socket, dev) ==
  [command |-> command, socket |-> socket, sequence |-> Request.sequence,
   tries |-> dev.tries, seed |-> dev.seed, size |-> 0]
Handshake(socket) == Packet("SEQUENCE_HANDSHAKE", socket, device)

Answer(dev, packets) ==
  /\ device' = dev
  /\ \E before \in {<<>>, <<Handshake(0)>>} : up' = up \o before \o packets
  /\ down' = Tail(down)
  /\ UNCHANGED <<zero, mode, call, calls, timeouts>>

Asked(command) == down # <<>> /\ Request.command = command /\ device.tries > 0

answer_select ==
  \E s \in Sockets \ device.open :
    LET selected == Packet("MODE_SELECTED", s, device)
    IN  \/ Asked("SELECT_MODE") /\ Answer(device, <<selected>>)
        \/ Asked("SELECT_DESKTOP") /\ \E n \in {0, s} : Answer(device, <<selected, Handshake(n)>>)

answer_open ==
  /\ Asked("OPEN_SOCKET") /\ Request.socket \in Sockets
  /\ LET challenging == [device EXCEPT !.seed = 1 - @, !.pending = Request.socket]
         opening == [device EXCEPT !.open = @ \cup {Request.socket}]
     IN  IF device.locked
           THEN Answer(challenging, <<Packet("PASSWORD_CHALLENGE", Request.socket, challenging)>>)
           ELSE Answer(opening, <<Packet("OPENED_SOCKET", Request.socket, opening)>>)

answer_password ==
  /\ Asked("PASSWORD") /\ Request.socket \in {device.pending} \ {0}
  /\ LET opening == [device EXCEPT !.open = @ \cup {Request.socket}, !.pending = 0, !.tries = Tries]
         failing == [device EXCEPT !.seed = 1 - @, !.tries = @ - 1]
     IN  IF Request.hash = [seed |-> device.seed, password |-> "right"]
           THEN Answer(opening, <<Packet("OPENED_SOCKET", Request.socket, opening)>>)
           ELSE Answer(failing, <<Packet("PASSWORD_FAILED", Request.socket, failing)>>)

answer_close ==
  /\ Asked("CLOSE_SOCKET") /\ Request.socket \in device.open
  /\ Answer([device EXCEPT !.open = @ \ {Request.socket}],
            <<Packet("CLOSED_SOCKET", Request.socket, device)>>)

answer_reset == Asked("RESET") /\ Answer(device, <<Packet("RESET_REPLY", 0, device)>>)

refuse ==
  /\ down # <<>>
  /\ \/ device.tries = 0
     \/ Asked("SELECT_MODE") /\ Sockets = device.open
     \/ Asked("SELECT_DESKTOP") /\ Sockets = device.open
     \/ Asked("OPEN_SOCKET") /\ Request.socket \notin Sockets
     \/ Asked("RESET") /\ RefusesReset
     \/ Asked("PASSWORD") /\ Request.socket \notin {device.pending} \ {0}
     \/ Asked("CLOSE_SOCKET") /\ Request.socket \notin device.open
  /\ Answer(device, <<Packet("REFUSED", Request.socket, device)>>)

-----------------------------------------------------------------------------
Host == \/ SequencePacket \/ check_sequence \/ mode_selected \/ extra_packet
        \/ SendOpen \/ still_half_open \/ password_challenge \/ refuse_password
        \/ SendPasswordHash \/ password_failed \/ opened_socket \/ password_accepted
        \/ closed_socket \/ bad_closed \/ reset_reply \/ missing_reset_reply \/ timeout

Application == \/ \E m \in Modes : \/ Destroy(m)
                                   \/ \E p \in Passwords : Open(m, p) \/ RetryPassword(m, p)
               \/ SetResetOnClose \/ at_rest

Device == \/ answer_select \/ answer_open \/ answer_password \/ answer_close
          \/ answer_reset \/ refuse

Next == Host \/ Application \/ Device

Spec == Init /\ [][Next]_vars

-----------------------------------------------------------------------------
Hash == [seed : {0, 1}, password : Passwords]
Number == Sockets \cup {0}

TypeOK ==
  /\ zero \in [sequence : 0..255, halfOpen : BOOLEAN, seed : {0, 1}, tries : 0..Tries,
               hide : BOOLEAN, resetOnClose : BOOLEAN]
  /\ mode \in [Modes -> [number : Number, handle : BOOLEAN, socket : Number, flag : 0..255,
                         rejected : BOOLEAN]]
  /\ call \in [pc : {"idle", "selecting", "extra", "selected", "opening", "challenged",
                     "authenticating", "closing", "resetting", "crashed"},
               op : {"none", "open", "retry", "destroy"}, mode : Modes,
               password : Passwords, flag : 0..255, acked : BOOLEAN]
  /\ down \in Seq([command : Commands \cup ModeCommands, socket : Number, hash : Hash, sequence : 0..255])
  /\ up \in Seq([command : Answers \cup ModeAnswers, socket : Number, sequence : 0..255,
                 tries : 0..Tries, seed : {0, 1}, size : Nat])
  /\ device \in [locked : BOOLEAN, tries : 0..Tries, seed : {0, 1}, pending : Number,
                 open : SUBSET Sockets]
  /\ calls \in 0..MaxCalls /\ timeouts \in 0..MaxTimeouts

OnTheWay(command) == {i \in 1..Len(down) : down[i].command = command}

\* "only allow password attempts if there are LINBERRY_MIN_PASSWORD_TRIES or
\* more tries remaining": no password hash is on its way to a device that has
\* fewer tries left, whatever m_remainingTries says.
TriesGuard == OnTheWay("PASSWORD") # {} => device.tries >= MinTries

\* Between calls host and device agree. A host that believes itself half open
\* answers the challenge the device really has pending (m_halfOpen,
\* m_challengeSeed, m_remainingTries); the sockets open at the device are those
\* the Modes hold a Socket for, none forgotten and none believed open that is not;
\* and, "reset so this won't be called again", no CLOSE_SOCKET is ever sent for a
\* socket the device has closed already.
HostAndDeviceAgree ==
  /\ (call.pc = "idle" /\ zero.halfOpen) =>
       device.pending # 0 /\ zero.seed = device.seed /\ zero.tries = device.tries
  /\ call.pc = "idle" => device.open = {mode[m].socket : m \in Modes} \ {0}
  /\ \A i \in OnTheWay("CLOSE_SOCKET") : down[i].socket \in device.open

\* A Socket is only ever made for a socket the device has open, even when the
\* answer that Open takes for its own is one an earlier call gave up on: the
\* check of command, socket and sequence at the end of SocketZero::Open.
OpenedAtDevice ==
  [][\A m \in Modes : (~mode[m].handle /\ mode'[m].handle) => mode'[m].socket \in device.open]_vars
=============================================================================
