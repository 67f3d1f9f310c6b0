-------------------------- MODULE SocketZero_proof --------------------------
(***************************************************************************)
(* Opening and closing sockets for any number of calls, sockets and tries: *)
(* first the types, then, where no read times out, that host and device    *)
(* take turns, and what each then knows of the other.  Where reads do time *)
(* out, what becomes of the answers that come late.  At last a JavaLoader  *)
(* on its socket, whose packets share the wire.                            *)
(***************************************************************************)
EXTENDS JavaLoader, SequenceTheorems, TLAPS

ZeroRecord == [sequence : 0..255, halfOpen : BOOLEAN, seed : {0, 1}, tries : 0..Tries,
               hide : BOOLEAN, resetOnClose : BOOLEAN]
ModeRecord == [number : Number, handle : BOOLEAN, socket : Number, flag : 0..255, rejected : BOOLEAN]
Labels == {"idle", "selecting", "extra", "selected", "opening", "challenged",
           "authenticating", "closing", "resetting", "crashed"}
CallRecord == [pc : Labels, op : {"none", "open", "retry", "destroy"}, mode : Modes,
               password : Passwords, flag : 0..255, acked : BOOLEAN]
Requests == [command : Commands \cup ModeCommands, socket : Number, hash : Hash, sequence : 0..255]
Responses == [command : Answers \cup ModeAnswers, socket : Number, sequence : 0..255,
            tries : 0..Tries, seed : {0, 1}, size : Nat]
DeviceRecord == [locked : BOOLEAN, tries : 0..Tries, seed : {0, 1}, pending : Number,
                 open : SUBSET Sockets]

Typed ==
  /\ zero \in ZeroRecord /\ mode \in [Modes -> ModeRecord] /\ call \in CallRecord
  /\ down \in Seq(Requests) /\ up \in Seq(Responses) /\ device \in DeviceRecord
  /\ calls \in 0..MaxCalls /\ timeouts \in 0..MaxTimeouts

LEMMA TypedIs == TypeOK <=> Typed
BY DEF TypeOK, Typed, ZeroRecord, ModeRecord, CallRecord, Labels, Requests, Responses, DeviceRecord

-----------------------------------------------------------------------------
(***************************************************************************)
(* Types.                                                                  *)
(***************************************************************************)
\* What the host has before it waits for something.
LEMMA NewTypes == NewMode \in ModeRecord /\ NoCall \in CallRecord /\ NoHash \in Hash
<1>1. (CHOOSE m \in Modes : TRUE) \in Modes
  BY ModesAssumption
<1>. QED BY <1>1 DEF NewMode, NoCall, NoHash, ModeRecord, CallRecord, Labels, Hash, Passwords, Number

LEMMA HeadTyped ==
  ASSUME NEW D, NEW q \in Seq(D), q # <<>>
  PROVE  Head(q) \in D /\ Tail(q) \in Seq(D)
BY HeadTailProperties

LEMMA AppendTyped ==
  ASSUME NEW D, NEW q \in Seq(D), NEW e \in D
  PROVE  Append(q, e) \in Seq(D)
BY AppendProperties

LEMMA AnswerTyped ==
  ASSUME NEW D, NEW q \in Seq(D), NEW b \in Seq(D), NEW p \in Seq(D)
  PROVE  q \o b \o p \in Seq(D)
<1>1. q \o b \in Seq(D)
  BY ConcatProperties
<1>. QED BY <1>1, ConcatProperties

\* The call goes on to wait, and a mode changes.
LEMMA CallTyped ==
  ASSUME NEW c \in CallRecord, NEW pc \in Labels
  PROVE  /\ [c EXCEPT !.pc = pc, !.acked = FALSE] \in CallRecord
         /\ \A f \in 0..255 : [c EXCEPT !.flag = f] \in CallRecord
         /\ [c EXCEPT !.pc = pc] \in CallRecord
         /\ [c EXCEPT !.acked = TRUE] \in CallRecord
<1>1. [c EXCEPT !.pc = pc, !.acked = FALSE] \in CallRecord
  BY DEF CallRecord
<1>2. \A f \in 0..255 : [c EXCEPT !.flag = f] \in CallRecord
  BY DEF CallRecord
<1>3. [c EXCEPT !.pc = pc] \in CallRecord
  BY DEF CallRecord
<1>4. [c EXCEPT !.acked = TRUE] \in CallRecord
  BY DEF CallRecord
<1>. QED BY <1>1, <1>2, <1>3, <1>4

\* Await for a call c of any kind.
LEMMA AwaitTyped ==
  ASSUME NEW c \in CallRecord, NEW pc \in Labels, Await(c, pc)
  PROVE  call' \in CallRecord
BY CallTyped DEF Await, CallRecord

LEMMA Modulo == \A n \in Nat : (n + 1) % 256 \in 0..255
OBVIOUS

LEMMA RawSendTyped ==
  ASSUME Typed, NEW x \in Commands, NEW s \in Number, NEW h \in Hash, RawSend(x, s, h)
  PROVE  down' \in Seq(Requests)
<1>1. [command |-> x, socket |-> s, hash |-> h, sequence |-> zero.sequence] \in Requests
  BY DEF Typed, ZeroRecord, Requests
<1>. QED BY <1>1, AppendTyped DEF Typed, RawSend

LEMMA SendTyped ==
  ASSUME Typed, NEW x \in Commands, NEW s \in Number, Send(x, s)
  PROVE  zero' \in ZeroRecord /\ down' \in Seq(Requests)
<1>1. zero' \in ZeroRecord
  <2>1. (zero.sequence + 1) % 256 \in 0..255
    <3>1. zero \in ZeroRecord
      BY DEF Typed
    <3>2. zero.sequence \in Nat
      BY <3>1 DEF ZeroRecord
    <3>. QED BY <3>2, Modulo
  <2>. QED BY <2>1 DEF Send, Typed, ZeroRecord
<1>2. down' \in Seq(Requests)
  BY NewTypes, RawSendTyped DEF Send
<1>. QED BY <1>1, <1>2

LEMMA ReplyTyped ==
  ASSUME Typed, up # <<>>
  PROVE  Reply \in Responses /\ Tail(up) \in Seq(Responses)
BY HeadTyped DEF Typed, Reply

LEMMA SetModeTyped ==
  ASSUME Typed, NEW m \in ModeRecord, SetMode(m)
  PROVE  mode' \in [Modes -> ModeRecord]
BY DEF Typed, SetMode, CallRecord

LEMMA SelectModeTyped ==
  ASSUME Typed, NEW c \in CallRecord, SelectMode(c)
  PROVE  zero' \in ZeroRecord /\ down' \in Seq(Requests) /\ call' \in CallRecord
<1>1. PICK z \in Number : z = 0
  BY DEF Number
<1>2. PICK x \in Commands : x = IF c.mode \in DesktopModes THEN "SELECT_DESKTOP" ELSE "SELECT_MODE"
  BY DEF Commands
<1>3. zero' \in ZeroRecord /\ down' \in Seq(Requests)
  <2>1. Send(x, z)
    BY <1>1, <1>2 DEF SelectMode
  <2>. QED BY <2>1, SendTyped
<1>4. call' \in CallRecord
  BY AwaitTyped DEF SelectMode, Labels
<1>. QED BY <1>3, <1>4

LEMMA CloseTyped ==
  ASSUME Typed, NEW c \in CallRecord, Close(c)
  PROVE  zero' \in ZeroRecord /\ down' \in Seq(Requests) /\ call' \in CallRecord
<1>1. mode[c.mode].socket \in Number
  BY DEF Typed, CallRecord, ModeRecord
<1>2. "CLOSE_SOCKET" \in Commands
  BY DEF Commands
<1>3. Send("CLOSE_SOCKET", mode[c.mode].socket)
  BY DEF Close
<1>4. call' \in CallRecord
  BY AwaitTyped DEF Close, Labels
<1>. QED BY <1>1, <1>2, <1>3, <1>4, SendTyped

LEMMA CloseReturnsTyped ==
  ASSUME Typed, CloseReturns
  PROVE  /\ zero' \in ZeroRecord /\ down' \in Seq(Requests) /\ call' \in CallRecord
         /\ mode' \in [Modes -> ModeRecord]
<1>1. mode' \in [Modes -> ModeRecord]
  BY NewTypes, SetModeTyped DEF CloseReturns
<1>2. zero' \in ZeroRecord /\ down' \in Seq(Requests) /\ call' \in CallRecord
  BY NewTypes, SelectModeTyped DEF CloseReturns, Typed
<1>. QED BY <1>1, <1>2

LEMMA CloseThrowsTyped ==
  ASSUME Typed, NEW m \in ModeRecord, CloseThrows(m)
  PROVE  call' \in CallRecord /\ mode' \in [Modes -> ModeRecord]
<1>1. SetMode(m) \/ SetMode(NewMode)
  BY DEF CloseThrows
<1>. QED BY <1>1, NewTypes, SetModeTyped DEF CloseThrows

\* The record of the mode whose call it is.
LEMMA OwnTyped ==
  ASSUME Typed
  PROVE  /\ call.mode \in Modes /\ mode[call.mode] \in ModeRecord
         /\ number \in Number /\ ForceClosed \in ModeRecord
         /\ [mode[call.mode] EXCEPT !.rejected = TRUE] \in ModeRecord
         /\ \A n \in Number : [mode[call.mode] EXCEPT !.number = n] \in ModeRecord
         /\ \A n \in Number : \A f \in 0..255 :
              [mode[call.mode] EXCEPT !.handle = TRUE, !.socket = n, !.flag = f] \in ModeRecord
<1>1. call.mode \in Modes
  BY DEF Typed, CallRecord
<1>2. mode[call.mode] \in ModeRecord /\ 0 \in Number
  BY <1>1 DEF Typed, Number
<1>3. number \in Number
  BY <1>2 DEF ModeRecord, number
<1>4. ForceClosed \in ModeRecord
  <2>1. \A m \in ModeRecord : \A n \in Number : \A f \in 0..255 :
          [m EXCEPT !.socket = n, !.flag = f] \in ModeRecord
    BY DEF ModeRecord
  <2>2. 0 \in 0..255
    OBVIOUS
  <2>. QED BY <1>2, <2>1, <2>2 DEF ForceClosed
<1>5. [mode[call.mode] EXCEPT !.rejected = TRUE] \in ModeRecord
  BY <1>2 DEF ModeRecord
<1>6. \A n \in Number : [mode[call.mode] EXCEPT !.number = n] \in ModeRecord
  BY <1>2 DEF ModeRecord
<1>7. \A n \in Number : \A f \in 0..255 :
        [mode[call.mode] EXCEPT !.handle = TRUE, !.socket = n, !.flag = f] \in ModeRecord
  BY <1>2 DEF ModeRecord
<1>. QED BY <1>1, <1>2, <1>3, <1>4, <1>5, <1>6, <1>7

LEMMA OpenedTyped ==
  ASSUME Typed, Opened
  PROVE  call' \in CallRecord /\ mode' \in [Modes -> ModeRecord]
<1>1. call.flag \in 0..255
  BY DEF Typed, CallRecord
<1>2. Accepted => mode' \in [Modes -> ModeRecord]
  BY <1>1, OwnTyped, SetModeTyped DEF Accepted
<1>. QED BY <1>2, NewTypes DEF Opened, Typed

LEMMA ChallengedTyped ==
  ASSUME Typed, up # <<>>
  PROVE  Challenged \in ZeroRecord
BY ReplyTyped DEF Typed, Challenged, ZeroRecord, Responses

\* Packets of the device.
LEMMA PacketTyped ==
  ASSUME Typed, down # <<>>, NEW x \in Answers, NEW s \in Number, NEW d \in DeviceRecord
  PROVE  /\ Packet(x, s, d) \in Responses
         /\ Request \in Requests
<1>1. Request \in Requests
  BY HeadTyped DEF Typed, Request
<1>. QED BY <1>1 DEF Packet, Requests, Responses, DeviceRecord

LEMMA AnswerStepTyped ==
  ASSUME Typed, down # <<>>, NEW d \in DeviceRecord, NEW q \in Seq(Responses), Answer(d, q)
  PROVE  Typed'
<1>1. PICK b \in {<<>>, <<Handshake(0)>>} : up' = up \o b \o q
  BY DEF Answer
<1>2. Handshake(0) \in Responses
  BY PacketTyped DEF Handshake, Answers, Number, Typed
<1>3. b \in Seq(Responses)
  <2>1. <<>> \in Seq(Responses)
    OBVIOUS
  <2>2. <<Handshake(0)>> \in Seq(Responses)
    BY <1>2
  <2>. QED BY <2>1, <2>2
<1>4. up' \in Seq(Responses)
  BY <1>1, <1>3, AnswerTyped DEF Typed
<1>5. down' \in Seq(Requests)
  BY HeadTyped DEF Typed, Answer
<1>. QED BY <1>4, <1>5 DEF Typed, Answer
LEMMA TypeInit == Init => Typed
<1> SUFFICES ASSUME Init PROVE Typed
  OBVIOUS
<1>1. zero \in ZeroRecord
  BY SequenceAssumption, TriesAssumption DEF Init, ZeroRecord
<1>2. mode \in [Modes -> ModeRecord] /\ call \in CallRecord
  BY NewTypes DEF Init
<1>3. device \in DeviceRecord
  BY TriesAssumption DEF Init, DeviceRecord, Number
<1>4. down \in Seq(Requests) /\ up \in Seq(Responses) /\ calls \in 0..MaxCalls /\ timeouts \in 0..MaxTimeouts
  BY BoundsAssumption DEF Init
<1>. QED BY <1>1, <1>2, <1>3, <1>4 DEF Typed

LEMMA TypeHost == Typed /\ Host => Typed'
<1> SUFFICES ASSUME Typed, Host PROVE Typed'
  OBVIOUS
<1>0. call \in CallRecord /\ zero \in ZeroRecord
  BY DEF Typed
<1>1. CASE SequencePacket
  <2>1. up' \in Seq(Responses)
    BY <1>1, ReplyTyped DEF SequencePacket
  <2>. QED BY <1>1, <2>1 DEF SequencePacket, Typed
<1>2. CASE check_sequence
  <2>1. up' \in Seq(Responses)
    BY <1>2, ReplyTyped DEF check_sequence, RawReceive
  <2>2. call' \in CallRecord
    BY <1>2, CallTyped DEF check_sequence, Typed, CallRecord
  <2>3. UNCHANGED <<zero, mode, down, device, calls, timeouts>>
    BY <1>2 DEF check_sequence
  <2>. QED BY <2>1, <2>2, <2>3 DEF Typed
<1>3. CASE mode_selected \/ extra_packet
  <2>1. up' \in Seq(Responses) /\ Reply \in Responses
    BY <1>3, ReplyTyped DEF mode_selected, extra_packet, RawReceive
  <2>2. ASSUME Selected PROVE mode' \in [Modes -> ModeRecord] /\ call' \in CallRecord
    <3>1. Reply.socket \in Number
      BY <2>1 DEF Responses
    <3>2. mode' \in [Modes -> ModeRecord]
      BY <2>2, <3>1, OwnTyped, SetModeTyped DEF Selected
    <3>3. call' \in CallRecord
      BY <2>2, AwaitTyped DEF Selected, Typed, Labels
    <3>. QED BY <3>2, <3>3
  <2>3. ASSUME Await(call, "extra") PROVE call' \in CallRecord
    BY <2>3, AwaitTyped DEF Typed, Labels
  <2>4. mode' \in [Modes -> ModeRecord] /\ call' \in CallRecord
    BY <1>3, <2>2, <2>3, NewTypes DEF mode_selected, extra_packet, Typed
  <2>5. [zero EXCEPT !.hide = FALSE] \in ZeroRecord /\ [zero EXCEPT !.hide = TRUE] \in ZeroRecord
    BY DEF Typed, ZeroRecord
  <2>6. zero' \in ZeroRecord
    BY <1>3, <2>5 DEF mode_selected, extra_packet, Typed
  <2>. QED BY <1>3, <2>1, <2>4, <2>6 DEF mode_selected, extra_packet, Typed
<1>4. CASE SendOpen
  <2>1. down' \in Seq(Requests)
    BY <1>4, RawSendTyped, OwnTyped, NewTypes DEF SendOpen, Commands
  <2>2. zero.sequence \in 0..255 /\ [zero EXCEPT !.tries = 0] \in ZeroRecord
    <3>1. \A n \in 0..Tries : [zero EXCEPT !.tries = n] \in ZeroRecord
      BY <1>0 DEF ZeroRecord
    <3>2. 0 \in 0..Tries
      BY TriesAssumption
    <3>3. zero.sequence \in 0..255
      BY <1>0 DEF ZeroRecord
    <3>. QED BY <3>1, <3>2, <3>3
  <2>3. call' \in CallRecord
    BY <1>4, <2>2, CallTyped, AwaitTyped DEF SendOpen, Typed, Labels
  <2>. QED BY <1>4, <2>1, <2>2, <2>3 DEF SendOpen, Typed
<1>5. CASE still_half_open
  <2>1. call' \in CallRecord
    BY <1>5, AwaitTyped DEF still_half_open, Typed, Labels
  <2>. QED BY <1>5, <2>1 DEF still_half_open, Typed
<1>6. CASE password_challenge
  <2>1. up # <<>> /\ up' = Tail(up)
    BY <1>6 DEF password_challenge, Receive, RawReceive
  <2>2. up' \in Seq(Responses) /\ zero' \in ZeroRecord
    BY <1>6, <2>1, ReplyTyped, ChallengedTyped DEF password_challenge
  <2>3. call' \in CallRecord
    BY <1>6, AwaitTyped DEF password_challenge, Typed, Labels
  <2>. QED BY <1>6, <2>2, <2>3 DEF password_challenge, Typed
<1>7. ASSUME BadPassword PROVE call' \in CallRecord /\ mode' \in [Modes -> ModeRecord]
  BY <1>7, NewTypes, OwnTyped, SetModeTyped DEF BadPassword
<1>8. CASE refuse_password
  BY <1>7, <1>8 DEF refuse_password, Typed
<1>9. CASE password_failed
  <2>1. up # <<>> /\ up' = Tail(up)
    BY <1>9 DEF password_failed, Receive, RawReceive
  <2>2. up' \in Seq(Responses) /\ zero' \in ZeroRecord
    BY <1>9, <2>1, ReplyTyped, ChallengedTyped DEF password_failed
  <2>. QED BY <1>7, <1>9, <2>2 DEF password_failed, Typed
<1>10. CASE SendPasswordHash
  <2>1. [seed |-> zero.seed, password |-> call.password] \in Hash
    BY DEF Typed, ZeroRecord, CallRecord, Hash
  <2>2. down' \in Seq(Requests)
    BY <1>10, <2>1, RawSendTyped, OwnTyped DEF SendPasswordHash, Commands
  <2>3. zero.sequence \in 0..255
    BY DEF Typed, ZeroRecord
  <2>4. call' \in CallRecord
    BY <1>10, <2>3, CallTyped, AwaitTyped DEF SendPasswordHash, Typed, Labels
  <2>. QED BY <1>10, <2>2, <2>4 DEF SendPasswordHash, Typed
<1>11. CASE opened_socket \/ password_accepted
  <2>1. up' \in Seq(Responses)
    BY <1>11, ReplyTyped DEF opened_socket, password_accepted, Receive, RawReceive
  <2>2. call' \in CallRecord /\ mode' \in [Modes -> ModeRecord]
    BY <1>11, OpenedTyped DEF opened_socket, password_accepted
  <2>3. [zero EXCEPT !.halfOpen = FALSE] \in ZeroRecord
    BY DEF Typed, ZeroRecord
  <2>. QED BY <1>11, <2>1, <2>2, <2>3 DEF opened_socket, password_accepted, Typed
<1>12. CASE closed_socket
  <2>1. up' \in Seq(Responses)
    BY <1>12, ReplyTyped DEF closed_socket, Receive, RawReceive
  <2>2. CASE Send("RESET", 0) /\ Await(call, "resetting") /\ UNCHANGED mode
    <3> PICK z \in Number : z = 0
      BY DEF Number
    <3> PICK x \in Commands : x = "RESET"
      BY DEF Commands
    <3>0. Send(x, z)
      BY <2>2
    <3>1. zero' \in ZeroRecord /\ down' \in Seq(Requests)
      BY <3>0, SendTyped
    <3>2. call' \in CallRecord
      BY <2>2, AwaitTyped DEF Typed, Labels
    <3>3. UNCHANGED <<mode, device, calls, timeouts>>
      BY <1>12, <2>2 DEF closed_socket
    <3>. QED BY <2>1, <3>1, <3>2, <3>3 DEF Typed
  <2>3. CASE CloseReturns
    BY <1>12, <2>1, <2>3, CloseReturnsTyped DEF closed_socket, Typed
  <2>. QED BY <1>12, <2>2, <2>3 DEF closed_socket
<1>13. CASE bad_closed \/ missing_reset_reply
  <2>1. up' \in Seq(Responses)
    BY <1>13, ReplyTyped DEF bad_closed, missing_reset_reply, Receive, RawReceive
  <2>2. call' \in CallRecord /\ mode' \in [Modes -> ModeRecord]
    BY <1>13, OwnTyped, CloseThrowsTyped DEF bad_closed, missing_reset_reply
  <2>. QED BY <1>13, <2>1, <2>2 DEF bad_closed, missing_reset_reply, Typed
<1>14. CASE reset_reply
  <2>1. up' \in Seq(Responses)
    <3>1. up # <<>> /\ up' = Tail(up)
      BY <1>14 DEF reset_reply, RawReceive
    <3>. QED BY <3>1, ReplyTyped
  <2>. QED BY <1>14, <2>1, CloseReturnsTyped DEF reset_reply, Typed
<1>15. CASE timeout
  <2>1. call' \in CallRecord /\ mode' \in [Modes -> ModeRecord]
    BY <1>15, NewTypes, OwnTyped, CloseThrowsTyped DEF timeout, Typed
  <2>2. timeouts' \in 0..MaxTimeouts
    BY <1>15, BoundsAssumption DEF timeout, Typed
  <2>. QED BY <1>15, <2>1, <2>2 DEF timeout, Typed
<1>. QED BY <1>1, <1>2, <1>3, <1>4, <1>5, <1>6, <1>8, <1>9, <1>10, <1>11, <1>12, <1>13, <1>14, <1>15 DEF Host

LEMMA TypeApplication == Typed /\ (Application \/ UNCHANGED vars) => Typed'
<1> SUFFICES ASSUME Typed, Application \/ UNCHANGED vars PROVE Typed'
  OBVIOUS
<1>1. ASSUME Begin PROVE calls' \in 0..MaxCalls
  BY <1>1, BoundsAssumption DEF Begin, Typed
<1>2. \A op \in {"open", "retry", "destroy"}, m \in Modes, p \in Passwords : TheCall(op, m, p) \in CallRecord
  BY NewTypes DEF TheCall, CallRecord
<1>3. \A m \in Modes : /\ [mode EXCEPT ![m] = NewMode] \in [Modes -> ModeRecord]
                       /\ [mode EXCEPT ![m].rejected = FALSE] \in [Modes -> ModeRecord]
  <2>1. \A r \in ModeRecord : [r EXCEPT !.rejected = FALSE] \in ModeRecord
    BY DEF ModeRecord
  <2>. QED BY <2>1, NewTypes DEF Typed
<1>4. ASSUME NEW m \in Modes, NEW p \in Passwords, Open(m, p) PROVE Typed'
  <2> DEFINE c == TheCall("open", m, p)
  <2>1. c \in CallRecord
    BY <1>2
  <2> HIDE DEF c
  <2>2. CASE mode' = [mode EXCEPT ![m] = NewMode] /\ SelectMode(c)
    BY <1>1, <1>3, <1>4, <2>1, <2>2, SelectModeTyped DEF Open, Typed
  <2>3. CASE Close(c) /\ UNCHANGED mode
    BY <1>1, <1>4, <2>1, <2>3, CloseTyped DEF Open, Typed
  <2>4. CASE call' = [c EXCEPT !.pc = "crashed"] /\ UNCHANGED <<zero, mode, down>>
    <3>1. call' \in CallRecord
      <4>1. [c EXCEPT !.pc = "crashed"] \in CallRecord
        BY <2>1, CallTyped DEF Labels
      <4>. QED BY <2>4, <4>1
    <3>. QED BY <1>1, <1>4, <2>4, <3>1 DEF Open, Typed
  <2>. QED BY <1>4, <2>2, <2>3, <2>4 DEF Open, c
<1>5. ASSUME NEW m \in Modes, NEW p \in Passwords, RetryPassword(m, p) PROVE Typed'
  <2>1. call' \in CallRecord
    BY <1>2, <1>5, AwaitTyped DEF RetryPassword, Labels
  <2>. QED BY <1>1, <1>3, <1>5, <2>1 DEF RetryPassword, Typed
<1>6. ASSUME NEW m \in Modes, Destroy(m) PROVE Typed'
  <2>1. TheCall("destroy", m, "none") \in CallRecord
    BY <1>2 DEF Passwords
  <2>2. CASE Close(TheCall("destroy", m, "none")) /\ UNCHANGED mode
    BY <1>1, <1>6, <2>1, <2>2, CloseTyped DEF Destroy, Typed
  <2>3. CASE mode' = [mode EXCEPT ![m] = NewMode] /\ UNCHANGED <<zero, call, down>>
    BY <1>1, <1>3, <1>6, <2>3 DEF Destroy, Typed
  <2>. QED BY <1>6, <2>2, <2>3 DEF Destroy
<1>7. CASE SetResetOnClose
  <2>1. [zero EXCEPT !.resetOnClose = TRUE] \in ZeroRecord
    BY DEF Typed, ZeroRecord
  <2>. QED BY <1>7, <2>1 DEF SetResetOnClose, Typed
<1>8. CASE at_rest \/ UNCHANGED vars
  BY <1>8 DEF at_rest, vars, Typed
<1>. QED BY <1>4, <1>5, <1>6, <1>7, <1>8 DEF Application

\* The states the device's answers lead to.
LEMMA NewDevice ==
  ASSUME Typed, down # <<>>
  PROVE  /\ Request.socket \in Number
         /\ [device EXCEPT !.seed = 1 - @, !.pending = Request.socket] \in DeviceRecord
         /\ Request.socket \in Sockets =>
               [device EXCEPT !.open = @ \cup {Request.socket}] \in DeviceRecord
         /\ Request.socket \in Sockets =>
               [device EXCEPT !.open = @ \cup {Request.socket}, !.pending = 0, !.tries = Tries] \in DeviceRecord
         /\ device.tries > 0 => [device EXCEPT !.seed = 1 - @, !.tries = @ - 1] \in DeviceRecord
         /\ [device EXCEPT !.open = @ \ {Request.socket}] \in DeviceRecord
<1>0. device \in DeviceRecord /\ Sockets \subseteq Number /\ 0 \in Number /\ Tries \in Nat
  BY TriesAssumption DEF Typed, Number
<1>1. Request.socket \in Number
  BY HeadTyped DEF Request, Typed, Requests
<1>9. 1 - device.seed \in {0, 1} /\ device.tries \in 0..Tries
  BY <1>0 DEF DeviceRecord
<1>2. [device EXCEPT !.seed = 1 - @, !.pending = Request.socket] \in DeviceRecord
  BY <1>0, <1>9, <1>1 DEF DeviceRecord
<1>3. Request.socket \in Sockets => [device EXCEPT !.open = @ \cup {Request.socket}] \in DeviceRecord
  BY <1>0 DEF DeviceRecord
<1>4. Request.socket \in Sockets =>
        [device EXCEPT !.open = @ \cup {Request.socket}, !.pending = 0, !.tries = Tries] \in DeviceRecord
  <2>1. Tries \in 0..Tries
    BY <1>0
  <2>. QED BY <1>0, <2>1 DEF DeviceRecord
<1>5. device.tries > 0 => [device EXCEPT !.seed = 1 - @, !.tries = @ - 1] \in DeviceRecord
  <2>1. device.tries > 0 => device.tries - 1 \in 0..Tries
    BY <1>0, <1>9
  <2>. QED BY <1>0, <1>9, <2>1 DEF DeviceRecord
<1>6. [device EXCEPT !.open = @ \ {Request.socket}] \in DeviceRecord
  BY <1>0 DEF DeviceRecord
<1>. QED BY <1>1, <1>2, <1>3, <1>4, <1>5, <1>6

LEMMA TypeDevice == Typed /\ Device => Typed'
<1> SUFFICES ASSUME Typed, Device PROVE Typed'
  OBVIOUS
<1>0. /\ device \in DeviceRecord /\ Sockets \subseteq Number /\ 0 \in Number
      /\ Tries \in Nat
  BY TriesAssumption DEF Typed, Number
<1>1. ASSUME NEW x \in Answers, NEW s \in Number, NEW d \in DeviceRecord, down # <<>>,
             NEW e \in DeviceRecord, Answer(d, <<Packet(x, s, e)>>)
      PROVE  Typed'
  <2>1. Packet(x, s, e) \in Responses
    BY <1>1, PacketTyped
  <2>2. PICK q : q = <<Packet(x, s, e)>>
    OBVIOUS
  <2>3. q \in Seq(Responses)
    BY <2>1, <2>2
  <2>. QED BY <1>1, <2>2, <2>3, AnswerStepTyped
<1>2. CASE answer_select
  <2> PICK s \in Sockets \ device.open :
         \/ Asked("SELECT_MODE") /\ Answer(device, <<Packet("MODE_SELECTED", s, device)>>)
         \/ /\ Asked("SELECT_DESKTOP")
            /\ \E n \in {0, s} : Answer(device, <<Packet("MODE_SELECTED", s, device), Handshake(n)>>)
    BY <1>2 DEF answer_select
  <2>1. down # <<>> /\ s \in Number
    BY <1>0 DEF Asked
  <2>2. CASE Answer(device, <<Packet("MODE_SELECTED", s, device)>>)
    BY <1>0, <1>1, <2>1, <2>2 DEF Answers
  <2>3. ASSUME NEW n \in {0, s}, Answer(device, <<Packet("MODE_SELECTED", s, device), Handshake(n)>>)
        PROVE  Typed'
    <3>1. n \in Number
      BY <1>0, <2>1
    <3>2. Packet("MODE_SELECTED", s, device) \in Responses /\ Handshake(n) \in Responses
      BY <1>0, <2>1, <3>1, PacketTyped DEF Handshake, Answers
    <3>3. PICK q : q = <<Packet("MODE_SELECTED", s, device), Handshake(n)>>
      OBVIOUS
    <3>4. q \in Seq(Responses)
      BY <3>2, <3>3
    <3>. QED BY <1>0, <2>1, <2>3, <3>3, <3>4, AnswerStepTyped
  <2>. QED BY <2>2, <2>3
<1>3. ASSUME down # <<>>
      PROVE  /\ Request.socket \in Number
             /\ [device EXCEPT !.seed = 1 - @, !.pending = Request.socket] \in DeviceRecord
             /\ Request.socket \in Sockets =>
                   [device EXCEPT !.open = @ \cup {Request.socket}] \in DeviceRecord
             /\ Request.socket \in Sockets =>
                   [device EXCEPT !.open = @ \cup {Request.socket}, !.pending = 0, !.tries = Tries] \in DeviceRecord
             /\ device.tries > 0 => [device EXCEPT !.seed = 1 - @, !.tries = @ - 1] \in DeviceRecord
             /\ [device EXCEPT !.open = @ \ {Request.socket}] \in DeviceRecord
  BY <1>3, NewDevice
<1>4. CASE answer_open
  <2>1. down # <<>>
    BY <1>4 DEF answer_open, Asked
  <2>. QED BY <1>1, <1>3, <1>4, <2>1 DEF answer_open, Answers
<1>5. CASE answer_password
  <2>1. down # <<>> /\ device.tries > 0
    BY <1>5 DEF answer_password, Asked
  <2>2. Request.socket \in Sockets
    BY <1>0, <1>5 DEF answer_password, DeviceRecord, Number
  <2>. QED BY <1>1, <1>3, <1>5, <2>1, <2>2 DEF answer_password, Answers
<1>6. CASE answer_close \/ answer_reset \/ refuse
  <2>1. down # <<>>
    BY <1>6 DEF answer_close, answer_reset, refuse, Asked
  <2>2. {"CLOSED_SOCKET", "RESET_REPLY", "REFUSED"} \subseteq Answers
    BY DEF Answers
  <2>. QED BY <1>0, <1>1, <1>3, <1>6, <2>1, <2>2 DEF answer_close, answer_reset, refuse
<1>. QED BY <1>2, <1>4, <1>5, <1>6 DEF Device

\* The state of host, device and packets keeps its types, time-outs or not.
THEOREM TypeCorrect == Spec => []TypeOK
<1>1. Init => Typed
  BY TypeInit
<1>2. Typed /\ [Next]_vars => Typed'
  BY TypeHost, TypeApplication, TypeDevice DEF Next
<1>3. Typed => TypeOK
  BY TypedIs
<1>. QED BY <1>1, <1>2, <1>3, PTL DEF Spec

-----------------------------------------------------------------------------
(***************************************************************************)
(* Where no read times out, host and device take turns: a request is       *)
(* followed by its answer, and nothing is left when the call ends.         *)
(***************************************************************************)
Asking == {"selecting", "opening", "authenticating", "closing", "resetting"}
Handshakes == {r \in Responses : r.command = "SEQUENCE_HANDSHAKE"}

\* The request that the host waits for an answer to.
Fits(q) ==
  /\ call.pc = "selecting" => q.command = IF call.mode \in DesktopModes THEN "SELECT_DESKTOP" ELSE "SELECT_MODE"
  /\ call.pc = "opening" => q.command = "OPEN_SOCKET" /\ q.socket = number
  /\ call.pc = "authenticating" => q.command = "PASSWORD" /\ q.socket = number
  /\ call.pc = "closing" => q.command = "CLOSE_SOCKET" /\ q.socket = mode[call.mode].socket
  /\ call.pc = "resetting" => q.command = "RESET"

\* In Desktop mode one more packet follows the answer.
Follows(r) == call.pc = "selecting" /\ call.mode \in DesktopModes /\ r.command = "MODE_SELECTED"

\* The answer r is what the host will find, after a handshake or not.
Coming(r) ==
  \/ ~Follows(r) /\ (up = <<r>> \/ \E h \in Handshakes : up = <<h, r>>)
  \/ Follows(r) /\ \E g \in Handshakes : up = <<r, g>> \/ \E h \in Handshakes : up = <<h, r, g>>

InTurn ==
  /\ call.pc = "extra" => ~zero.hide /\ down = <<>> /\ \E g \in Handshakes : up = <<g>>
  /\ call.pc # "extra" => zero.hide
  /\ call.pc \in Asking => \/ up = <<>> /\ \E q \in Requests : down = <<q>> /\ Fits(q)
                           \/ down = <<>> /\ \E r \in Responses \ Handshakes : Coming(r)
  /\ call.pc \notin Asking \cup {"extra"} => down = <<>> /\ up = <<>>

LEMMA Tuples ==
  ASSUME NEW a, NEW b, NEW c
  PROVE  /\ Head(<<a>>) = a /\ Tail(<<a>>) = <<>> /\ <<a>> # <<>>
         /\ Head(<<a, b>>) = a /\ Tail(<<a, b>>) = <<b>> /\ <<a, b>> # <<>>
         /\ Head(<<a, b, c>>) = a /\ Tail(<<a, b, c>>) = <<b, c>> /\ <<a, b, c>> # <<>>
         /\ Append(<<>>, a) = <<a>>
OBVIOUS

LEMMA Joined ==
  ASSUME NEW a, NEW b, NEW c
  PROVE  /\ <<>> \o <<>> \o <<a>> = <<a>> /\ <<>> \o <<c>> \o <<a>> = <<c, a>>
         /\ <<>> \o <<>> \o <<a, b>> = <<a, b>> /\ <<>> \o <<c>> \o <<a, b>> = <<c, a, b>>
<1>. PICK S : S = {a, b, c}
  OBVIOUS
<1>1. /\ <<>> \in Seq(S) /\ <<a>> \in Seq(S) /\ <<c>> \in Seq(S) /\ <<a, b>> \in Seq(S)
      /\ <<c, a>> \in Seq(S) /\ <<c, a, b>> \in Seq(S)
  OBVIOUS
<1>2. /\ <<>> \o <<>> = <<>> /\ <<>> \o <<c>> = <<c>>
      /\ <<>> \o <<a>> = <<a>> /\ <<>> \o <<a, b>> = <<a, b>>
  BY <1>1, ConcatEmptySeq
<1>0. Append(<<c>>, a) = <<c, a>> /\ Append(<<a>>, b) = <<a, b>> /\ Append(<<c, a>>, b) = <<c, a, b>>
  <2>1. ASSUME NEW x \in S, NEW y \in S PROVE Append(<<x>>, y) = <<x, y>>
    <3>1. <<x>> \in Seq(S) /\ <<x, y>> \in Seq(S)
      OBVIOUS
    <3>2. Append(<<x>>, y) \in Seq(S) /\ Len(Append(<<x>>, y)) = 2
      BY <3>1, AppendProperties
    <3>3. \A i \in 1..2 : Append(<<x>>, y)[i] = <<x, y>>[i]
      BY <3>1, AppendProperties
    <3>. QED BY <3>1, <3>2, <3>3, SeqEqual
  <2>2. Append(<<c, a>>, b) = <<c, a, b>>
    <3>1. Append(<<c, a>>, b) \in Seq(S) /\ Len(Append(<<c, a>>, b)) = 3
      BY <1>1, AppendProperties
    <3>2. \A i \in 1..3 : Append(<<c, a>>, b)[i] = <<c, a, b>>[i]
      BY <1>1, AppendProperties
    <3>. QED BY <1>1, <3>1, <3>2, SeqEqual
  <2>. QED BY <2>1, <2>2
<1>3. <<c>> \o <<a>> = <<c, a>>
  <2>1. Append(<<c>>, a) = <<c>> \o <<a>>
    BY <1>1, AppendIsConcat
  <2>. QED BY <1>0, <2>1
<1>4. <<c>> \o <<a, b>> = <<c, a, b>>
  <2>1. <<c>> \o (<<a>> \o <<b>>) = (<<c>> \o <<a>>) \o <<b>>
    BY <1>1, ConcatAssociative
  <2>2. <<b>> \in Seq(S) /\ a \in S /\ b \in S
    OBVIOUS
  <2>3. Append(<<a>>, b) = <<a>> \o <<b>> /\ Append(<<c, a>>, b) = <<c, a>> \o <<b>>
    BY <1>1, <2>2, AppendIsConcat
  <2>. QED BY <1>0, <1>3, <2>1, <2>3
<1>. QED BY <1>2, <1>3, <1>4

\* The host reads: what it finds, and what is left.
LEMMA HostTurn ==
  ASSUME InTurn, up # <<>>
  PROVE  /\ down = <<>>
         /\ call.pc \in Asking \cup {"extra"}
         /\ call.pc = "extra" => Reply \in Handshakes /\ Tail(up) = <<>>
         /\ call.pc \in Asking => zero.hide
         /\ (call.pc \in Asking /\ Reply \in Handshakes) =>
               \E r \in Responses \ Handshakes :
                  \/ ~Follows(r) /\ Tail(up) = <<r>>
                  \/ Follows(r) /\ \E g \in Handshakes : Tail(up) = <<r, g>>
         /\ (call.pc \in Asking /\ Reply \notin Handshakes) =>
               /\ Reply \in Responses
               /\ \/ ~Follows(Reply) /\ Tail(up) = <<>>
                  \/ Follows(Reply) /\ \E g \in Handshakes : Tail(up) = <<g>>
<1>1. call.pc \in Asking \cup {"extra"}
  BY DEF InTurn
<1>2. CASE call.pc = "extra"
  <2>1. PICK g \in Handshakes : up = <<g>>
    BY <1>2 DEF InTurn
  <2>2. Reply = g /\ Tail(up) = <<>>
    BY <2>1, Tuples DEF Reply
  <2>. QED BY <1>1, <1>2, <2>2 DEF InTurn, Asking
<1>3. CASE call.pc \in Asking
  <2>1. call.pc # "extra"
    BY <1>3 DEF Asking
  <2>2. down = <<>> /\ zero.hide
    BY <1>3, <2>1 DEF InTurn
  <2>3. PICK r \in Responses \ Handshakes : Coming(r)
    BY <1>3 DEF InTurn
  <2>4. CASE up = <<r>> /\ ~Follows(r)
    <3>1. Reply = r /\ Tail(up) = <<>>
      BY <2>4, Tuples DEF Reply
    <3>. QED BY <1>1, <2>1, <2>2, <2>4, <3>1
  <2>5. ASSUME NEW h \in Handshakes, up = <<h, r>>, ~Follows(r)
        PROVE  Reply = h /\ Tail(up) = <<r>>
    BY <2>5, Tuples DEF Reply
  <2>6. ASSUME NEW g \in Handshakes, up = <<r, g>>, Follows(r)
        PROVE  Reply = r /\ Tail(up) = <<g>>
    BY <2>6, Tuples DEF Reply
  <2>7. ASSUME NEW g \in Handshakes, NEW h \in Handshakes, up = <<h, r, g>>, Follows(r)
        PROVE  Reply = h /\ Tail(up) = <<r, g>>
    BY <2>7, Tuples DEF Reply
  <2>8. \/ Reply = r /\ ~Follows(r) /\ Tail(up) = <<>>
        \/ Reply \in Handshakes /\ ~Follows(r) /\ Tail(up) = <<r>>
        \/ Reply = r /\ Follows(r) /\ \E g \in Handshakes : Tail(up) = <<g>>
        \/ Reply \in Handshakes /\ Follows(r) /\ \E g \in Handshakes : Tail(up) = <<r, g>>
    BY <2>3, <2>4, <2>5, <2>6, <2>7, Tuples DEF Coming, Reply
  <2>. QED BY <1>1, <2>1, <2>2, <2>8
<1>. QED BY <1>1, <1>2, <1>3

\* The host takes the answer it asked for; handshakes were hidden from it.
LEMMA Answered ==
  ASSUME Typed, InTurn, NEW pc \in Asking, RawReceive(pc)
  PROVE  /\ call.pc \in Asking /\ call.pc = pc /\ zero.hide /\ down = <<>>
         /\ Reply \in Responses /\ Reply.command # "SEQUENCE_HANDSHAKE"
         /\ ~Follows(Reply) => up' = <<>>
         /\ Follows(Reply) => \E g \in Handshakes : up' = <<g>>
<1>1. up # <<>> /\ up' = Tail(up) /\ call.pc = pc /\ ~Hidden
  BY DEF RawReceive
<1>2. zero.hide /\ Reply \in Responses
  BY <1>1, HostTurn, ReplyTyped
<1>3. Reply \notin Handshakes /\ Reply.command # "SEQUENCE_HANDSHAKE"
  BY <1>1, <1>2 DEF Hidden, Handshakes
<1>. QED BY <1>1, <1>2, <1>3, HostTurn

LEMMA Rests ==
  ASSUME zero'.hide, call'.pc \notin Asking \cup {"extra"}, down' = <<>>, up' = <<>>
  PROVE  InTurn'
BY DEF InTurn

\* The host asks for something.
LEMMA Sends ==
  ASSUME Typed, down = <<>>, NEW x \in Commands, NEW s \in Number, NEW h \in Hash, RawSend(x, s, h)
  PROVE  \E q \in Requests : /\ down' = <<q>> /\ q.command = x /\ q.socket = s
                             /\ q.sequence = zero.sequence
<1>1. PICK q : q = [command |-> x, socket |-> s, hash |-> h, sequence |-> zero.sequence]
  OBVIOUS
<1>2. q \in Requests /\ q.command = x /\ q.socket = s /\ q.sequence = zero.sequence
  BY <1>1 DEF Typed, ZeroRecord, Requests
<1>3. down' = <<q>>
  BY <1>1, Tuples DEF RawSend
<1>. QED BY <1>2, <1>3

LEMMA Asks ==
  ASSUME zero'.hide, call'.pc \in Asking, up' = <<>>, NEW q \in Requests, down' = <<q>>, Fits(q)'
  PROVE  InTurn'
BY DEF InTurn, Asking

LEMMA SelectAsks ==
  ASSUME Typed, zero.hide, down = <<>>, up' = <<>>, NEW c \in CallRecord, SelectMode(c)
  PROVE  InTurn'
<1>1. PICK z \in Number : z = 0
  BY DEF Number
<1>2. PICK x \in Commands : x = IF c.mode \in DesktopModes THEN "SELECT_DESKTOP" ELSE "SELECT_MODE"
  BY DEF Commands
<1>3. RawSend(x, z, NoHash) /\ zero' = [zero EXCEPT !.sequence = (@ + 1) % 256]
  BY <1>1, <1>2 DEF SelectMode, Send
<1>4. PICK q \in Requests : down' = <<q>> /\ q.command = x
  BY <1>3, NewTypes, Sends
<1>5. call'.pc = "selecting" /\ call'.mode = c.mode
  BY DEF SelectMode, Await, CallRecord
<1>6. zero'.hide
  BY <1>3 DEF Typed, ZeroRecord
<1>7. Fits(q)'
  BY <1>2, <1>4, <1>5 DEF Fits
<1>. QED BY <1>4, <1>5, <1>6, <1>7, Asks DEF Asking

LEMMA CloseAsks ==
  ASSUME Typed, zero.hide, down = <<>>, up' = <<>>, mode' = mode, NEW c \in CallRecord, Close(c)
  PROVE  InTurn'
<1>1. PICK s \in Number : s = mode[c.mode].socket
  BY DEF Typed, CallRecord, ModeRecord
<1>2. PICK x \in Commands : x = "CLOSE_SOCKET"
  BY DEF Commands
<1>3. RawSend(x, s, NoHash) /\ zero' = [zero EXCEPT !.sequence = (@ + 1) % 256]
  BY <1>1, <1>2 DEF Close, Send
<1>4. PICK q \in Requests : down' = <<q>> /\ q.command = x /\ q.socket = s
  BY <1>3, NewTypes, Sends
<1>5. call'.pc = "closing" /\ call'.mode = c.mode
  BY DEF Close, Await, CallRecord
<1>6. zero'.hide
  BY <1>3 DEF Typed, ZeroRecord
<1>7. Fits(q)'
  BY <1>1, <1>2, <1>4, <1>5 DEF Fits
<1>. QED BY <1>4, <1>5, <1>6, <1>7, Asks DEF Asking

\* The device answers: what it was asked, and what is then on its way.
LEMMA DeviceTurn ==
  ASSUME InTurn, down # <<>>
  PROVE  /\ call.pc \in Asking /\ zero.hide /\ up = <<>> /\ Tail(down) = <<>>
         /\ Fits(Request)
<1>1. call.pc \in Asking /\ call.pc # "extra" /\ zero.hide
  BY DEF InTurn, Asking
<1>2. up = <<>>
  BY <1>1 DEF InTurn
<1>3. PICK q \in Requests : down = <<q>> /\ Fits(q)
  BY <1>1, Tuples DEF InTurn
<1>. QED BY <1>1, <1>2, <1>3, Tuples DEF Request

LEMMA Follow ==
  ASSUME NEW r, UNCHANGED call
  PROVE  Follows(r)' <=> Follows(r)
BY DEF Follows

LEMMA HandshakeIs ==
  ASSUME Typed, down # <<>>
  PROVE  \A n \in Number : Handshake(n) \in Handshakes
<1>1. device \in DeviceRecord /\ 0 \in Number
  BY DEF Typed, Number
<1>2. PICK x \in Answers : x = "SEQUENCE_HANDSHAKE"
  BY DEF Answers
<1>3. \A n \in Number : Packet(x, n, device) \in Responses
  BY <1>1, PacketTyped
<1>4. \A n \in Number : Packet(x, n, device).command = x
  BY DEF Packet
<1>. QED BY <1>1, <1>2, <1>3, <1>4 DEF Handshake, Handshakes

LEMMA Answers1 ==
  ASSUME Typed, InTurn, down # <<>>, NEW d, NEW r \in Responses \ Handshakes, ~Follows(r),
         Answer(d, <<r>>)
  PROVE  /\ InTurn' /\ down' = <<>>
         /\ \E h \in Handshakes : up' \in {<<r>>, <<h, r>>}
<1>1. PICK h : h = Handshake(0)
  OBVIOUS
<1>2. h \in Handshakes
  BY <1>1, HandshakeIs DEF Number
<1>3. PICK b \in {<<>>, <<h>>} : up' = up \o b \o <<r>>
  BY <1>1 DEF Answer
<1>4. up' = <<r>> \/ up' = <<h, r>>
  <2>1. up' = <<>> \o <<>> \o <<r>> \/ up' = <<>> \o <<h>> \o <<r>>
    BY <1>3, DeviceTurn
  <2>. QED BY <2>1, Joined
<1>5. down' = <<>> /\ UNCHANGED <<zero, mode, call>>
  BY DeviceTurn DEF Answer
<1>6. Coming(r)'
  BY <1>2, <1>4, <1>5, Follow DEF Coming
<1>7. InTurn'
  BY <1>5, <1>6, DeviceTurn DEF InTurn, Asking
<1>. QED BY <1>2, <1>4, <1>5, <1>7

LEMMA Answers2 ==
  ASSUME Typed, InTurn, down # <<>>, NEW d, NEW r \in Responses \ Handshakes, Follows(r),
         NEW g \in Handshakes, Answer(d, <<r, g>>)
  PROVE  /\ InTurn' /\ down' = <<>>
         /\ \E h \in Handshakes : up' \in {<<r, g>>, <<h, r, g>>}
<1>1. PICK h : h = Handshake(0)
  OBVIOUS
<1>2. h \in Handshakes
  BY <1>1, HandshakeIs DEF Number
<1>3. PICK b \in {<<>>, <<h>>} : up' = up \o b \o <<r, g>>
  BY <1>1 DEF Answer
<1>4. up' = <<r, g>> \/ up' = <<h, r, g>>
  <2>1. up' = <<>> \o <<>> \o <<r, g>> \/ up' = <<>> \o <<h>> \o <<r, g>>
    BY <1>3, DeviceTurn
  <2>. QED BY <2>1, Joined
<1>5. down' = <<>> /\ UNCHANGED <<zero, mode, call>>
  BY DeviceTurn DEF Answer
<1>6. Coming(r)'
  BY <1>2, <1>4, <1>5, Follow DEF Coming
<1>7. InTurn'
  BY <1>5, <1>6, DeviceTurn DEF InTurn, Asking
<1>. QED BY <1>2, <1>4, <1>5, <1>7


-----------------------------------------------------------------------------
(***************************************************************************)
(* What the host knows of the tries.                                       *)
(***************************************************************************)
KnowsTries == zero.tries = device.tries /\ zero.seed = device.seed /\ device.pending # 0

TellsTries(r) == r.command \in {"PASSWORD_CHALLENGE", "PASSWORD_FAILED"} =>
                   r.tries = device.tries /\ r.seed = device.seed /\ device.pending # 0

\* A half open host knows the tries and the challenge of the device, but for
\* the time between the device's answer to a password and its arrival.
TriesKnown ==
  /\ zero.halfOpen => KnowsTries \/ (call.pc = "authenticating" /\ down = <<>>)
  /\ call.pc = "challenged" => zero.halfOpen
  /\ call.pc = "opening" => ~zero.halfOpen
  /\ call.pc = "authenticating" => zero.halfOpen /\ EnoughTries
  /\ \A i \in 1..Len(up) : TellsTries(up[i])

Lockstep == Typed /\ InTurn /\ TriesKnown

\* What the host believes of the password, and what is so, both stay.
SameBelief ==
  /\ zero'.halfOpen = zero.halfOpen /\ zero'.tries = zero.tries /\ zero'.seed = zero.seed
  /\ device' = device

NoNews == up' = <<>> \/ \E g \in Handshakes : up' = <<g>>

LEMMA NothingTold == NoNews => (\A i \in 1..Len(up) : TellsTries(up[i]))'
<1>1. CASE up' = <<>>
  <2>1. Len(up') = 0
    BY <1>1
  <2>. QED BY <2>1
<1>2. ASSUME NEW g \in Handshakes, up' = <<g>>
      PROVE  (\A i \in 1..Len(up) : TellsTries(up[i]))'
  <2>1. Len(up') = 1 /\ up'[1] = g
    BY <1>2
  <2>2. ASSUME NEW i \in 1..Len(up') PROVE TellsTries(up[i])'
    <3>1. up'[i] = g
      BY <2>1
    <3>2. g.command = "SEQUENCE_HANDSHAKE"
      BY DEF Handshakes
    <3>. QED BY <3>1, <3>2 DEF TellsTries
  <2>. QED BY <2>2
<1>. QED BY <1>1, <1>2 DEF NoNews

LEMMA KnownStays ==
  ASSUME TriesKnown, call.pc # "authenticating", SameBelief, NoNews,
         call'.pc \notin {"challenged", "opening", "authenticating"}
  PROVE  TriesKnown'
BY NothingTold DEF TriesKnown, KnowsTries, SameBelief

\* The answer taken, and what it says of the tries.
LEMMA Told ==
  ASSUME Lockstep, NEW pc \in Asking, RawReceive(pc)
  PROVE  TellsTries(Reply) /\ NoNews
<1>1. up # <<>>
  BY DEF RawReceive
<1>2. Reply = up[1] /\ 1 \in 1..Len(up)
  <2>1. up \in Seq(Responses)
    BY DEF Lockstep, Typed
  <2>. QED BY <1>1, <2>1 DEF Reply
<1>. QED BY <1>2, Answered DEF Lockstep, TriesKnown, NoNews

\* Where the host sends something, or the call ends.
LEMMA SendsSame ==
  ASSUME Typed, NEW x \in Commands, NEW s \in Number, Send(x, s), device' = device
  PROVE  SameBelief /\ zero'.hide = zero.hide
BY DEF Typed, ZeroRecord, Send, SameBelief

LEMMA SelectStep ==
  ASSUME Lockstep, zero.hide, down = <<>>, up' = <<>>, call.pc # "authenticating",
         device' = device, NEW c \in CallRecord, SelectMode(c)
  PROVE  InTurn' /\ TriesKnown'
<1>1. PICK z \in Number : z = 0
  BY DEF Number
<1>2. PICK x \in Commands : x = IF c.mode \in DesktopModes THEN "SELECT_DESKTOP" ELSE "SELECT_MODE"
  BY DEF Commands
<1>3. SameBelief
  BY <1>1, <1>2, SendsSame DEF SelectMode, Lockstep
<1>4. call'.pc = "selecting"
  BY DEF SelectMode, Await, CallRecord
<1>. QED BY <1>3, <1>4, SelectAsks, KnownStays DEF Lockstep, NoNews

LEMMA CloseStep ==
  ASSUME Lockstep, zero.hide, down = <<>>, up' = <<>>, call.pc # "authenticating",
         UNCHANGED <<mode, device>>, NEW c \in CallRecord, Close(c)
  PROVE  InTurn' /\ TriesKnown'
<1>1. PICK s \in Number : s = mode[c.mode].socket
  BY DEF Lockstep, Typed, CallRecord, ModeRecord
<1>2. PICK x \in Commands : x = "CLOSE_SOCKET"
  BY DEF Commands
<1>3. SameBelief
  BY <1>1, <1>2, SendsSame DEF Close, Lockstep
<1>4. call'.pc = "closing"
  BY DEF Close, Await, CallRecord
<1>. QED BY <1>3, <1>4, CloseAsks, KnownStays DEF Lockstep, NoNews

\* The call ends, or goes on to the next thing without asking.
LEMMA RestStep ==
  ASSUME Lockstep, zero'.hide, down' = <<>>, up' = <<>>, call.pc # "authenticating",
         SameBelief, call'.pc \in {"idle", "crashed", "selected"}
  PROVE  InTurn' /\ TriesKnown'
<1>1. InTurn'
  BY Rests DEF Asking
<1>2. TriesKnown'
  BY KnownStays DEF NoNews, Lockstep
<1>. QED BY <1>1, <1>2

LEMMA CloseReturnsStep ==
  ASSUME Lockstep, zero.hide, down = <<>>, up' = <<>>, call.pc # "authenticating",
         device' = device, CloseReturns
  PROVE  InTurn' /\ TriesKnown'
<1>1. CASE SelectMode(call)
  BY <1>1, SelectStep DEF Lockstep, Typed
<1>2. CASE call' = NoCall /\ UNCHANGED <<zero, down>>
  BY <1>2, RestStep DEF NoCall, SameBelief
<1>. QED BY <1>1, <1>2 DEF CloseReturns

LEMMA StepHost == MaxTimeouts = 0 /\ Lockstep /\ Host => InTurn' /\ TriesKnown'
<1> SUFFICES ASSUME MaxTimeouts = 0, Lockstep, Host PROVE InTurn' /\ TriesKnown'
  OBVIOUS
<1>0. call \in CallRecord /\ zero \in ZeroRecord /\ up \in Seq(Responses)
  BY DEF Lockstep, Typed
<1>1. CASE SequencePacket
  <2>1. up # <<>> /\ up' = Tail(up) /\ Hidden /\ UNCHANGED <<zero, mode, call, down, device>>
    BY <1>1 DEF SequencePacket
  <2>2. call.pc \in Asking /\ call.pc # "extra" /\ down = <<>> /\ Reply \in Handshakes
    BY <2>1, HostTurn, ReplyTyped DEF Lockstep, InTurn, Hidden, Asking, Handshakes
  <2>3. PICK r \in Responses \ Handshakes :
           \/ ~Follows(r) /\ up' = <<r>>
           \/ Follows(r) /\ \E g \in Handshakes : up' = <<r, g>>
    BY <2>1, <2>2, HostTurn DEF Lockstep
  <2>4. Coming(r)'
    BY <2>1, <2>3, Follow DEF Coming
  <2>5. InTurn'
    BY <2>1, <2>2, <2>4 DEF Lockstep, InTurn, Asking
  <2>6. (\A i \in 1..Len(up) : TellsTries(up[i]))'
    <3>1. ASSUME NEW i \in 1..Len(up') PROVE TellsTries(up[i])'
      <4>1. i + 1 \in 1..Len(up) /\ up'[i] = up[i + 1]
        BY <1>0, <2>1, HeadTailProperties
      <4>. QED BY <2>1, <4>1 DEF Lockstep, TriesKnown, TellsTries
    <3>. QED BY <3>1
  <2>7. TriesKnown'
    BY <2>1, <2>6 DEF Lockstep, TriesKnown, KnowsTries, EnoughTries
  <2>. QED BY <2>5, <2>7
<1>2. CASE check_sequence
  BY <1>2, Answered DEF check_sequence, Lockstep, Asking
<1>3. CASE mode_selected
  <2>1. RawReceive("selecting") /\ "selecting" \in Asking /\ UNCHANGED <<down, device>>
    BY <1>3 DEF mode_selected, Asking
  <2>2. /\ call.pc = "selecting" /\ zero.hide /\ down' = <<>> /\ NoNews
        /\ ~Follows(Reply) => up' = <<>>
        /\ Follows(Reply) => \E g \in Handshakes : up' = <<g>>
    BY <2>1, Answered, Told DEF Lockstep
  <2>3. CASE call' = NoCall /\ UNCHANGED zero /\ ~Follows(Reply)
    BY <2>1, <2>2, <2>3, RestStep DEF NoCall, SameBelief
  <2>4. CASE Selected /\ UNCHANGED zero /\ ~Follows(Reply)
    <3>1. call'.pc = "selected"
      BY <1>0, <2>4 DEF Selected, Await, CallRecord
    <3>. QED BY <2>1, <2>2, <2>4, <3>1, RestStep DEF SameBelief
  <2>5. CASE zero' = [zero EXCEPT !.hide = FALSE] /\ Await(call, "extra") /\ Follows(Reply)
    <3>1. call'.pc = "extra" /\ ~zero'.hide /\ SameBelief
      BY <1>0, <2>1, <2>5 DEF Await, CallRecord, ZeroRecord, SameBelief
    <3>2. InTurn'
      BY <2>2, <2>5, <3>1 DEF InTurn, Asking
    <3>. QED BY <2>2, <3>1, <3>2, KnownStays DEF Lockstep
  <2>. QED BY <1>3, <2>2, <2>3, <2>4, <2>5 DEF mode_selected, Follows
<1>4. CASE extra_packet
  <2>1. call.pc = "extra" /\ down = <<>> /\ up' = <<>>
    BY <1>4, HostTurn DEF extra_packet, RawReceive, Lockstep, Asking
  <2>2. zero'.hide /\ SameBelief /\ down' = <<>>
    BY <1>0, <1>4, <2>1 DEF extra_packet, ZeroRecord, SameBelief
  <2>3. call'.pc = "selected"
    BY <1>0, <1>4 DEF extra_packet, Selected, Await, CallRecord
  <2>. QED BY <2>1, <2>2, <2>3, RestStep
<1>5. CASE SendOpen
  <2>1. call.pc = "selected" /\ ~zero.halfOpen /\ down = <<>> /\ up' = <<>> /\ zero.hide
    BY <1>5 DEF SendOpen, Lockstep, InTurn, Asking
  <2>2. zero'.hide /\ ~zero'.halfOpen
    BY <1>0, <1>5, <2>1 DEF SendOpen, ZeroRecord
  <2>3. call'.pc = "opening" /\ call'.mode = call.mode
    BY <1>0, <1>5 DEF SendOpen, Await, CallRecord
  <2>4. PICK q \in Requests : down' = <<q>> /\ q.command = "OPEN_SOCKET" /\ q.socket = number
    <3>1. PICK x \in Commands : x = "OPEN_SOCKET"
      BY DEF Commands
    <3>2. PICK n \in Number : n = number
      BY OwnTyped DEF Lockstep
    <3>3. RawSend(x, n, NoHash)
      BY <1>5, <3>1, <3>2 DEF SendOpen
    <3>. QED BY <2>1, <3>1, <3>2, <3>3, Sends, NewTypes DEF Lockstep
  <2>5. Fits(q)'
    BY <1>5, <2>3, <2>4 DEF Fits, SendOpen, number
  <2>6. InTurn'
    BY <2>1, <2>2, <2>3, <2>4, <2>5, Asks DEF Asking
  <2>. QED BY <2>1, <2>2, <2>3, <2>6, NothingTold DEF TriesKnown, NoNews
<1>6. CASE still_half_open
  <2>1. call.pc = "selected" /\ zero.halfOpen /\ down = <<>> /\ up = <<>> /\ zero.hide
    BY <1>6 DEF still_half_open, Lockstep, InTurn, Asking
  <2>2. call'.pc = "challenged" /\ UNCHANGED <<zero, mode, down, up, device>>
    BY <1>0, <1>6 DEF still_half_open, Await, CallRecord
  <2>3. InTurn'
    BY <2>1, <2>2, Rests DEF Asking
  <2>. QED BY <2>1, <2>2, <2>3, NothingTold DEF Lockstep, TriesKnown, KnowsTries, NoNews
<1>7. ASSUME NEW pc \in {"opening", "authenticating"}, Receive(pc)
      PROVE  /\ call.pc = pc /\ zero.hide /\ down = <<>> /\ up' = <<>> /\ TellsTries(Reply) /\ NoNews
  BY <1>7, Answered, Told DEF Receive, Lockstep, Asking, Follows
<1>8. /\ Challenged.hide = zero.hide /\ Challenged.halfOpen
      /\ Challenged.tries = Reply.tries /\ Challenged.seed = Reply.seed
  BY <1>0 DEF Challenged, ZeroRecord
<1>9. CASE password_challenge
  <2>1. /\ call.pc = "opening" /\ zero.hide /\ down' = <<>> /\ up' = <<>> /\ TellsTries(Reply) /\ NoNews
        /\ device' = device /\ zero' = Challenged
    BY <1>7, <1>9 DEF password_challenge
  <2>2. call'.pc = "challenged"
    BY <1>0, <1>9 DEF password_challenge, Await, CallRecord
  <2>3. KnowsTries'
    BY <1>8, <1>9, <2>1 DEF KnowsTries, TellsTries, password_challenge
  <2>4. InTurn'
    BY <1>8, <2>1, <2>2, Rests DEF Asking
  <2>. QED BY <1>8, <2>1, <2>2, <2>3, <2>4, NothingTold DEF TriesKnown
<1>10. CASE refuse_password
  <2>1. /\ call.pc = "challenged" /\ UNCHANGED <<zero, down, up, device>> /\ call'.pc = "idle"
        /\ zero.hide /\ down = <<>> /\ up = <<>>
    BY <1>10 DEF refuse_password, BadPassword, NoCall, Lockstep, InTurn, Asking
  <2>. QED BY <2>1, RestStep DEF SameBelief
<1>11. CASE SendPasswordHash
  <2>1. /\ call.pc = "challenged" /\ zero.halfOpen /\ EnoughTries /\ down = <<>> /\ up' = <<>>
        /\ zero.hide /\ UNCHANGED <<zero, mode, device>>
    BY <1>11 DEF SendPasswordHash, Lockstep, InTurn, TriesKnown, Asking
  <2>2. call'.pc = "authenticating" /\ call'.mode = call.mode
    BY <1>0, <1>11 DEF SendPasswordHash, Await, CallRecord
  <2>3. PICK h \in Hash : h = [seed |-> zero.seed, password |-> call.password]
    BY <1>0 DEF ZeroRecord, CallRecord, Hash
  <2>4. PICK q \in Requests : down' = <<q>> /\ q.command = "PASSWORD" /\ q.socket = number
    <3>1. PICK x \in Commands : x = "PASSWORD"
      BY DEF Commands
    <3>2. PICK n \in Number : n = number
      BY OwnTyped DEF Lockstep
    <3>3. RawSend(x, n, h)
      BY <1>11, <2>3, <3>1, <3>2 DEF SendPasswordHash
    <3>. QED BY <2>1, <3>1, <3>2, <3>3, Sends DEF Lockstep
  <2>5. Fits(q)'
    BY <2>1, <2>2, <2>4 DEF Fits, number
  <2>6. InTurn'
    BY <2>1, <2>2, <2>4, <2>5, Asks DEF Asking
  <2>. QED BY <2>1, <2>2, <2>6, NothingTold DEF Lockstep, TriesKnown, KnowsTries, EnoughTries, NoNews
<1>12. CASE password_failed
  <2>1. /\ call.pc = "authenticating" /\ zero.hide /\ down' = <<>> /\ up' = <<>> /\ TellsTries(Reply) /\ NoNews
        /\ device' = device /\ zero' = Challenged /\ call'.pc = "idle"
    BY <1>7, <1>12 DEF password_failed, BadPassword, NoCall
  <2>2. KnowsTries'
    BY <1>8, <1>12, <2>1 DEF KnowsTries, TellsTries, password_failed
  <2>3. InTurn'
    BY <1>8, <2>1, Rests DEF Asking
  <2>. QED BY <2>1, <2>2, <2>3, NothingTold DEF TriesKnown
<1>13. CASE opened_socket
  <2>1. /\ call.pc = "opening" /\ zero.hide /\ down' = <<>> /\ up' = <<>>
        /\ UNCHANGED <<zero, device>> /\ call'.pc = "idle"
    BY <1>7, <1>13 DEF opened_socket, Opened, NoCall
  <2>. QED BY <2>1, RestStep DEF SameBelief
<1>14. CASE password_accepted
  <2>1. /\ zero.hide /\ down' = <<>> /\ up' = <<>> /\ NoNews /\ call'.pc = "idle"
    BY <1>7, <1>14 DEF password_accepted, Opened, NoCall
  <2>2. zero'.hide /\ ~zero'.halfOpen
    BY <1>0, <1>14, <2>1 DEF password_accepted, ZeroRecord
  <2>3. InTurn'
    BY <2>1, <2>2, Rests DEF Asking
  <2>. QED BY <2>1, <2>2, <2>3, NothingTold DEF TriesKnown
<1>15. ASSUME NEW pc \in {"closing", "resetting"}, RawReceive(pc)
       PROVE  call.pc = pc /\ call.pc # "authenticating" /\ zero.hide /\ down = <<>> /\ up' = <<>>
  BY <1>15, Answered DEF Lockstep, Asking, Follows
<1>16. CASE closed_socket
  <2>1. /\ call.pc = "closing" /\ zero.hide /\ down = <<>> /\ up' = <<>> /\ device' = device
    BY <1>15, <1>16 DEF closed_socket, Receive
  <2>2. CASE Send("RESET", 0) /\ Await(call, "resetting") /\ UNCHANGED mode
    <3>1. PICK z \in Number : z = 0
      BY DEF Number
    <3>2. PICK x \in Commands : x = "RESET"
      BY DEF Commands
    <3>3. Send(x, z)
      BY <2>2, <3>1, <3>2
    <3>4. SameBelief /\ zero'.hide
      BY <2>1, <3>3, SendsSame DEF Lockstep
    <3>5. PICK q \in Requests : down' = <<q>> /\ q.command = x
      BY <2>1, <3>3, Sends, NewTypes DEF Send, Lockstep
    <3>6. call'.pc = "resetting"
      BY <1>0, <2>2 DEF Await, CallRecord
    <3>7. Fits(q)'
      BY <3>2, <3>5, <3>6 DEF Fits
    <3>8. InTurn'
      BY <2>1, <3>4, <3>5, <3>6, <3>7, Asks DEF Asking
    <3>. QED BY <2>1, <3>4, <3>6, <3>8, KnownStays DEF Lockstep, NoNews
  <2>3. CASE CloseReturns
    BY <2>1, <2>3, CloseReturnsStep
  <2>. QED BY <1>16, <2>2, <2>3 DEF closed_socket
<1>17. CASE bad_closed \/ missing_reset_reply
  <2>1. /\ call.pc # "authenticating" /\ zero.hide /\ down = <<>> /\ up' = <<>>
        /\ UNCHANGED <<zero, down, device>> /\ call'.pc = "idle"
    BY <1>15, <1>17 DEF bad_closed, missing_reset_reply, Receive, CloseThrows, NoCall
  <2>. QED BY <2>1, RestStep DEF SameBelief
<1>18. CASE reset_reply
  <2>1. /\ call.pc = "resetting" /\ zero.hide /\ down = <<>> /\ up' = <<>> /\ device' = device
    BY <1>15, <1>18 DEF reset_reply
  <2>. QED BY <1>18, <2>1, CloseReturnsStep DEF reset_reply
<1>19. ~timeout
  BY DEF timeout, Lockstep, Typed
<1>. QED BY <1>1, <1>2, <1>3, <1>4, <1>5, <1>6, <1>9, <1>10, <1>11, <1>12, <1>13, <1>14,
            <1>16, <1>17, <1>18, <1>19 DEF Host

LEMMA StepApplication == Lockstep /\ (Application \/ UNCHANGED vars) => InTurn' /\ TriesKnown'
<1> SUFFICES ASSUME Lockstep, Application \/ UNCHANGED vars PROVE InTurn' /\ TriesKnown'
  OBVIOUS
<1>0. call \in CallRecord /\ zero \in ZeroRecord
  BY DEF Lockstep, Typed
<1>1. ASSUME call.pc = "idle"
      PROVE  zero.hide /\ down = <<>> /\ up = <<>> /\ call.pc # "authenticating"
  BY <1>1 DEF Lockstep, InTurn, Asking
<1>2. \A op \in {"open", "retry", "destroy"} : \A m \in Modes : \A p \in Passwords :
        TheCall(op, m, p) \in CallRecord
  BY NewTypes DEF TheCall, CallRecord
<1>3. ASSUME NEW m \in Modes, NEW p \in Passwords, Open(m, p) PROVE InTurn' /\ TriesKnown'
  <2> DEFINE c == TheCall("open", m, p)
  <2>1. c \in CallRecord
    BY <1>2
  <2>2. call.pc = "idle" /\ up' = up /\ device' = device
    BY <1>3 DEF Open, Begin
  <2>3. CASE SelectMode(c)
    BY <1>1, <2>1, <2>2, <2>3, SelectStep
  <2>4. CASE Close(c) /\ UNCHANGED mode
    BY <1>1, <2>1, <2>2, <2>4, CloseStep
  <2>5. CASE call' = [c EXCEPT !.pc = "crashed"] /\ UNCHANGED <<zero, mode, down>>
    <3>1. call'.pc = "crashed"
      BY <2>1, <2>5 DEF CallRecord
    <3>. QED BY <1>1, <2>2, <2>5, <3>1, RestStep DEF SameBelief
  <2>. QED BY <1>3, <2>3, <2>4, <2>5 DEF Open, c
<1>4. ASSUME NEW m \in Modes, NEW p \in Passwords, RetryPassword(m, p) PROVE InTurn' /\ TriesKnown'
  <2>1. call'.pc = "selected"
    BY <1>2, <1>4 DEF RetryPassword, Await, CallRecord
  <2>2. call.pc = "idle" /\ UNCHANGED <<zero, down, up, device>>
    BY <1>4 DEF RetryPassword, Begin
  <2>. QED BY <1>1, <2>1, <2>2, RestStep DEF SameBelief
<1>5. ASSUME NEW m \in Modes, Destroy(m) PROVE InTurn' /\ TriesKnown'
  <2>1. call.pc = "idle" /\ UNCHANGED <<up, device>>
    BY <1>5 DEF Destroy, Begin
  <2>2. CASE Close(TheCall("destroy", m, "none")) /\ UNCHANGED mode
    <3>1. TheCall("destroy", m, "none") \in CallRecord
      BY <1>2 DEF Passwords
    <3>. QED BY <1>1, <2>1, <2>2, <3>1, CloseStep
  <2>3. CASE UNCHANGED <<zero, call, down>>
    BY <1>1, <2>1, <2>3, RestStep DEF SameBelief
  <2>. QED BY <1>5, <2>2, <2>3 DEF Destroy
<1>6. CASE SetResetOnClose
  <2>1. call.pc = "idle" /\ UNCHANGED <<call, down, up, device>>
    BY <1>6 DEF SetResetOnClose
  <2>2. SameBelief /\ zero'.hide = zero.hide
    BY <1>0, <1>6, <2>1 DEF SetResetOnClose, SameBelief, ZeroRecord
  <2>. QED BY <1>1, <2>1, <2>2, RestStep
<1>7. CASE at_rest \/ UNCHANGED vars
  <2>1. UNCHANGED <<zero, mode, call, down, up, device>>
    BY <1>7 DEF at_rest, vars
  <2>2. InTurn'
    BY <2>1 DEF Lockstep, InTurn, Fits, Coming, Follows, number
  <2>3. TriesKnown'
    BY <2>1 DEF Lockstep, TriesKnown, TellsTries, KnowsTries, EnoughTries
  <2>. QED BY <2>2, <2>3
<1>. QED BY <1>3, <1>4, <1>5, <1>6, <1>7 DEF Application

SameChallenge(d) == d.tries = device.tries /\ d.seed = device.seed /\ d.pending = device.pending

\* The device answers with r: what r tells is so, and who else knew still does.
LEMMA TellingAnswer ==
  ASSUME Lockstep, NEW d, NEW r \in Responses, TellsTries(r)', call' = call, zero' = zero, down' = <<>>,
         SameChallenge(d) \/ call.pc \in {"opening", "authenticating"}, device' = d,
         \E h \in Handshakes : \/ up' \in {<<r>>, <<h, r>>}
                               \/ \E g \in Handshakes : up' \in {<<r, g>>, <<h, r, g>>}
  PROVE  TriesKnown'
<1>1. ASSUME NEW h \in Handshakes PROVE TellsTries(h)'
  BY DEF TellsTries, Handshakes
<1>2. PICK h \in Handshakes : \/ up' \in {<<r>>, <<h, r>>}
                               \/ \E g \in Handshakes : up' \in {<<r, g>>, <<h, r, g>>}
  OBVIOUS
<1>3. \A i \in 1..Len(up') : up'[i] = r \/ up'[i] \in Handshakes
  <2>1. CASE up' = <<r>>
    BY <2>1
  <2>2. CASE up' = <<h, r>>
    BY <2>2
  <2>3. ASSUME NEW g \in Handshakes, up' = <<r, g>>
        PROVE  \A i \in 1..Len(up') : up'[i] = r \/ up'[i] \in Handshakes
    BY <2>3
  <2>4. ASSUME NEW g \in Handshakes, up' = <<h, r, g>>
        PROVE  \A i \in 1..Len(up') : up'[i] = r \/ up'[i] \in Handshakes
    BY <2>4
  <2>. QED BY <1>2, <2>1, <2>2, <2>3, <2>4
<1>4. ASSUME NEW i \in 1..Len(up') PROVE TellsTries(up[i])'
  BY <1>1, <1>3 DEF TellsTries
<1>. QED BY <1>4 DEF Lockstep, TriesKnown, KnowsTries, EnoughTries, SameChallenge

LEMMA AnswerStep ==
  ASSUME Lockstep, down # <<>>, NEW d \in DeviceRecord, NEW x \in Answers, x # "SEQUENCE_HANDSHAKE",
         NEW s \in Number, NEW e \in DeviceRecord, e.tries = d.tries, e.seed = d.seed,
         ~Follows(Packet(x, s, e)), Answer(d, <<Packet(x, s, e)>>),
         SameChallenge(d) \/ call.pc \in {"opening", "authenticating"},
         x \in {"PASSWORD_CHALLENGE", "PASSWORD_FAILED"} => d.pending # 0
  PROVE  InTurn' /\ TriesKnown'
<1>1. PICK r : r = Packet(x, s, e)
  OBVIOUS
<1>2. r \in Responses /\ r.command = x /\ r.tries = d.tries /\ r.seed = d.seed
  BY <1>1, PacketTyped DEF Packet, Lockstep
<1>3. r \in Responses \ Handshakes
  BY <1>2 DEF Handshakes
<1>4. Answer(d, <<r>>) /\ ~Follows(r)
  BY <1>1
<1>5. InTurn' /\ down' = <<>> /\ \E h \in Handshakes : up' \in {<<r>>, <<h, r>>}
  BY <1>3, <1>4, Answers1 DEF Lockstep
<1>6. device' = d /\ zero' = zero /\ call' = call
  BY <1>4 DEF Answer
<1>7. TellsTries(r)'
  BY <1>2, <1>6 DEF TellsTries
<1>. QED BY <1>2, <1>5, <1>6, <1>7, TellingAnswer

LEMMA StepDevice == Lockstep /\ Device => InTurn' /\ TriesKnown'
<1> SUFFICES ASSUME Lockstep, Device PROVE InTurn' /\ TriesKnown'
  OBVIOUS
<1>0. device \in DeviceRecord /\ Typed /\ InTurn /\ Sockets \subseteq Number /\ 0 \in Number
  BY DEF Lockstep, Typed, Number
<1>1. down # <<>>
  BY DEF Device, answer_select, answer_open, answer_password, answer_close, answer_reset, refuse, Asked
<1>2. call.pc \in Asking /\ Fits(Request) /\ Request.socket \in Number
  BY <1>0, <1>1, DeviceTurn, NewDevice
<1>3. \A x \in Answers : \A s \in Number : \A d : Follows(Packet(x, s, d)) =>
        x = "MODE_SELECTED" /\ Request.command = "SELECT_DESKTOP"
  BY <1>2 DEF Follows, Fits, Packet
<1>4. CASE answer_select
  <2> PICK s \in Sockets \ device.open :
         \/ Asked("SELECT_MODE") /\ Answer(device, <<Packet("MODE_SELECTED", s, device)>>)
         \/ /\ Asked("SELECT_DESKTOP")
            /\ \E n \in {0, s} : Answer(device, <<Packet("MODE_SELECTED", s, device), Handshake(n)>>)
    BY <1>4 DEF answer_select
  <2>0. PICK x \in Answers : x = "MODE_SELECTED"
    BY DEF Answers
  <2>1. CASE Asked("SELECT_MODE") /\ Answer(device, <<Packet("MODE_SELECTED", s, device)>>)
    <3>1. ~Follows(Packet(x, s, device)) /\ SameChallenge(device)
      BY <1>0, <1>3, <2>1 DEF Asked, SameChallenge
    <3>2. Answer(device, <<Packet(x, s, device)>>)
      BY <2>0, <2>1
    <3>. QED BY <1>0, <1>1, <2>0, <3>1, <3>2, AnswerStep
  <2>2. ASSUME Asked("SELECT_DESKTOP"), NEW n \in {0, s},
               Answer(device, <<Packet("MODE_SELECTED", s, device), Handshake(n)>>)
        PROVE  InTurn' /\ TriesKnown'
    <3>1. PICK g : g = Handshake(n)
      OBVIOUS
    <3>2. g \in Handshakes
      BY <1>0, <1>1, <3>1, HandshakeIs
    <3>3. PICK r : r = Packet(x, s, device)
      OBVIOUS
    <3>4. r \in Responses /\ r.command = x
      BY <1>0, <1>1, <3>3, PacketTyped DEF Packet
    <3>5. r \in Responses \ Handshakes
      BY <2>0, <3>4 DEF Handshakes
    <3>6. call.pc = "selecting" /\ call.mode \in DesktopModes
      BY <1>2, <2>2 DEF Asked, Fits, Asking
    <3>7. Follows(r)
      BY <2>0, <3>4, <3>6 DEF Follows
    <3>8. Answer(device, <<r, g>>)
      BY <2>0, <2>2, <3>1, <3>3
    <3>9. InTurn' /\ down' = <<>> /\ \E h \in Handshakes : up' \in {<<r, g>>, <<h, r, g>>}
      BY <1>0, <1>1, <3>2, <3>5, <3>7, <3>8, Answers2
    <3>10. device' = device /\ zero' = zero /\ call' = call /\ TellsTries(r)' /\ SameChallenge(device)
      BY <2>0, <3>4, <3>8 DEF Answer, TellsTries, SameChallenge
    <3>. QED BY <3>2, <3>4, <3>9, <3>10, TellingAnswer
  <2>. QED BY <2>1, <2>2
<1>5. CASE answer_open
  <2>1. Request.command = "OPEN_SOCKET" /\ call.pc = "opening" /\ Request.socket # 0
    BY <1>2, <1>5, SocketsAssumption DEF answer_open, Asked, Fits, Asking
  <2>2. ASSUME NEW d \in DeviceRecord, NEW x \in Answers \ {"SEQUENCE_HANDSHAKE", "MODE_SELECTED"},
               Answer(d, <<Packet(x, Request.socket, d)>>), x = "PASSWORD_CHALLENGE" => d.pending # 0,
               x # "PASSWORD_FAILED"
        PROVE  InTurn' /\ TriesKnown'
    BY <1>1, <1>2, <1>3, <2>1, <2>2, AnswerStep
  <2>3. PICK d \in DeviceRecord : d = [device EXCEPT !.seed = 1 - @, !.pending = Request.socket]
    BY <1>0, <1>1, NewDevice
  <2>4. d.pending # 0
    BY <1>0, <2>1, <2>3 DEF DeviceRecord
  <2>5. PICK e \in DeviceRecord : e = [device EXCEPT !.open = @ \cup {Request.socket}]
    BY <1>0, <1>1, <1>5, NewDevice DEF answer_open
  <2>6. {"PASSWORD_CHALLENGE", "OPENED_SOCKET"} \subseteq Answers \ {"SEQUENCE_HANDSHAKE", "MODE_SELECTED"}
    BY DEF Answers
  <2>7. \/ Answer(d, <<Packet("PASSWORD_CHALLENGE", Request.socket, d)>>)
        \/ Answer(e, <<Packet("OPENED_SOCKET", Request.socket, e)>>)
    BY <1>5, <2>3, <2>5 DEF answer_open
  <2>. QED BY <2>2, <2>4, <2>6, <2>7
<1>6. CASE answer_password
  <2>1. /\ Request.command = "PASSWORD" /\ call.pc = "authenticating" /\ device.tries > 0
        /\ device.pending # 0 /\ Request.socket \in Sockets
    BY <1>0, <1>2, <1>6 DEF answer_password, Asked, Fits, Asking, DeviceRecord, Number
  <2>2. ASSUME NEW d \in DeviceRecord, NEW x \in Answers \ {"SEQUENCE_HANDSHAKE", "MODE_SELECTED"},
               Answer(d, <<Packet(x, Request.socket, d)>>), x = "PASSWORD_FAILED" => d.pending # 0,
               x # "PASSWORD_CHALLENGE"
        PROVE  InTurn' /\ TriesKnown'
    BY <1>1, <1>2, <1>3, <2>1, <2>2, AnswerStep
  <2>3. PICK d \in DeviceRecord : d = [device EXCEPT !.seed = 1 - @, !.tries = @ - 1]
    BY <1>0, <1>1, <2>1, NewDevice
  <2>4. d.pending # 0
    BY <1>0, <2>1, <2>3 DEF DeviceRecord
  <2>5. PICK e \in DeviceRecord :
          e = [device EXCEPT !.open = @ \cup {Request.socket}, !.pending = 0, !.tries = Tries]
    BY <1>0, <1>1, <2>1, NewDevice
  <2>6. {"PASSWORD_FAILED", "OPENED_SOCKET"} \subseteq Answers \ {"SEQUENCE_HANDSHAKE", "MODE_SELECTED"}
    BY DEF Answers
  <2>7. \/ Answer(d, <<Packet("PASSWORD_FAILED", Request.socket, d)>>)
        \/ Answer(e, <<Packet("OPENED_SOCKET", Request.socket, e)>>)
    BY <1>6, <2>3, <2>5 DEF answer_password
  <2>. QED BY <2>2, <2>4, <2>6, <2>7
<1>7. CASE answer_close
  <2>1. PICK d \in DeviceRecord : d = [device EXCEPT !.open = @ \ {Request.socket}]
    BY <1>0, <1>1, NewDevice
  <2>2. SameChallenge(d)
    BY <1>0, <2>1 DEF SameChallenge, DeviceRecord
  <2>3. PICK x \in Answers : x = "CLOSED_SOCKET"
    BY DEF Answers
  <2>4. Answer(d, <<Packet(x, Request.socket, device)>>)
    BY <1>7, <2>1, <2>3 DEF answer_close
  <2>. QED BY <1>0, <1>1, <1>2, <1>3, <2>2, <2>3, <2>4, AnswerStep DEF SameChallenge
<1>8. CASE answer_reset \/ refuse
  <2>1. PICK x \in {"RESET_REPLY", "REFUSED"}, n \in Number : Answer(device, <<Packet(x, n, device)>>)
    BY <1>0, <1>2, <1>8 DEF answer_reset, refuse
  <2>2. x \in Answers /\ SameChallenge(device)
    BY DEF Answers, SameChallenge
  <2>. QED BY <1>0, <1>1, <1>3, <2>1, <2>2, AnswerStep
<1>. QED BY <1>4, <1>5, <1>6, <1>7, <1>8 DEF Device

LEMMA StartsInTurn == Init => InTurn /\ TriesKnown
<1> SUFFICES ASSUME Init PROVE InTurn /\ TriesKnown
  OBVIOUS
<1>1. call.pc = "idle" /\ zero.hide /\ ~zero.halfOpen /\ down = <<>> /\ up = <<>> /\ Len(up) = 0
  BY DEF Init, NoCall
<1>. QED BY <1>1 DEF InTurn, TriesKnown, Asking

LEMMA PasswordsWithTries == Lockstep => TriesGuard
<1> SUFFICES ASSUME Lockstep, NEW i \in OnTheWay("PASSWORD") PROVE device.tries >= MinTries
  BY DEF TriesGuard
<1>1. down # <<>> /\ down[i].command = "PASSWORD" /\ i \in 1..Len(down)
  BY DEF OnTheWay
<1>2. call.pc \in Asking /\ call.pc # "extra" /\ up = <<>>
  BY <1>1, DeviceTurn DEF Lockstep, Asking
<1>3. PICK q \in Requests : down = <<q>> /\ Fits(q)
  BY <1>1, <1>2 DEF Lockstep, InTurn
<1>4. down[i] = q
  BY <1>1, <1>3
<1>5. call.pc = "authenticating"
  BY <1>1, <1>2, <1>3, <1>4 DEF Fits, Asking
<1>. QED BY <1>1, <1>5 DEF Lockstep, TriesKnown, KnowsTries, EnoughTries

LEMMA LockstepStep ==
  ASSUME MaxTimeouts = 0
  PROVE  Lockstep /\ [Next]_vars => Lockstep'
<1>1. Typed /\ [Next]_vars => Typed'
  BY TypeHost, TypeApplication, TypeDevice DEF Next
<1>2. Lockstep /\ [Next]_vars => InTurn' /\ TriesKnown'
  BY StepHost, StepApplication, StepDevice DEF Next
<1>. QED BY <1>1, <1>2 DEF Lockstep

\* "only allow password attempts if there are LINBERRY_MIN_PASSWORD_TRIES or more
\* tries remaining", for any number of Modes, of any kind, and any number of calls
\* and tries, as long as no read times out; the run zero_tries shows that it fails
\* where one does.
THEOREM TriesGuardAlways ==
  ASSUME MaxTimeouts = 0
  PROVE  Spec => []TriesGuard
<1>1. Init => Lockstep
  BY TypeInit, StartsInTurn DEF Lockstep
<1>2. Lockstep /\ [Next]_vars => Lockstep'
  BY LockstepStep
<1>3. Lockstep => TriesGuard
  BY PasswordsWithTries
<1>. QED BY <1>1, <1>2, <1>3, PTL DEF Spec

-----------------------------------------------------------------------------
(***************************************************************************)
(* Which socket is open, where there is one Mode.                          *)
(***************************************************************************)
mine == mode[call.mode]
Authorizing == call.pc \in {"opening", "authenticating"}

\* The device sent r, which is no handshake, because it did as it was told.
Done(r) ==
  /\ (Authorizing /\ r.command = "OPENED_SOCKET") =>
       /\ r.socket = number /\ number # 0 /\ r.sequence = call.flag
       /\ device.open = {number} /\ device.tries > 0
  /\ (Authorizing /\ r.command # "OPENED_SOCKET") => device.open = {}
  /\ call.pc = "closing" => r.command = "CLOSED_SOCKET" /\ r.socket = mine.socket /\ r.sequence = mine.flag
  /\ call.pc = "resetting" => r.command = "RESET_REPLY"

\* A Mode has a socket between calls, and until the call that closes it ends.
HasSocket ==
  /\ mine.handle /\ mine.number = mine.socket /\ mine.socket \in Sockets /\ device.tries > 0
  /\ call.pc \in {"idle", "closing", "resetting"}
  /\ call.pc = "idle" => mine.flag = zero.sequence

\* Once the device has answered, what is open follows from the answer.
OpenAgrees ==
  /\ mine.socket # 0 => HasSocket
  /\ call.pc \in {"closing", "resetting"} => mine.socket # 0
  /\ Authorizing => call.flag = zero.sequence
  /\ Authorizing /\ up = <<>> => device.open = {}
  /\ call.pc = "resetting" \/ (call.pc = "closing" /\ down = <<>>) => device.open = {}
  /\ call.pc = "closing" /\ down # <<>> => device.open = {mine.socket}
  /\ call.pc \notin {"opening", "authenticating", "closing", "resetting"} =>
       device.open = {mine.socket} \ {0}
  /\ \A i \in 1..Len(down) : /\ call.pc = "closing" => down[i].sequence = mine.flag
                             /\ Authorizing => down[i].sequence = call.flag
  /\ \A i \in 1..Len(up) : up[i].command # "SEQUENCE_HANDSHAKE" => Done(up[i])

OneMode == \A m, n \in Modes : m = n

LEMMA MineIs ==
  ASSUME OneMode, Typed, Typed'
  PROVE  /\ \A m \in Modes : mode[m] = mine /\ mode'[m] = mine'
         /\ \A r \in ModeRecord : SetMode(r) => mine' = r
         /\ \A m \in Modes : \A r \in ModeRecord : mode' = [mode EXCEPT ![m] = r] => mine' = r
         /\ mode' = mode => mine' = mine
         /\ mine \in ModeRecord
<1>1. call.mode \in Modes /\ call'.mode \in Modes /\ call'.mode = call.mode
  BY DEF Typed, CallRecord, OneMode
<1>2. mode \in [Modes -> ModeRecord]
  BY DEF Typed
<1>. QED BY <1>1, <1>2 DEF mine, SetMode, OneMode

LEMMA NothingDone ==
  NoNews => (\A i \in 1..Len(up) : up[i].command # "SEQUENCE_HANDSHAKE" => Done(up[i]))'
<1>1. CASE up' = <<>>
  <2>1. Len(up') = 0
    BY <1>1
  <2>. QED BY <2>1
<1>2. ASSUME NEW g \in Handshakes, up' = <<g>>
      PROVE  (\A i \in 1..Len(up) : up[i].command # "SEQUENCE_HANDSHAKE" => Done(up[i]))'
  <2>1. Len(up') = 1 /\ up'[1] = g
    BY <1>2
  <2>2. \A i \in 1..Len(up') : up'[i].command = "SEQUENCE_HANDSHAKE"
    BY <2>1 DEF Handshakes
  <2>. QED BY <2>2
<1>. QED BY <1>1, <1>2 DEF NoNews

\* The answer taken is what it says.
LEMMA TookDone ==
  ASSUME Lockstep, OpenAgrees, NEW pc \in Asking, RawReceive(pc)
  PROVE  Done(Reply) /\ NoNews
<1>1. up # <<>> /\ Reply.command # "SEQUENCE_HANDSHAKE"
  BY Answered DEF RawReceive, Lockstep
<1>2. Reply = up[1] /\ 1 \in 1..Len(up)
  <2>1. up \in Seq(Responses)
    BY DEF Lockstep, Typed
  <2>. QED BY <1>1, <2>1 DEF Reply
<1>. QED BY <1>1, <1>2, Told DEF OpenAgrees

\* The ways on: no socket, one that is held, and the requests.
LEMMA NoneHeld ==
  ASSUME mine'.socket = 0, device'.open = {}, NoNews,
         call'.pc \in {"idle", "crashed", "selecting", "extra", "selected", "challenged"}
  PROVE  OpenAgrees'
BY NothingDone DEF OpenAgrees, Authorizing

LEMMA IsHeld ==
  ASSUME mine'.handle, mine'.number = mine'.socket, mine'.socket \in Sockets, mine'.socket # 0,
         mine'.flag = zero'.sequence, device'.tries > 0, device'.open = {mine'.socket}, NoNews,
         call'.pc = "idle"
  PROVE  OpenAgrees'
BY NothingDone DEF OpenAgrees, HasSocket, Authorizing

LEMMA WillOpen ==
  ASSUME mine'.socket = 0, device'.open = {}, up' = <<>>, call'.pc \in {"opening", "authenticating"},
         call'.flag = zero'.sequence, NEW q, down' = <<q>>, q.sequence = zero'.sequence
  PROVE  OpenAgrees'
<1>1. \A i \in 1..Len(down') : down'[i] = q
  OBVIOUS
<1>. QED BY <1>1, NothingDone DEF OpenAgrees, Authorizing, NoNews

LEMMA WillClose ==
  ASSUME OneMode, Lockstep, OpenAgrees, Typed', call.pc = "idle", mine.socket # 0, UNCHANGED <<mode, device>>,
         up' = up, NEW c \in CallRecord, Close(c)
  PROVE  OpenAgrees'
<1>0. down = <<>> /\ up = <<>>
  BY DEF Lockstep, InTurn, Asking
<1>1. PICK s \in Number : s = mode[c.mode].socket
  BY DEF Lockstep, Typed, CallRecord, ModeRecord
<1>2. PICK x \in Commands : x = "CLOSE_SOCKET"
  BY DEF Commands
<1>3. RawSend(x, s, NoHash)
  BY <1>1, <1>2 DEF Close, Send
<1>4. PICK q \in Requests : down' = <<q>> /\ q.sequence = zero.sequence
  BY <1>0, <1>3, NewTypes, Sends DEF Lockstep
<1>5. call'.pc = "closing"
  BY DEF Close, Await, CallRecord
<1>6. mine' = mine
  BY MineIs DEF Lockstep
<1>7. \A i \in 1..Len(down') : down'[i] = q
  BY <1>4
<1>8. down' # <<>>
  BY <1>4, Tuples
<1>9. HasSocket /\ device.open = {mine.socket}
  BY DEF OpenAgrees
<1>10. HasSocket'
  BY <1>5, <1>6, <1>9 DEF HasSocket
<1>. QED BY <1>0, <1>4, <1>5, <1>6, <1>7, <1>8, <1>9, <1>10, NothingDone DEF OpenAgrees, HasSocket, Authorizing, NoNews

LEMMA HostAgrees ==
  MaxTimeouts = 0 /\ OneMode /\ Lockstep /\ OpenAgrees /\ Host /\ Lockstep' => OpenAgrees'
<1> SUFFICES ASSUME MaxTimeouts = 0, OneMode, Lockstep, OpenAgrees, Host, Lockstep'
             PROVE  OpenAgrees'
  OBVIOUS
<1>0. call \in CallRecord /\ zero \in ZeroRecord /\ up \in Seq(Responses) /\ mine \in ModeRecord
  BY MineIs DEF Lockstep, Typed
<1>1. call.pc \notin {"idle", "closing", "resetting"} => mine.socket = 0
  BY DEF OpenAgrees, HasSocket
<1>2. call.pc \in {"selecting", "extra", "selected", "challenged"} => device.open = {}
  BY <1>1 DEF OpenAgrees
<1>3. ASSUME NEW r \in ModeRecord, SetMode(r) PROVE mine' = r
  BY <1>3, MineIs DEF Lockstep
<1>4. mode' = mode => mine' = mine
  BY MineIs DEF Lockstep
<1>5. CASE SequencePacket
  <2>1. /\ up # <<>> /\ up' = Tail(up) /\ UNCHANGED <<zero, mode, call, down, device>>
        /\ Reply.command = "SEQUENCE_HANDSHAKE" /\ Reply = up[1]
    BY <1>0, <1>5 DEF SequencePacket, Hidden, Reply
  <2>2. \A i \in 1..Len(up') : i + 1 \in 1..Len(up) /\ up'[i] = up[i + 1]
    BY <1>0, <2>1, HeadTailProperties
  <2>3. \A r : Done(r)' <=> Done(r)
    BY <2>1 DEF Done, Authorizing, mine, number
  <2>4. \A i \in 1..Len(up') : up'[i].command # "SEQUENCE_HANDSHAKE" => Done(up'[i])
    BY <2>2 DEF OpenAgrees
  <2>5. up' # <<>> \/ ~Authorizing
    <3>1. CASE Authorizing
      <4>1. call.pc \in Asking /\ Reply \in Handshakes
        BY <2>1, <3>1, ReplyTyped DEF Authorizing, Asking, Handshakes, Lockstep
      <4>. QED BY <2>1, <4>1, HostTurn, Tuples DEF Lockstep
    <3>. QED BY <3>1
  <2>. QED BY <2>1, <2>3, <2>4, <2>5 DEF OpenAgrees, HasSocket, Authorizing, mine
<1>6. CASE check_sequence
  BY <1>6, Answered DEF check_sequence, Lockstep, Asking
<1>7. ASSUME NEW pc \in Asking, RawReceive(pc)
      PROVE  call.pc = pc /\ Done(Reply) /\ NoNews /\ down = <<>>
  BY <1>7, TookDone, Answered DEF Lockstep
<1>8. CASE mode_selected
  <2>1. call.pc = "selecting" /\ NoNews /\ device' = device
    BY <1>7, <1>8 DEF mode_selected, Asking
  <2>2. Reply \in Responses
    BY <1>8, ReplyTyped DEF mode_selected, RawReceive, Lockstep
  <2>3. ASSUME Selected PROVE mine'.socket = mine.socket /\ call'.pc = "selected"
    <3>1. [mine EXCEPT !.number = Reply.socket] \in ModeRecord
      BY <2>2, OwnTyped DEF Lockstep, Responses, mine
    <3>2. mine' = [mine EXCEPT !.number = Reply.socket]
      BY <1>3, <2>3, <3>1 DEF Selected, mine
    <3>. QED BY <1>0, <2>3, <3>2 DEF ModeRecord, Selected, Await, CallRecord
  <2>4. mine'.socket = 0 /\ call'.pc \in {"idle", "selected", "extra"}
    <3>0. mine.socket = 0
      BY <1>1, <2>1
    <3>1. CASE call' = NoCall /\ mode' = mode
      BY <1>4, <3>0, <3>1 DEF NoCall
    <3>2. CASE Await(call, "extra") /\ mode' = mode
      BY <1>0, <1>4, <3>0, <3>2 DEF Await, CallRecord
    <3>3. CASE Selected
      BY <2>3, <3>0, <3>3
    <3>. QED BY <1>8, <3>1, <3>2, <3>3 DEF mode_selected
  <2>. QED BY <1>2, <2>1, <2>4, NoneHeld
<1>9. CASE extra_packet
  <2>1. call.pc = "extra" /\ device' = device /\ up # <<>> /\ up' = Tail(up) /\ Selected
    BY <1>9 DEF extra_packet, RawReceive
  <2>2. NoNews /\ Reply \in Responses
    BY <2>1, HostTurn, ReplyTyped DEF NoNews, Lockstep
  <2>3. [mine EXCEPT !.number = Reply.socket] \in ModeRecord
    BY <2>2, OwnTyped DEF Lockstep, Responses, mine
  <2>4. mine' = [mine EXCEPT !.number = Reply.socket]
    BY <1>3, <2>1, <2>3 DEF Selected, mine
  <2>5. mine'.socket = 0 /\ call'.pc = "selected"
    BY <1>0, <1>1, <2>1, <2>4 DEF ModeRecord, Selected, Await, CallRecord
  <2>. QED BY <1>2, <2>1, <2>2, <2>5, NoneHeld
<1>10. CASE SendOpen
  <2>1. /\ call.pc = "selected" /\ UNCHANGED <<mode, up, device>> /\ down = <<>> /\ up = <<>>
        /\ call' = [[call EXCEPT !.flag = zero.sequence] EXCEPT !.pc = "opening", !.acked = FALSE]
    BY <1>10 DEF SendOpen, Lockstep, InTurn, Asking, Await
  <2>2. call'.pc = "opening" /\ call'.flag = zero.sequence /\ zero'.sequence = zero.sequence
    BY <1>0, <1>10, <2>1 DEF SendOpen, CallRecord, ZeroRecord
  <2>3. PICK q \in Requests : down' = <<q>> /\ q.sequence = zero.sequence
    <3>1. PICK x \in Commands : x = "OPEN_SOCKET"
      BY DEF Commands
    <3>2. PICK n \in Number : n = number
      BY OwnTyped DEF Lockstep
    <3>3. RawSend(x, n, NoHash)
      BY <1>10, <3>1, <3>2 DEF SendOpen
    <3>. QED BY <2>1, <3>3, Sends, NewTypes DEF Lockstep
  <2>. QED BY <1>1, <1>2, <1>4, <2>1, <2>2, <2>3, WillOpen
<1>11. CASE still_half_open
  <2>1. /\ call.pc = "selected" /\ UNCHANGED <<mode, up, device>> /\ up = <<>>
        /\ call'.pc = "challenged"
    BY <1>0, <1>11 DEF still_half_open, Lockstep, InTurn, Asking, Await, CallRecord
  <2>. QED BY <1>1, <1>2, <1>4, <2>1, NoneHeld DEF NoNews
<1>12. [mine EXCEPT !.rejected = TRUE] \in ModeRecord /\ [mine EXCEPT !.rejected = TRUE].socket = mine.socket
  BY <1>0 DEF ModeRecord
<1>13. ASSUME BadPassword PROVE mine'.socket = mine.socket /\ call'.pc = "idle"
  BY <1>3, <1>12, <1>13 DEF BadPassword, NoCall, mine
<1>14. CASE refuse_password
  <2>1. /\ call.pc = "challenged" /\ UNCHANGED <<up, device>> /\ up = <<>> /\ BadPassword
    BY <1>14 DEF refuse_password, Lockstep, InTurn, Asking
  <2>. QED BY <1>1, <1>2, <1>13, <2>1, NoneHeld DEF NoNews
<1>15. CASE SendPasswordHash
  <2>1. /\ call.pc = "challenged" /\ UNCHANGED <<zero, mode, up, device>> /\ down = <<>> /\ up = <<>>
        /\ call' = [[call EXCEPT !.flag = zero.sequence] EXCEPT !.pc = "authenticating", !.acked = FALSE]
    BY <1>15 DEF SendPasswordHash, Lockstep, InTurn, Asking, Await
  <2>2. call'.pc = "authenticating" /\ call'.flag = zero.sequence
    BY <1>0, <2>1 DEF CallRecord
  <2>3. PICK q \in Requests : down' = <<q>> /\ q.sequence = zero.sequence
    <3>1. PICK x \in Commands : x = "PASSWORD"
      BY DEF Commands
    <3>2. PICK n \in Number : n = number
      BY OwnTyped DEF Lockstep
    <3>3. PICK h \in Hash : h = [seed |-> zero.seed, password |-> call.password]
      BY <1>0 DEF ZeroRecord, CallRecord, Hash
    <3>4. RawSend(x, n, h)
      BY <1>15, <3>1, <3>2, <3>3 DEF SendPasswordHash
    <3>. QED BY <2>1, <3>4, Sends DEF Lockstep
  <2>. QED BY <1>1, <1>2, <1>4, <2>1, <2>2, <2>3, WillOpen
<1>16. CASE password_challenge \/ password_failed
  <2>1. /\ Authorizing /\ Done(Reply) /\ NoNews /\ device' = device
        /\ Reply.command \in {"PASSWORD_CHALLENGE", "PASSWORD_FAILED"}
    BY <1>7, <1>16 DEF password_challenge, password_failed, Receive, Asking, Authorizing
  <2>2. device.open = {}
    BY <2>1 DEF Done
  <2>3. mine'.socket = 0 /\ call'.pc \in {"idle", "challenged"}
    BY <1>0, <1>1, <1>4, <1>13, <1>16, <2>1 DEF password_challenge, password_failed, Await, CallRecord, Authorizing
  <2>. QED BY <2>1, <2>2, <2>3, NoneHeld
<1>17. CASE opened_socket \/ password_accepted
  <2>1. Authorizing /\ Done(Reply) /\ NoNews /\ device' = device /\ Opened
    BY <1>7, <1>17 DEF opened_socket, password_accepted, Receive, Asking, Authorizing
  <2>2. zero'.sequence = zero.sequence /\ call'.pc = "idle" /\ mine.socket = 0
    BY <1>0, <1>1, <1>17, <2>1 DEF opened_socket, password_accepted, ZeroRecord, Opened, NoCall, Authorizing
  <2>3. CASE Reply.command = "OPENED_SOCKET"
    <3>1. /\ number # 0 /\ device.open = {number} /\ device.tries > 0 /\ Accepted
      BY <2>1, <2>3 DEF Done, Opened
    <3>2. number \in Sockets /\ number \in Number /\ call.flag = zero.sequence
      BY <2>1, <3>1, OwnTyped DEF Lockstep, Typed, DeviceRecord, OpenAgrees
    <3>3. [mine EXCEPT !.handle = TRUE, !.socket = number, !.flag = call.flag] \in ModeRecord
      BY <1>0, <3>2, OwnTyped DEF Lockstep, CallRecord, mine
    <3>4. mine' = [mine EXCEPT !.handle = TRUE, !.socket = number, !.flag = call.flag]
      BY <1>3, <3>1, <3>3 DEF Accepted, mine
    <3>5. mine'.handle /\ mine'.socket = number /\ mine'.flag = call.flag /\ mine'.number = number
      BY <1>0, <3>4 DEF ModeRecord, number, mine
    <3>. QED BY <2>1, <2>2, <3>1, <3>2, <3>5, IsHeld
  <2>4. CASE Reply.command # "OPENED_SOCKET"
    <3>1. device.open = {} /\ mode' = mode
      BY <2>1, <2>4 DEF Done, Opened
    <3>. QED BY <1>4, <2>1, <2>2, <3>1, NoneHeld
  <2>. QED BY <2>3, <2>4
<1>18. ASSUME NEW r \in ModeRecord, SetMode(r), r = NewMode PROVE mine'.socket = 0
  BY <1>3, <1>18 DEF NewMode
<1>19. ASSUME CloseReturns PROVE mine'.socket = 0 /\ call'.pc \in {"idle", "selecting"}
  <2>1. mine'.socket = 0
    BY <1>18, <1>19, NewTypes DEF CloseReturns
  <2>2. SelectMode(call) => call'.pc = "selecting"
    BY <1>0 DEF SelectMode, Await, CallRecord
  <2>. QED BY <1>19, <2>1, <2>2 DEF CloseReturns, NoCall
<1>20. CASE closed_socket \/ reset_reply
  <2>1. /\ call.pc \in {"closing", "resetting"} /\ down = <<>> /\ NoNews /\ device' = device
    BY <1>7, <1>20 DEF closed_socket, reset_reply, Receive, Asking
  <2>2. device.open = {} /\ HasSocket /\ mine.socket # 0
    BY <2>1 DEF OpenAgrees
  <2>3. CASE CloseReturns
    BY <1>19, <2>1, <2>2, <2>3, NoneHeld
  <2>4. CASE Send("RESET", 0) /\ Await(call, "resetting") /\ UNCHANGED mode
    <3>1. call'.pc = "resetting" /\ mine' = mine
      BY <1>0, <1>4, <2>4 DEF Await, CallRecord
    <3>2. HasSocket'
      BY <2>1, <2>2, <3>1 DEF HasSocket
    <3>. QED BY <2>1, <2>2, <3>1, <3>2, NothingDone DEF OpenAgrees, Authorizing
  <2>. QED BY <1>20, <2>3, <2>4 DEF closed_socket, reset_reply
<1>21. ~bad_closed
  BY <1>7 DEF bad_closed, Receive, Asking, Done, IsClosed, mine
<1>22. ~missing_reset_reply
  BY <1>7 DEF missing_reset_reply, Asking, Done
<1>23. ~timeout
  BY DEF timeout, Lockstep, Typed
<1>. QED BY <1>5, <1>6, <1>8, <1>9, <1>10, <1>11, <1>14, <1>15, <1>16, <1>17, <1>20, <1>21, <1>22, <1>23
         DEF Host

LEMMA ApplicationAgrees ==
  OneMode /\ Lockstep /\ OpenAgrees /\ (Application \/ UNCHANGED vars) /\ Lockstep' => OpenAgrees'
<1> SUFFICES ASSUME OneMode, Lockstep, OpenAgrees, Application \/ UNCHANGED vars, Lockstep'
             PROVE  OpenAgrees'
  OBVIOUS
<1>0. call \in CallRecord /\ zero \in ZeroRecord /\ mine \in ModeRecord /\ Typed /\ Typed'
  BY MineIs DEF Lockstep, Typed
<1>1. ASSUME call.pc = "idle"
      PROVE  /\ down = <<>> /\ up = <<>> /\ device.open = {mine.socket} \ {0}
             /\ mine.socket # 0 => HasSocket
  BY <1>1 DEF Lockstep, InTurn, Asking, OpenAgrees
<1>2. \A op \in {"open", "retry", "destroy"} : \A m \in Modes : \A p \in Passwords :
        TheCall(op, m, p) \in CallRecord
  BY NewTypes DEF TheCall, CallRecord
<1>3. \A m \in Modes : \A r \in ModeRecord : mode' = [mode EXCEPT ![m] = r] => mine' = r
  BY <1>0, MineIs
<1>9. \A m \in Modes : mode[m] = mine
  BY <1>0, MineIs
<1>4. mode' = mode => mine' = mine
  BY <1>0, MineIs
<1>5. ASSUME NEW m \in Modes, NEW p \in Passwords, Open(m, p) PROVE OpenAgrees'
  <2> DEFINE c == TheCall("open", m, p)
  <2>1. c \in CallRecord
    BY <1>2
  <2>2. call.pc = "idle" /\ UNCHANGED <<up, device>> /\ NoNews /\ mode[m] = mine
    BY <1>1, <1>9, <1>5 DEF Open, Begin, NoNews
  <2>3. CASE /\ mode[m].number = 0 \/ (mode[m].handle /\ mode[m].socket = 0)
             /\ mode' = [mode EXCEPT ![m] = NewMode] /\ SelectMode(c)
    <3>1. mine' = NewMode
      BY <1>3, <2>3, NewTypes
    <3>2. mine.socket = 0
      BY <1>1, <2>2, <2>3, SocketsAssumption DEF HasSocket
    <3>3. mine'.socket = 0
      BY <3>1 DEF NewMode
    <3>4. call'.pc = "selecting"
      BY <2>1, <2>3 DEF SelectMode, Await, CallRecord
    <3>. QED BY <1>1, <2>2, <3>2, <3>3, <3>4, NoneHeld
  <2>4. CASE mode[m].socket # 0 /\ Close(c) /\ UNCHANGED mode
    BY <1>0, <2>1, <2>2, <2>4, WillClose
  <2>5. CASE ~mode[m].handle /\ call' = [c EXCEPT !.pc = "crashed"] /\ UNCHANGED <<zero, mode, down>>
    <3>1. call'.pc = "crashed"
      BY <2>1, <2>5 DEF CallRecord
    <3>2. mine.socket = 0
      BY <1>1, <2>2, <2>5 DEF HasSocket
    <3>. QED BY <1>1, <1>4, <2>2, <2>5, <3>1, <3>2, NoneHeld
  <2>. QED BY <1>5, <2>3, <2>4, <2>5 DEF Open, c
<1>6. ASSUME NEW m \in Modes, NEW p \in Passwords, RetryPassword(m, p) PROVE OpenAgrees'
  <2>1. call'.pc = "selected"
    BY <1>2, <1>6 DEF RetryPassword, Await, CallRecord
  <2>2. /\ call.pc = "idle" /\ UNCHANGED <<up, device>> /\ mode[m] = mine /\ ~mine.handle
        /\ mode' = [mode EXCEPT ![m].rejected = FALSE]
    BY <1>6, <1>9 DEF RetryPassword, Begin
  <2>3. [mine EXCEPT !.rejected = FALSE] \in ModeRecord /\ [mine EXCEPT !.rejected = FALSE].socket = mine.socket
    BY <1>0 DEF ModeRecord
  <2>4. mode' = [mode EXCEPT ![m] = [mine EXCEPT !.rejected = FALSE]]
    BY <2>2
  <2>5. mine'.socket = 0 /\ mine.socket = 0
    BY <1>1, <1>3, <2>2, <2>3, <2>4 DEF HasSocket
  <2>. QED BY <1>1, <2>1, <2>2, <2>5, NoneHeld DEF NoNews
<1>7. ASSUME NEW m \in Modes, Destroy(m) PROVE OpenAgrees'
  <2>1. call.pc = "idle" /\ UNCHANGED <<up, device>> /\ mode[m] = mine
    BY <1>7, <1>9 DEF Destroy, Begin
  <2>2. CASE mode[m].handle /\ mode[m].socket # 0
    <3>1. TheCall("destroy", m, "none") \in CallRecord
      BY <1>2 DEF Passwords
    <3>2. Close(TheCall("destroy", m, "none")) /\ UNCHANGED mode
      BY <1>7, <2>2 DEF Destroy
    <3>. QED BY <1>0, <2>1, <2>2, <3>1, <3>2, WillClose
  <2>3. CASE ~(mode[m].handle /\ mode[m].socket # 0)
    <3>1. mode' = [mode EXCEPT ![m] = NewMode] /\ call' = call
      BY <1>7, <2>3 DEF Destroy
    <3>2. mine' = NewMode
      BY <1>3, <3>1, NewTypes
    <3>3. mine'.socket = 0 /\ mine.socket = 0
      BY <1>1, <2>1, <2>3, <3>2 DEF HasSocket, NewMode
    <3>. QED BY <1>1, <2>1, <3>1, <3>3, NoneHeld DEF NoNews
  <2>. QED BY <2>2, <2>3
<1>8. CASE SetResetOnClose \/ at_rest \/ UNCHANGED vars
  <2>1. UNCHANGED <<mode, call, down, up, device>> /\ zero'.sequence = zero.sequence
    BY <1>0, <1>8 DEF SetResetOnClose, at_rest, vars, ZeroRecord
  <2>. QED BY <2>1 DEF OpenAgrees, HasSocket, Authorizing, mine, Done, number
<1>. QED BY <1>5, <1>6, <1>7, <1>8 DEF Application

\* What the device does when it is asked in turn.
LEMMA AnswerAgrees ==
  ASSUME OneMode, Lockstep, OpenAgrees, down # <<>>, NEW d \in DeviceRecord, NEW x \in Answers,
         x # "SEQUENCE_HANDSHAKE", NEW s \in Number, NEW e \in DeviceRecord,
         ~Follows(Packet(x, s, e)), Answer(d, <<Packet(x, s, e)>>), Lockstep',
         call.pc # "authenticating" => d.tries = device.tries,
         NEW r, r = Packet(x, s, e), Done(r)',
         call.pc \in {"selecting", "closing"} \/ Authorizing \/ call.pc = "resetting",
         call.pc = "selecting" => d.open = device.open,
         call.pc \in {"closing", "resetting"} => d.open = {}
  PROVE  OpenAgrees'
<1>1. r \in Responses /\ r.command = x
  BY PacketTyped DEF Packet, Lockstep
<1>2. r \in Responses \ Handshakes
  BY <1>1 DEF Handshakes
<1>3. Answer(d, <<r>>) /\ ~Follows(r)
  OBVIOUS
<1>4. down' = <<>> /\ \E h \in Handshakes : up' \in {<<r>>, <<h, r>>}
  BY <1>2, <1>3, Answers1 DEF Lockstep
<1>5. UNCHANGED <<zero, mode, call>> /\ device' = d
  BY <1>3 DEF Answer
<1>6. PICK h \in Handshakes : up' = <<r>> \/ up' = <<h, r>>
  BY <1>4
<1>7. up' # <<>> /\ \A i \in 1..Len(up') : up'[i] = r \/ up'[i] = h
  BY <1>6, Tuples
<1>8. \A i \in 1..Len(up') : up'[i].command # "SEQUENCE_HANDSHAKE" => up'[i] = r
  BY <1>7 DEF Handshakes
<1>9. (\A i \in 1..Len(up) : up[i].command # "SEQUENCE_HANDSHAKE" => Done(up[i]))'
  BY <1>8
<1>10. Len(down') = 0
  BY <1>4
<1>11. mine' = mine /\ call' = call
  BY <1>5 DEF mine
<1>12. mine'.socket # 0 => HasSocket'
  BY <1>5, <1>11 DEF OpenAgrees, HasSocket
<1>. QED BY <1>4, <1>5, <1>7, <1>9, <1>10, <1>11, <1>12 DEF OpenAgrees, Authorizing

LEMMA DeviceAgrees ==
  ~RefusesReset /\ OneMode /\ Lockstep /\ OpenAgrees /\ Device /\ Lockstep' => OpenAgrees'
<1> SUFFICES ASSUME ~RefusesReset, OneMode, Lockstep, OpenAgrees, Device, Lockstep'
             PROVE  OpenAgrees'
  OBVIOUS
<1>0. device \in DeviceRecord /\ Typed /\ InTurn /\ Sockets \subseteq Number /\ 0 \in Number /\ 0 \notin Sockets
  BY SocketsAssumption DEF Lockstep, Typed, Number
<1>1. down # <<>>
  BY DEF Device, answer_select, answer_open, answer_password, answer_close, answer_reset, refuse, Asked
<1>2. /\ call.pc \in Asking /\ Fits(Request) /\ Request.socket \in Number /\ up = <<>> /\ Tail(down) = <<>>
      /\ Request = down[1] /\ 1 \in 1..Len(down)
  BY <1>0, <1>1, DeviceTurn, NewDevice DEF Request, Typed
<1>3. /\ Authorizing => Request.sequence = call.flag /\ Request.socket = number /\ device.open = {}
      /\ call.pc = "closing" => /\ Request.sequence = mine.flag /\ Request.socket = mine.socket
                                /\ device.open = {mine.socket}
      /\ call.pc = "resetting" => device.open = {}
      /\ call.pc \in {"closing", "resetting"} => device.tries > 0
  BY <1>1, <1>2 DEF OpenAgrees, HasSocket, Fits, Authorizing, mine
<1>4. \A x \in Answers : \A s \in Number : \A d : Follows(Packet(x, s, d)) =>
        x = "MODE_SELECTED" /\ Request.command = "SELECT_DESKTOP"
  BY <1>2 DEF Follows, Fits, Packet
<1>5. call.pc \in {"selecting", "closing"} \/ Authorizing \/ call.pc = "resetting"
  BY <1>2 DEF Asking, Authorizing
<1>6. \A x : \A s : \A d : /\ Packet(x, s, d).command = x /\ Packet(x, s, d).socket = s
                           /\ Packet(x, s, d).sequence = Request.sequence
  BY DEF Packet
<1>7. \A d : \A q : Answer(d, q) => UNCHANGED <<zero, mode, call>> /\ device' = d /\ down' = <<>>
  BY <1>2 DEF Answer
<1>8. CASE answer_select
  <2>1. call.pc = "selecting"
    BY <1>2, <1>8 DEF answer_select, Asked, Fits, Asking
  <2>2. UNCHANGED <<zero, mode, call, device>> /\ down' = <<>>
    BY <1>7, <1>8 DEF answer_select
  <2>3. Len(down') = 0
    BY <2>2
  <2>4. mine' = mine /\ (mine.socket = 0)
    BY <2>1, <2>2 DEF OpenAgrees, HasSocket, mine
  <2>5. \A r : Done(r)'
    BY <2>1, <2>2 DEF Done, Authorizing
  <2>. QED BY <2>1, <2>2, <2>3, <2>4, <2>5 DEF OpenAgrees, Authorizing
<1>9. ASSUME NEW d \in DeviceRecord, Answer(d, <<Packet("OPENED_SOCKET", Request.socket, d)>>),
             Authorizing, d.open = {number}, number # 0, d.tries > 0,
             call.pc = "opening" => d.tries = device.tries
      PROVE  OpenAgrees'
  <2>1. PICK x \in Answers : x = "OPENED_SOCKET"
    BY DEF Answers
  <2>2. PICK r : r = Packet(x, Request.socket, d)
    OBVIOUS
  <2>3. Answer(d, <<Packet(x, Request.socket, d)>>) /\ device' = d /\ UNCHANGED <<mode, call>>
    BY <1>7, <1>9, <2>1
  <2>4. Done(r)'
    BY <1>3, <1>6, <1>9, <2>1, <2>2, <2>3 DEF Done, Authorizing, number
  <2>5. ~Follows(Packet(x, Request.socket, d))
    BY <1>2, <1>4, <2>1
  <2>. QED BY <1>1, <1>2, <1>9, <2>1, <2>2, <2>3, <2>4, <2>5, AnswerAgrees DEF Authorizing
<1>10. ASSUME NEW d \in DeviceRecord, NEW x \in Answers, NEW s \in Number, Answer(d, <<Packet(x, s, d)>>),
              Authorizing \/ call.pc = "selecting", d.open = device.open,
              x \notin {"OPENED_SOCKET", "SEQUENCE_HANDSHAKE", "MODE_SELECTED"},
              call.pc # "authenticating" => d.tries = device.tries
       PROVE  OpenAgrees'
  <2>1. PICK r : r = Packet(x, s, d)
    OBVIOUS
  <2>2. device' = d /\ UNCHANGED <<mode, call>>
    BY <1>7, <1>10
  <2>3. Done(r)'
    BY <1>3, <1>6, <1>10, <2>1, <2>2 DEF Done, Authorizing, number
  <2>4. ~Follows(Packet(x, s, d))
    BY <1>4, <1>10
  <2>. QED BY <1>1, <1>10, <2>1, <2>3, <2>4, AnswerAgrees DEF Authorizing
<1>11. CASE answer_open
  <2>1. call.pc = "opening" /\ Authorizing /\ Request.socket \in Sockets /\ device.tries > 0
    BY <1>2, <1>11 DEF answer_open, Asked, Fits, Asking, Authorizing
  <2>2. PICK d \in DeviceRecord : d = [device EXCEPT !.seed = 1 - @, !.pending = Request.socket]
    BY <1>0, <1>1, NewDevice
  <2>3. PICK e \in DeviceRecord : e = [device EXCEPT !.open = @ \cup {Request.socket}]
    BY <1>0, <1>1, <2>1, NewDevice
  <2>4. d.open = device.open /\ d.tries = device.tries
    BY <1>0, <2>2 DEF DeviceRecord
  <2>5. e.open = {number} /\ number # 0 /\ e.tries = device.tries
    BY <1>0, <1>3, <2>1, <2>3 DEF DeviceRecord
  <2>6. \/ Answer(d, <<Packet("PASSWORD_CHALLENGE", Request.socket, d)>>)
        \/ Answer(e, <<Packet("OPENED_SOCKET", Request.socket, e)>>)
    BY <1>11, <2>2, <2>3 DEF answer_open
  <2>7. PICK x \in Answers : x = "PASSWORD_CHALLENGE"
    BY DEF Answers
  <2>8. CASE Answer(d, <<Packet("PASSWORD_CHALLENGE", Request.socket, d)>>)
    BY <1>2, <1>10, <2>1, <2>4, <2>7, <2>8
  <2>9. CASE Answer(e, <<Packet("OPENED_SOCKET", Request.socket, e)>>)
    BY <1>9, <2>1, <2>5, <2>9
  <2>. QED BY <2>6, <2>8, <2>9
<1>12. CASE answer_password
  <2>1. call.pc = "authenticating" /\ Authorizing /\ Request.socket \in Sockets /\ device.tries > 0
    BY <1>0, <1>2, <1>12 DEF answer_password, Asked, Fits, Asking, Authorizing, DeviceRecord, Number
  <2>2. PICK d \in DeviceRecord : d = [device EXCEPT !.seed = 1 - @, !.tries = @ - 1]
    BY <1>0, <1>1, <2>1, NewDevice
  <2>3. PICK e \in DeviceRecord :
          e = [device EXCEPT !.open = @ \cup {Request.socket}, !.pending = 0, !.tries = Tries]
    BY <1>0, <1>1, <2>1, NewDevice
  <2>4. d.open = device.open
    BY <1>0, <2>2 DEF DeviceRecord
  <2>5. e.open = {number} /\ number # 0 /\ e.tries > 0
    BY <1>0, <1>3, <2>1, <2>3, TriesAssumption DEF DeviceRecord
  <2>6. \/ Answer(d, <<Packet("PASSWORD_FAILED", Request.socket, d)>>)
        \/ Answer(e, <<Packet("OPENED_SOCKET", Request.socket, e)>>)
    BY <1>12, <2>2, <2>3 DEF answer_password
  <2>7. PICK x \in Answers : x = "PASSWORD_FAILED"
    BY DEF Answers
  <2>8. CASE Answer(d, <<Packet("PASSWORD_FAILED", Request.socket, d)>>)
    BY <1>2, <1>10, <2>1, <2>4, <2>7, <2>8
  <2>9. CASE Answer(e, <<Packet("OPENED_SOCKET", Request.socket, e)>>)
    BY <1>9, <2>1, <2>5, <2>9
  <2>. QED BY <2>6, <2>8, <2>9
<1>13. CASE answer_close
  <2>1. call.pc = "closing" /\ ~Authorizing
    BY <1>2, <1>13 DEF answer_close, Asked, Fits, Asking, Authorizing
  <2>2. PICK d \in DeviceRecord : d = [device EXCEPT !.open = @ \ {Request.socket}]
    BY <1>0, <1>1, NewDevice
  <2>3. d.open = {} /\ d.tries = device.tries
    BY <1>0, <1>3, <2>1, <2>2 DEF DeviceRecord
  <2>4. PICK x \in Answers : x = "CLOSED_SOCKET"
    BY DEF Answers
  <2>5. Answer(d, <<Packet(x, Request.socket, device)>>)
    BY <1>13, <2>2, <2>4 DEF answer_close
  <2>6. PICK r : r = Packet(x, Request.socket, device)
    OBVIOUS
  <2>7. UNCHANGED <<mode, call>>
    BY <1>7, <2>5
  <2>8. Done(r)'
    BY <1>3, <1>6, <2>1, <2>4, <2>6, <2>7 DEF Done, Authorizing, mine
  <2>9. ~Follows(Packet(x, Request.socket, device))
    BY <1>2, <1>4, <2>4
  <2>. QED BY <1>0, <1>1, <1>2, <2>1, <2>3, <2>4, <2>5, <2>6, <2>8, <2>9, AnswerAgrees
<1>14. CASE answer_reset
  <2>1. call.pc = "resetting" /\ ~Authorizing /\ device.open = {}
    BY <1>2, <1>3, <1>14 DEF answer_reset, Asked, Fits, Asking, Authorizing
  <2>2. PICK x \in Answers : x = "RESET_REPLY"
    BY DEF Answers
  <2>3. PICK z \in Number : z = 0
    BY <1>0
  <2>4. Answer(device, <<Packet(x, z, device)>>)
    BY <1>14, <2>2, <2>3 DEF answer_reset
  <2>5. PICK r : r = Packet(x, z, device)
    OBVIOUS
  <2>6. UNCHANGED <<mode, call>>
    BY <1>7, <2>4
  <2>7. Done(r)'
    BY <1>6, <2>1, <2>2, <2>5, <2>6 DEF Done, Authorizing
  <2>8. ~Follows(Packet(x, z, device))
    BY <1>4, <2>2
  <2>. QED BY <1>0, <1>1, <2>1, <2>2, <2>4, <2>5, <2>7, <2>8, AnswerAgrees
<1>15. CASE refuse
  <2>1. call.pc \notin {"closing", "resetting"}
    <3>1. call.pc = "closing" => Request.command = "CLOSE_SOCKET" /\ Request.socket \in device.open /\ device.tries > 0
      BY <1>2, <1>3 DEF Fits
    <3>2. call.pc = "resetting" => Request.command = "RESET" /\ device.tries > 0
      BY <1>2, <1>3 DEF Fits
    <3>3. device.tries > 0 => device.tries # 0
      BY <1>0 DEF DeviceRecord
    <3>. QED BY <1>15, <3>1, <3>2, <3>3 DEF refuse, Asked
  <2>2. PICK x \in Answers : x = "REFUSED"
    BY DEF Answers
  <2>3. Answer(device, <<Packet(x, Request.socket, device)>>)
    BY <1>15, <2>2 DEF refuse
  <2>. QED BY <1>0, <1>2, <1>5, <1>10, <2>1, <2>2, <2>3
<1>. QED BY <1>8, <1>11, <1>12, <1>13, <1>14, <1>15 DEF Device

LEMMA AgreesWhenIdle == OneMode /\ Lockstep /\ OpenAgrees => HostAndDeviceAgree
<1> SUFFICES ASSUME OneMode, Lockstep, OpenAgrees PROVE HostAndDeviceAgree
  OBVIOUS
<1>1. call.mode \in Modes
  BY DEF Lockstep, Typed, CallRecord
<1>2. (call.pc = "idle" /\ zero.halfOpen) => KnowsTries
  BY DEF Lockstep, TriesKnown
<1>3. call.pc = "idle" => device.open = {mine.socket} \ {0}
  BY DEF OpenAgrees, Authorizing
<1>4. {mode[m].socket : m \in Modes} = {mine.socket}
  BY <1>1 DEF OneMode, mine
<1>5. ASSUME NEW i \in OnTheWay("CLOSE_SOCKET") PROVE down[i].socket \in device.open
  <2>1. down # <<>> /\ down[i].command = "CLOSE_SOCKET" /\ i \in 1..Len(down)
    BY <1>5 DEF OnTheWay
  <2>2. call.pc \in Asking /\ call.pc # "extra" /\ up = <<>>
    BY <2>1, DeviceTurn DEF Lockstep, Asking
  <2>3. PICK q \in Requests : down = <<q>> /\ Fits(q)
    BY <2>1, <2>2 DEF Lockstep, InTurn
  <2>4. down[i] = q
    BY <2>1, <2>3
  <2>5. call.pc = "closing" /\ q.socket = mine.socket
    BY <2>1, <2>2, <2>3, <2>4 DEF Fits, Asking, mine
  <2>. QED BY <2>1, <2>4, <2>5 DEF OpenAgrees
<1>. QED BY <1>2, <1>3, <1>4, <1>5 DEF HostAndDeviceAgree, KnowsTries

\* Between calls the host knows of the device what is so: a challenge it believes
\* pending is, with the tries and the seed it remembers; the Mode holds a Socket
\* for just the socket that is open; and none is closed twice. For one Mode,
\* where no read times out and the device takes a RESET.
THEOREM HostAndDeviceAgreeAlways ==
  ASSUME MaxTimeouts = 0, OneMode, ~RefusesReset
  PROVE  Spec => []HostAndDeviceAgree
<1> DEFINE Inv == Lockstep /\ OpenAgrees
<1>1. Init => Inv
  <2> SUFFICES ASSUME Init PROVE Inv
    OBVIOUS
  <2>1. Lockstep
    BY TypeInit, StartsInTurn DEF Lockstep
  <2>2. mine = NewMode
    BY NewTypes DEF Init, mine, CallRecord
  <2>3. /\ mine.socket = 0 /\ device.open = {} /\ call.pc = "idle"
        /\ Len(down) = 0 /\ Len(up) = 0 /\ down = <<>> /\ up = <<>>
    BY <2>2 DEF Init, NewMode, NoCall
  <2>4. OpenAgrees
    BY <2>3 DEF OpenAgrees, Authorizing
  <2>. QED BY <2>1, <2>4
<1>2. Inv /\ [Next]_vars => Inv'
  <2>1. Lockstep /\ [Next]_vars => Lockstep'
    BY LockstepStep
  <2>2. Inv /\ [Next]_vars /\ Lockstep' => OpenAgrees'
    BY HostAgrees, ApplicationAgrees, DeviceAgrees DEF Next
  <2>. QED BY <2>1, <2>2
<1>3. Inv => HostAndDeviceAgree
  BY AgreesWhenIdle
<1>. QED BY <1>1, <1>2, <1>3, PTL DEF Spec

-----------------------------------------------------------------------------
(***************************************************************************)
(* Late answers.  Reads may time out here, and answers be left behind for  *)
(* later calls.  What keeps an old answer from being taken for a new one   *)
(* is the sequence in it: that of the request, which goes up with each     *)
(* Send.  It is a byte; the bound on the calls keeps it from coming round. *)
(***************************************************************************)
\* The Send that a sequence was for, counted from the first.
Nth(sequence) == IF sequence >= SequenceStart THEN sequence - SequenceStart
                                              ELSE sequence + 256 - SequenceStart
Latest == Nth(zero.sequence)

\* A call sends at most a CLOSE_SOCKET, a RESET and a SELECT_MODE.
ToSend == IF call.pc = "closing" THEN 2 ELSE IF call.pc = "resetting" THEN 1 ELSE 0
Few == Latest + ToSend <= 3 * calls

\* Requests are answered in the order of their sequences. The sequence goes up
\* behind a CLOSE_SOCKET, and not behind an OPEN_SOCKET or a PASSWORD.
Waiting ==
  \A j \in 1..Len(down) :
    /\ Nth(down[j].sequence) <= Latest
    /\ down[j].command = "CLOSE_SOCKET" => Nth(down[j].sequence) < Latest
    /\ \A k \in j..Len(down) : Nth(down[j].sequence) <= Nth(down[k].sequence)

\* An answer is older than what is still to be answered; a socket that was opened
\* since the last Send has not been closed.
Brought ==
  \A i \in 1..Len(up) :
    /\ Nth(up[i].sequence) <= Latest
    /\ \A j \in 1..Len(down) : Nth(up[i].sequence) <= Nth(down[j].sequence)
    /\ up[i].command = "OPENED_SOCKET" /\ up[i].sequence = zero.sequence => up[i].socket \in device.open

\* An opening goes by the sequence that the next Send will use.
Flagged == call.pc \in {"opening", "authenticating"} => call.flag = zero.sequence

Late == Few /\ Waiting /\ Brought /\ Flagged

LEMMA NthIs ==
  /\ \A s \in 0..255 : Nth(s) \in 0..255
  /\ \A s \in 0..255 : Nth(s) <= 254 => Nth((s + 1) % 256) = Nth(s) + 1
  /\ \A s, t \in 0..255 : Nth(s) = Nth(t) => s = t
<1>1. \A s \in 0..255 : Nth(s) \in 0..255
  BY SequenceAssumption DEF Nth
<1>2. ASSUME NEW s \in 0..255, Nth(s) <= 254 PROVE Nth((s + 1) % 256) = Nth(s) + 1
  <2>1. CASE s = 255
    <3>1. (s + 1) % 256 = 0
      BY <2>1
    <3>. QED BY <1>2, <2>1, <3>1, SequenceAssumption DEF Nth
  <2>2. CASE s # 255
    <3>1. (s + 1) % 256 = s + 1
      BY <2>2
    <3>. QED BY <1>2, <2>2, <3>1, SequenceAssumption DEF Nth
  <2>. QED BY <2>1, <2>2
<1>3. \A s, t \in 0..255 : Nth(s) = Nth(t) => s = t
  BY SequenceAssumption DEF Nth
<1>. QED BY <1>1, <1>2, <1>3, Zenon

LEMMA Order ==
  \A x, y, z \in 0..255 :
    /\ (x <= y /\ y <= z) => x <= z
    /\ (x <= y /\ y < z) => (x < z /\ x <= z)
    /\ (x < y /\ y <= z) => (x < z /\ x <= z)
OBVIOUS

LEMMA LastOne ==
  ASSUME NEW n \in Nat, NEW j \in 1..(n + 1)
  PROVE  /\ j \in 1..n \/ j = n + 1
         /\ \A k \in j..(n + 1) : (j \in 1..n /\ k \in j..n) \/ k = n + 1
OBVIOUS

LEMMA Sequences ==
  ASSUME Typed
  PROVE  /\ zero.sequence \in 0..255 /\ Latest \in 0..255
         /\ \A j \in 1..Len(down) : down[j].sequence \in 0..255 /\ Nth(down[j].sequence) \in 0..255
         /\ \A i \in 1..Len(up) : up[i].sequence \in 0..255 /\ Nth(up[i].sequence) \in 0..255
         /\ Len(down) \in Nat /\ Len(up) \in Nat
<1>1. zero.sequence \in 0..255
  BY DEF Typed, ZeroRecord
<1>2. \A j \in 1..Len(down) : down[j].sequence \in 0..255
  <2>1. \A j \in 1..Len(down) : down[j] \in Requests
    BY DEF Typed
  <2>. QED BY <2>1 DEF Requests
<1>3. \A i \in 1..Len(up) : up[i].sequence \in 0..255
  <2>1. \A i \in 1..Len(up) : up[i] \in Responses
    BY DEF Typed
  <2>. QED BY <2>1 DEF Responses
<1>4. Len(down) \in Nat /\ Len(up) \in Nat
  BY DEF Typed
<1>. QED BY <1>1, <1>2, <1>3, <1>4, NthIs, Zenon DEF Latest

\* The host reads an answer, or none.
Reads == up' = up \/ (up # <<>> /\ up' = Tail(up))

LEMMA Remaining ==
  ASSUME Typed, Reads
  PROVE  \A i \in 1..Len(up') : \E n \in 1..Len(up) : up'[i] = up[n]
<1>1. CASE up' = up
  BY <1>1
<1>2. CASE up # <<>> /\ up' = Tail(up)
  <2>1. Len(up') = Len(up) - 1 /\ \A i \in 1..Len(up') : up'[i] = up[i + 1]
    BY <1>2, HeadTailProperties DEF Typed
  <2>. QED BY <2>1, Sequences
<1>. QED BY <1>1, <1>2 DEF Reads

\* It reads, and sends nothing.
LEMMA ReadsOn ==
  ASSUME Typed, Waiting, Brought, Reads, down' = down, device' = device, zero'.sequence = zero.sequence
  PROVE  Waiting' /\ Brought' /\ Latest' = Latest
<1>1. Latest' = Latest
  BY DEF Latest
<1>2. Waiting'
  BY <1>1 DEF Waiting
<1>3. ASSUME NEW i \in 1..Len(up')
      PROVE  /\ Nth(up'[i].sequence) <= Latest
             /\ \A j \in 1..Len(down) : Nth(up'[i].sequence) <= Nth(down[j].sequence)
             /\ up'[i].command = "OPENED_SOCKET" /\ up'[i].sequence = zero.sequence => up'[i].socket \in device.open
  <2>1. PICK n \in 1..Len(up) : up'[i] = up[n]
    BY Remaining
  <2>. QED BY <2>1 DEF Brought
<1>4. Brought'
  BY <1>1, <1>3 DEF Brought
<1>. QED BY <1>1, <1>2, <1>4

\* It sends a request r after reading.
Posts(r) ==
  /\ down' = Append(down, r) /\ Nth(r.sequence) = Latest
  /\ zero'.sequence = zero.sequence \/ Latest < Latest'
  /\ r.command = "CLOSE_SOCKET" => Latest < Latest'
LEMMA SendsOn ==
  ASSUME Typed, Waiting, Brought, Reads, device' = device, NEW r \in Requests, Posts(r),
         NEW a \in 0..255, a = Latest, NEW b \in 0..255, b = Latest', a <= b
  PROVE  Waiting' /\ Brought'
<1>1. /\ Len(down') = Len(down) + 1 /\ down'[Len(down) + 1] = r
      /\ \A j \in 1..Len(down) : down'[j] = down[j]
  BY DEF Typed, Posts
<1>0. a = Latest /\ b = Latest'
  OBVIOUS
<1>2. a <= b /\ Nth(r.sequence) = a /\ (r.command = "CLOSE_SOCKET" => a < b)
  BY DEF Posts
<1>3. /\ \A j \in 1..Len(down') : /\ j \in 1..Len(down) \/ j = Len(down) + 1
                                  /\ \A k \in j..Len(down') : (j \in 1..Len(down) /\ k \in j..Len(down))
                                                               \/ k = Len(down) + 1
      /\ \A k \in (Len(down) + 1)..Len(down') : k = Len(down) + 1
  <2>1. PICK n \in Nat : n = Len(down)
    BY Sequences
  <2>2. \A k \in (n + 1)..(n + 1) : k = n + 1
    OBVIOUS
  <2>. QED BY <1>1, <2>1, <2>2, LastOne
<1>4. Waiting'
  <2>1. ASSUME NEW j \in 1..Len(down')
        PROVE  /\ Nth(down'[j].sequence) <= b
               /\ down'[j].command = "CLOSE_SOCKET" => Nth(down'[j].sequence) < b
               /\ \A k \in j..Len(down') : Nth(down'[j].sequence) <= Nth(down'[k].sequence)
    <3>1. CASE j \in 1..Len(down)
      <4>1. Nth(down[j].sequence) <= a /\ Nth(down[j].sequence) \in 0..255
        <5>1. Nth(down[j].sequence) \in 0..255
          BY <3>1, Sequences, Zenon
        <5>. QED BY <1>0, <3>1, <5>1 DEF Waiting
      <4>2. down[j].command = "CLOSE_SOCKET" => Nth(down[j].sequence) < a
        BY <1>0, <3>1 DEF Waiting
      <4>3. ASSUME NEW k \in j..Len(down') PROVE Nth(down[j].sequence) <= Nth(down'[k].sequence)
        <5>1. CASE k \in j..Len(down)
          <6>1. PICK n \in Nat : n = Len(down)
            BY Sequences
          <6>2. k \in 1..Len(down)
            BY <3>1, <5>1, <6>1
          <6>3. Nth(down[j].sequence) <= Nth(down[k].sequence)
            BY <3>1, <5>1 DEF Waiting
          <6>. QED BY <1>1, <6>2, <6>3
        <5>2. CASE k = Len(down) + 1
          BY <1>1, <1>2, <4>1, <5>2
        <5>. QED BY <1>3, <4>3, <5>1, <5>2
      <4>4. down'[j] = down[j]
        BY <1>1, <3>1
      <4>5. Nth(down[j].sequence) <= b
        BY <1>2, <4>1, Order, Zenon
      <4>6. down[j].command = "CLOSE_SOCKET" => Nth(down[j].sequence) < b
        BY <1>2, <4>1, <4>2, Order, Zenon
      <4>. QED BY <4>3, <4>4, <4>5, <4>6
    <3>2. CASE j = Len(down) + 1
      <4>1. \A k \in j..Len(down') : k = j
        BY <1>3, <3>2
      <4>2. down'[j] = r
        BY <1>1, <3>2
      <4>3. Nth(r.sequence) <= b /\ Nth(r.sequence) <= Nth(r.sequence)
        BY <1>2
      <4>. QED BY <1>2, <4>1, <4>2, <4>3
    <3>. QED BY <1>3, <3>1, <3>2
  <2>. QED BY <1>0, <2>1 DEF Waiting
<1>5. Brought'
  <2>1. ASSUME NEW i \in 1..Len(up')
        PROVE  /\ Nth(up'[i].sequence) <= b
               /\ \A j \in 1..Len(down') : Nth(up'[i].sequence) <= Nth(down'[j].sequence)
               /\ up'[i].command = "OPENED_SOCKET" /\ up'[i].sequence = zero'.sequence
                    => up'[i].socket \in device.open
    <3>1. PICK n \in 1..Len(up) : up'[i] = up[n]
      BY Remaining
    <3>2. Nth(up'[i].sequence) <= a /\ Nth(up'[i].sequence) \in 0..255
      BY <1>0, <3>1, Sequences DEF Brought
    <3>3. ASSUME NEW j \in 1..Len(down') PROVE Nth(up'[i].sequence) <= Nth(down'[j].sequence)
      <4>1. CASE j \in 1..Len(down)
        BY <1>1, <3>1, <4>1 DEF Brought
      <4>2. CASE j = Len(down) + 1
        BY <1>1, <1>2, <3>2, <4>2
      <4>. QED BY <1>3, <4>1, <4>2
    <3>4. a < b => up'[i].sequence # zero'.sequence
      <4>1. up'[i].sequence = zero'.sequence => Nth(up'[i].sequence) = b
        BY <1>0, Zenon DEF Latest
      <4>. QED BY <3>2, <4>1
    <3>5. up[n].command = "OPENED_SOCKET" /\ up[n].sequence = zero.sequence => up[n].socket \in device.open
      BY DEF Brought
    <3>6. zero'.sequence = zero.sequence \/ a < b
      BY <1>0 DEF Posts
    <3>7. Nth(up'[i].sequence) <= b
      BY <1>2, <3>2, Order, Zenon
    <3>. QED BY <3>1, <3>3, <3>4, <3>5, <3>6, <3>7
  <2>. QED BY <1>0, <2>1 DEF Brought
<1>. QED BY <1>4, <1>5

LEMMA RawSendsOn ==
  ASSUME Typed, Waiting, Brought, up' = up, device' = device, zero'.sequence = zero.sequence,
         NEW x \in Commands, x # "CLOSE_SOCKET", NEW s \in Number, NEW h \in Hash, RawSend(x, s, h)
  PROVE  Waiting' /\ Brought' /\ Latest' = Latest
<1>1. PICK r : r = [command |-> x, socket |-> s, hash |-> h, sequence |-> zero.sequence]
  OBVIOUS
<1>2. r \in Requests /\ r.sequence = zero.sequence /\ r.command # "CLOSE_SOCKET"
  BY <1>1, Sequences DEF Requests
<1>3. Latest' = Latest
  BY DEF Latest
<1>4. Posts(r)
  <2>1. down' = Append(down, r)
    BY <1>1, Zenon DEF RawSend
  <2>2. Nth(r.sequence) = Latest
    BY <1>2 DEF Latest
  <2>. QED BY <1>2, <2>1, <2>2 DEF Posts
<1>5. PICK a \in 0..255 : a = Latest
  BY Sequences
<1>6. Reads /\ a <= a /\ a = Latest'
  BY <1>3, <1>5 DEF Reads
<1>. QED BY <1>2, <1>3, <1>4, <1>5, <1>6, SendsOn, Zenon

LEMMA SendIs ==
  ASSUME Typed, Waiting, Brought, Reads, device' = device, Latest <= 254,
         NEW x \in Commands, NEW s \in Number, Send(x, s)
  PROVE  Waiting' /\ Brought' /\ Latest' = Latest + 1
<1>1. PICK r : r = [command |-> x, socket |-> s, hash |-> NoHash, sequence |-> zero.sequence]
  OBVIOUS
<1>2. r \in Requests /\ r.sequence = zero.sequence
  BY <1>1, Sequences, NewTypes DEF Requests
<1>3. zero'.sequence = (zero.sequence + 1) % 256
  BY DEF Send, Typed, ZeroRecord
<1>4. PICK a \in 0..255 : a = Latest
  BY Sequences
<1>5. Latest' = a + 1
  <2>1. Nth((zero.sequence + 1) % 256) = Latest + 1
    BY NthIs, Sequences, Zenon DEF Latest
  <2>. QED BY <1>3, <1>4, <2>1 DEF Latest
<1>6. PICK b \in 0..255 : b = a + 1
  BY <1>4
<1>7. a < b /\ a <= b /\ b = Latest'
  BY <1>5, <1>6
<1>8. Posts(r)
  <2>1. down' = Append(down, r)
    BY <1>1, Zenon DEF Send, RawSend
  <2>2. Nth(r.sequence) = Latest
    BY <1>2 DEF Latest
  <2>. QED BY <1>4, <1>7, <2>1, <2>2 DEF Posts
<1>9. Waiting' /\ Brought'
  BY <1>2, <1>4, <1>7, <1>8, SendsOn, Zenon
<1>. QED BY <1>4, <1>5, <1>9

\* The device answers its oldest request, with the sequence of that request.
LEMMA RepliesOn ==
  ASSUME Typed, Waiting, Brought, down # <<>>, NEW d \in DeviceRecord, NEW p \in Seq(Responses), Answer(d, p),
         \A i \in 1..Len(p) : /\ p[i].sequence = Request.sequence
                              /\ p[i].command = "OPENED_SOCKET" => p[i].socket \in d.open,
         device.open \subseteq d.open \/ Request.command = "CLOSE_SOCKET"
  PROVE  Waiting' /\ Brought' /\ Latest' = Latest
<1>1. /\ 1 \in 1..Len(down) /\ Request = down[1] /\ Len(down') = Len(down) - 1
      /\ \A j \in 1..Len(down') : down'[j] = down[j + 1]
  BY HeadTailProperties DEF Typed, Answer, Request
<1>2. /\ \A j \in 1..Len(down') : j + 1 \in 1..Len(down)
      /\ \A j \in 1..Len(down') : \A k \in j..Len(down') : k \in 1..Len(down') /\ k + 1 \in (j + 1)..Len(down)
  <2>1. PICK n \in Nat : n = Len(down)
    BY Sequences
  <2>. QED BY <1>1, <2>1
<1>3. zero' = zero /\ device' = d /\ Latest' = Latest
  BY DEF Answer, Latest
<1>4. Waiting'
  <2>1. ASSUME NEW j \in 1..Len(down')
        PROVE  /\ Nth(down'[j].sequence) <= Latest
               /\ down'[j].command = "CLOSE_SOCKET" => Nth(down'[j].sequence) < Latest
               /\ \A k \in j..Len(down') : Nth(down'[j].sequence) <= Nth(down'[k].sequence)
    BY <1>1, <1>2 DEF Waiting
  <2>. QED BY <1>3, <2>1 DEF Waiting
<1>5. PICK b \in {<<>>, <<Handshake(0)>>} : up' = up \o b \o p
  BY DEF Answer
<1>6. b \in Seq(Responses) /\ \A i \in 1..Len(b) : b[i].sequence = Request.sequence /\ b[i].command # "OPENED_SOCKET"
  <2>1. PICK h : h = Handshake(0)
    OBVIOUS
  <2>2. h \in Responses
    BY <2>1, PacketTyped DEF Handshake, Answers, Number, Typed
  <2>3. h.sequence = Request.sequence /\ h.command = "SEQUENCE_HANDSHAKE"
    BY <2>1 DEF Handshake, Packet
  <2>4. CASE b = <<>>
    BY <2>4
  <2>5. CASE b = <<h>>
    BY <2>2, <2>3, <2>5
  <2>. QED BY <1>5, <2>1, <2>4, <2>5
<1>7. ASSUME NEW i \in 1..Len(up')
      PROVE  \/ \E n \in 1..Len(up) : up'[i] = up[n]
             \/ /\ up'[i].sequence = Request.sequence
                /\ up'[i].command = "OPENED_SOCKET" => up'[i].socket \in d.open
  <2>1. /\ up \o b \in Seq(Responses) /\ Len(up \o b) = Len(up) + Len(b)
        /\ \A n \in 1..Len(up \o b) : (up \o b)[n] = IF n <= Len(up) THEN up[n] ELSE b[n - Len(up)]
    BY <1>6, ConcatProperties DEF Typed
  <2>2. PICK w \in Seq(Responses) : w = up \o b
    BY <2>1
  <2>3. /\ up' = w \o p /\ Len(up') = Len(w) + Len(p)
        /\ \A n \in 1..Len(up') : up'[n] = IF n <= Len(w) THEN w[n] ELSE p[n - Len(w)]
    BY <1>5, <2>2, ConcatProperties
  <2>4. PICK u \in Nat, v \in Nat, l \in Nat : u = Len(up) /\ v = Len(b) /\ l = Len(p)
    <3>1. Len(up) \in Nat /\ Len(b) \in Nat /\ Len(p) \in Nat
      BY <1>6, Sequences, LenProperties
    <3>. QED BY <3>1
  <2>5. Len(w) = u + v /\ i \in 1..(u + v + l)
    BY <2>1, <2>2, <2>3, <2>4
  <2>6. CASE i <= u
    BY <2>1, <2>2, <2>3, <2>4, <2>5, <2>6
  <2>7. CASE i > u /\ i <= u + v
    <3>1. up'[i] = b[i - u] /\ i - u \in 1..v
      BY <2>1, <2>2, <2>3, <2>4, <2>5, <2>7
    <3>. QED BY <1>6, <2>4, <3>1
  <2>8. CASE i > u + v
    <3>1. up'[i] = p[i - (u + v)] /\ i - (u + v) \in 1..l
      BY <2>1, <2>2, <2>3, <2>4, <2>5, <2>8
    <3>. QED BY <2>4, <3>1
  <2>. QED BY <2>4, <2>5, <2>6, <2>7, <2>8
<1>8. ASSUME NEW i \in 1..Len(up')
      PROVE  /\ Nth(up'[i].sequence) <= Latest
             /\ \A j \in 1..Len(down') : Nth(up'[i].sequence) <= Nth(down'[j].sequence)
             /\ up'[i].command = "OPENED_SOCKET" /\ up'[i].sequence = zero.sequence => up'[i].socket \in d.open
  <2>1. CASE \E n \in 1..Len(up) : up'[i] = up[n]
    <3>1. PICK n \in 1..Len(up) : up'[i] = up[n]
      BY <2>1
    <3>2. Nth(up'[i].sequence) <= Latest
      BY <3>1 DEF Brought
    <3>3. ASSUME NEW j \in 1..Len(down') PROVE Nth(up'[i].sequence) <= Nth(down'[j].sequence)
      BY <1>1, <1>2, <3>1 DEF Brought
    <3>4. ASSUME up'[i].command = "OPENED_SOCKET", up'[i].sequence = zero.sequence PROVE up'[i].socket \in d.open
      <4>1. up'[i].socket \in device.open
        BY <3>1, <3>4 DEF Brought
      <4>2. Request.command # "CLOSE_SOCKET"
        <5> SUFFICES ASSUME Request.command = "CLOSE_SOCKET" PROVE FALSE
          OBVIOUS
        <5>1. Nth(down[1].sequence) < Latest
          BY <1>1 DEF Waiting
        <5>2. Nth(up[n].sequence) <= Nth(down[1].sequence)
          BY <1>1 DEF Brought
        <5>3. Nth(up[n].sequence) = Latest
          BY <3>1, <3>4 DEF Latest
        <5>4. PICK x \in 0..255 : x = Latest
          BY Sequences
        <5>5. PICK y \in 0..255 : y = Nth(down[1].sequence)
          BY <1>1, Sequences, Zenon
        <5>. QED BY <5>1, <5>2, <5>3, <5>4, <5>5
      <4>. QED BY <4>1, <4>2
    <3>. QED BY <3>2, <3>3, <3>4
  <2>2. CASE /\ up'[i].sequence = Request.sequence
             /\ up'[i].command = "OPENED_SOCKET" => up'[i].socket \in d.open
    <3>1. ASSUME NEW j \in 1..Len(down') PROVE Nth(down[1].sequence) <= Nth(down'[j].sequence)
      <4>1. down'[j] = down[j + 1] /\ j + 1 \in 1..Len(down)
        BY <1>1, <1>2
      <4>2. \A k \in 1..Len(down) : Nth(down[1].sequence) <= Nth(down[k].sequence)
        BY <1>1 DEF Waiting
      <4>. QED BY <4>1, <4>2
    <3>. QED BY <1>1, <2>2, <3>1 DEF Waiting
  <2>. QED BY <1>7, <2>1, <2>2
<1>9. Brought'
  BY <1>3, <1>8 DEF Brought
<1>. QED BY <1>3, <1>4, <1>9

\* What does not send anything, or begin to open.
Steady ==
  /\ Reads /\ down' = down /\ device' = device /\ zero'.sequence = zero.sequence /\ calls <= calls'
  /\ \/ call'.pc \notin {"opening", "authenticating", "closing", "resetting"}
     \/ call'.pc = call.pc /\ call'.flag = call.flag

LEMMA SteadyStep ==
  ASSUME Typed, Typed', Late, Steady
  PROVE  Late'
<1>1. Waiting' /\ Brought' /\ Latest' = Latest
  BY ReadsOn DEF Late, Steady
<1>2. Few'
  <2>1. Latest \in 0..255 /\ calls \in Nat /\ calls' \in Nat /\ calls <= calls'
    BY Sequences, BoundsAssumption DEF Typed, Steady
  <2>2. PICK n \in 0..2 : n = ToSend /\ (ToSend' = n \/ ToSend' = 0)
    BY DEF Steady, ToSend
  <2>. QED BY <1>1, <2>1, <2>2 DEF Late, Few
<1>3. Flagged'
  BY DEF Late, Flagged, Steady
<1>. QED BY <1>1, <1>2, <1>3 DEF Late

\* A Send, by a call that has n left to send.
LEMMA SendStep ==
  ASSUME 3 * MaxCalls <= 255, Typed, Typed', Late, Reads, device' = device, NEW x \in Commands, NEW s \in Number,
         Send(x, s), NEW n \in Nat, Latest + 1 + n <= 3 * calls', ToSend' = n,
         call'.pc \notin {"opening", "authenticating"}
  PROVE  Late'
<1>1. Latest \in 0..255 /\ calls' \in 0..MaxCalls /\ MaxCalls \in Nat
  BY Sequences, BoundsAssumption DEF Typed
<1>2. Latest <= 254
  <2>1. PICK c \in Nat : c = calls' /\ c <= MaxCalls
    BY <1>1
  <2>2. PICK l \in 0..255 : l = Latest
    BY <1>1
  <2>3. \A k \in Nat : 3 * k <= 255 /\ l + 1 + n <= 3 * c /\ c <= k => l <= 254
    OBVIOUS
  <2>. QED BY <1>1, <2>1, <2>2, <2>3
<1>3. Waiting' /\ Brought' /\ Latest' = Latest + 1
  BY <1>2, SendIs DEF Late
<1>4. Few'
  BY <1>1, <1>3 DEF Few
<1>. QED BY <1>3, <1>4 DEF Late, Flagged

LEMMA SelectLater ==
  ASSUME 3 * MaxCalls <= 255, Typed, Typed', Late, Reads, device' = device, Latest + 1 <= 3 * calls',
         NEW c \in CallRecord, SelectMode(c)
  PROVE  Late'
<1>1. PICK z \in Number : z = 0
  BY DEF Number
<1>2. PICK x \in Commands : x = IF c.mode \in DesktopModes THEN "SELECT_DESKTOP" ELSE "SELECT_MODE"
  BY DEF Commands
<1>3. Send(x, z) /\ call'.pc = "selecting"
  BY <1>1, <1>2 DEF SelectMode, Await, CallRecord
<1>4. PICK n \in Nat : n = 0
  OBVIOUS
<1>5. ToSend' = n
  BY <1>3, <1>4 DEF ToSend
<1>6. Latest + 1 + n <= 3 * calls'
  <2>1. PICK l \in 0..255 : l = Latest
    BY Sequences
  <2>2. l + 1 + n = l + 1
    BY <1>4
  <2>. QED BY <2>1, <2>2
<1>. QED BY <1>3, <1>5, <1>6, SendStep

LEMMA CloseLater ==
  ASSUME 3 * MaxCalls <= 255, Typed, Typed', Late, Reads, device' = device, Latest + 3 <= 3 * calls',
         NEW c \in CallRecord, Close(c)
  PROVE  Late'
<1>1. mode[c.mode].socket \in Number
  BY DEF Typed, CallRecord, ModeRecord
<1>2. PICK x \in Commands : x = "CLOSE_SOCKET"
  BY DEF Commands
<1>3. Send(x, mode[c.mode].socket) /\ call'.pc = "closing"
  BY <1>2 DEF Close, Await, CallRecord
<1>4. PICK n \in Nat : n = 2
  OBVIOUS
<1>5. ToSend' = n
  BY <1>3, <1>4 DEF ToSend
<1>6. Latest + 1 + n <= 3 * calls'
  <2>1. PICK l \in 0..255 : l = Latest
    BY Sequences
  <2>2. l + 1 + n = l + 3
    BY <1>4
  <2>. QED BY <2>1, <2>2
<1>. QED BY <1>1, <1>3, <1>5, <1>6, SendStep

LEMMA ReturnsLater ==
  ASSUME 3 * MaxCalls <= 255, Typed, Typed', Late, Reads, device' = device, calls' = calls,
         call.pc \in {"closing", "resetting"}, CloseReturns
  PROVE  Late'
<1>1. CASE SelectMode(call)
  <2>1. Latest + 1 <= 3 * calls'
    <3>1. Latest \in 0..255 /\ calls \in Nat
      BY Sequences, BoundsAssumption DEF Typed
    <3>2. PICK n \in {1, 2} : n = ToSend
      BY DEF ToSend
    <3>. QED BY <3>1, <3>2 DEF Late, Few
  <2>. QED BY <1>1, <2>1, SelectLater DEF Typed
<1>2. CASE call' = NoCall /\ UNCHANGED <<zero, down>>
  <2>1. Steady
    <3>1. calls \in Nat
      BY BoundsAssumption DEF Typed
    <3>. QED BY <1>2, <3>1 DEF Steady, NoCall
  <2>. QED BY <2>1, SteadyStep
<1>. QED BY <1>1, <1>2 DEF CloseReturns

LEMMA OpensLater ==
  ASSUME Typed, Typed', Late, SendOpen \/ SendPasswordHash
  PROVE  Late'
<1>1. up' = up /\ device' = device /\ zero'.sequence = zero.sequence /\ calls' = calls
  BY DEF SendOpen, SendPasswordHash, Typed, ZeroRecord
<1>2. PICK x \in {"OPEN_SOCKET", "PASSWORD"}, h \in Hash : RawSend(x, number, h)
  <2>1. CASE SendOpen
    BY <2>1, NewTypes DEF SendOpen
  <2>2. CASE SendPasswordHash
    <3>1. [seed |-> zero.seed, password |-> call.password] \in Hash
      BY DEF Typed, ZeroRecord, CallRecord, Hash
    <3>. QED BY <2>2, <3>1 DEF SendPasswordHash
  <2>. QED BY <2>1, <2>2
<1>3. Waiting' /\ Brought' /\ Latest' = Latest
  <2>1. x \in Commands /\ x # "CLOSE_SOCKET"
    BY DEF Commands
  <2>2. number \in Number
    BY OwnTyped, Zenon
  <2>3. PICK n \in Number : n = number
    BY <2>2
  <2>4. RawSend(x, n, h) /\ Waiting /\ Brought
    BY <1>2, <2>3 DEF Late
  <2>. QED BY <1>1, <2>1, <2>4, RawSendsOn
<1>4. call'.pc \in {"opening", "authenticating"} /\ call'.flag = zero.sequence
  BY DEF SendOpen, SendPasswordHash, Await, Typed, CallRecord
<1>5. call.pc \in {"selected", "challenged"}
  BY DEF SendOpen, SendPasswordHash
<1>6. Few'
  <2>1. ToSend = 0 /\ ToSend' = 0
    BY <1>4, <1>5 DEF ToSend
  <2>. QED BY <1>1, <1>3, <2>1 DEF Late, Few
<1>7. Flagged'
  BY <1>1, <1>4 DEF Flagged
<1>. QED BY <1>3, <1>6, <1>7 DEF Late

LEMMA HostLater == 3 * MaxCalls <= 255 /\ Typed /\ Typed' /\ Late /\ Host => Late'
<1> SUFFICES ASSUME 3 * MaxCalls <= 255, Typed, Typed', Late, Host PROVE Late'
  OBVIOUS
<1>0. call \in CallRecord /\ zero \in ZeroRecord /\ calls <= calls
  BY BoundsAssumption DEF Typed
<1>1. CASE SequencePacket \/ check_sequence
  <2>1. Steady
    BY <1>0, <1>1 DEF SequencePacket, check_sequence, RawReceive, Steady, Reads, CallRecord
  <2>. QED BY <2>1, SteadyStep
<1>2. CASE mode_selected \/ extra_packet
  <2>1. Selected => call'.pc = "selected"
    BY <1>0 DEF Selected, Await, CallRecord
  <2>2. Await(call, "extra") => call'.pc = "extra"
    BY <1>0 DEF Await, CallRecord
  <2>3. NoCall.pc = "idle"
    BY DEF NoCall
  <2>4. Steady
    BY <1>0, <1>2, <2>1, <2>2, <2>3 DEF mode_selected, extra_packet, RawReceive, Steady, Reads, ZeroRecord
  <2>. QED BY <2>4, SteadyStep
<1>3. CASE SendOpen \/ SendPasswordHash
  BY <1>3, OpensLater
<1>4. CASE still_half_open \/ refuse_password
  <2>0. call'.pc \in {"challenged", "idle"}
    <3>1. CASE still_half_open
      BY <1>0, <3>1 DEF still_half_open, Await, CallRecord
    <3>2. CASE refuse_password
      BY <3>2 DEF refuse_password, BadPassword, NoCall
    <3>. QED BY <1>4, <3>1, <3>2
  <2>1. Steady
    BY <1>0, <1>4, <2>0 DEF still_half_open, refuse_password, Steady, Reads
  <2>. QED BY <2>1, SteadyStep
<1>5. CASE password_challenge \/ password_failed
  <2>1. zero' = Challenged /\ zero'.sequence = zero.sequence
    BY <1>0, <1>5 DEF password_challenge, password_failed, Challenged, ZeroRecord
  <2>0. call'.pc \in {"challenged", "idle"}
    <3>1. CASE password_challenge
      BY <1>0, <3>1 DEF password_challenge, Await, CallRecord
    <3>2. CASE password_failed
      BY <3>2 DEF password_failed, BadPassword, NoCall
    <3>. QED BY <1>5, <3>1, <3>2
  <2>2. Steady
    BY <1>0, <1>5, <2>0, <2>1 DEF password_challenge, password_failed, Receive, RawReceive, Steady, Reads
  <2>. QED BY <2>2, SteadyStep
<1>6. CASE opened_socket \/ password_accepted
  <2>1. Steady
    BY <1>0, <1>6 DEF opened_socket, password_accepted, Opened, Receive, RawReceive, NoCall, Steady, Reads, ZeroRecord
  <2>. QED BY <2>1, SteadyStep
<1>7. CASE closed_socket
  <2>1. Reads /\ device' = device /\ calls' = calls /\ call.pc = "closing"
    BY <1>7 DEF closed_socket, Receive, RawReceive, Reads
  <2>2. CASE Send("RESET", 0) /\ Await(call, "resetting")
    <3>1. PICK x \in Commands, z \in Number, n \in Nat : x = "RESET" /\ z = 0 /\ n = 1
      BY DEF Commands, Number
    <3>2. Send(x, z) /\ call'.pc = "resetting"
      BY <1>0, <2>2, <3>1 DEF Await, CallRecord
    <3>3. ToSend' = n /\ ToSend = 2
      BY <2>1, <3>1, <3>2 DEF ToSend
    <3>4. Latest + 1 + n <= 3 * calls'
      <4>1. PICK l \in 0..255 : l = Latest
        BY Sequences
      <4>2. l + 1 + n = l + 2
        BY <3>1
      <4>. QED BY <2>1, <3>3, <4>1, <4>2 DEF Late, Few
    <3>. QED BY <2>1, <3>2, <3>3, <3>4, SendStep
  <2>3. CASE CloseReturns
    BY <2>1, <2>3, ReturnsLater
  <2>. QED BY <1>7, <2>2, <2>3 DEF closed_socket
<1>8. CASE reset_reply
  <2>1. Reads /\ device' = device /\ calls' = calls /\ call.pc = "resetting" /\ CloseReturns
    BY <1>8 DEF reset_reply, RawReceive, Reads
  <2>. QED BY <2>1, ReturnsLater
<1>9. CASE bad_closed \/ missing_reset_reply
  <2>1. Steady
    BY <1>0, <1>9 DEF bad_closed, missing_reset_reply, CloseThrows, Receive, RawReceive, NoCall, Steady, Reads
  <2>. QED BY <2>1, SteadyStep
<1>10. CASE timeout
  <2>1. Steady
    BY <1>0, <1>10 DEF timeout, CloseThrows, NoCall, Steady, Reads
  <2>. QED BY <2>1, SteadyStep
<1>. QED BY <1>1, <1>2, <1>3, <1>4, <1>5, <1>6, <1>7, <1>8, <1>9, <1>10 DEF Host

LEMMA ApplicationLater ==
  3 * MaxCalls <= 255 /\ Typed /\ Typed' /\ Late /\ (Application \/ UNCHANGED vars) => Late'
<1> SUFFICES ASSUME 3 * MaxCalls <= 255, Typed, Typed', Late, Application \/ UNCHANGED vars PROVE Late'
  OBVIOUS
<1>0. call \in CallRecord /\ zero \in ZeroRecord /\ calls \in Nat /\ Latest \in 0..255
  BY Sequences, BoundsAssumption DEF Typed
<1>1. \A op \in {"open", "retry", "destroy"}, m \in Modes, p \in Passwords : TheCall(op, m, p) \in CallRecord
  BY NewTypes DEF TheCall, CallRecord
<1>2. ASSUME Begin PROVE calls' = calls + 1 /\ calls <= calls' /\ Latest + 1 <= 3 * calls' /\ Latest + 3 <= 3 * calls'
  <2>1. calls' = calls + 1 /\ ToSend = 0
    BY <1>2 DEF Begin, ToSend
  <2>. QED BY <1>0, <2>1 DEF Late, Few
<1>4. ASSUME NEW m \in Modes, NEW p \in Passwords, Open(m, p) PROVE Late'
  <2> DEFINE c == TheCall("open", m, p)
  <2>1. c \in CallRecord
    BY <1>1
  <2> HIDE DEF c
  <2>0. Begin /\ UNCHANGED <<up, device, timeouts>> /\ Reads
    BY <1>4 DEF Open, Reads
  <2>2. CASE SelectMode(c)
    BY <1>2, <2>0, <2>1, <2>2, SelectLater
  <2>3. CASE Close(c)
    BY <1>2, <2>0, <2>1, <2>3, CloseLater
  <2>4. CASE call' = [c EXCEPT !.pc = "crashed"] /\ UNCHANGED <<zero, mode, down>>
    <3>1. call'.pc = "crashed"
      BY <2>1, <2>4 DEF CallRecord
    <3>2. Steady
      BY <1>2, <2>0, <2>4, <3>1 DEF Steady
    <3>. QED BY <3>2, SteadyStep
  <2>. QED BY <1>4, <2>2, <2>3, <2>4 DEF Open, c
<1>5. ASSUME NEW m \in Modes, NEW p \in Passwords, RetryPassword(m, p) PROVE Late'
  <2>1. call'.pc = "selected"
    <3>1. TheCall("retry", m, p) \in CallRecord
      BY <1>1
    <3>. QED BY <1>5, <3>1 DEF RetryPassword, Await, CallRecord
  <2>2. Steady
    BY <1>2, <1>5, <2>1 DEF RetryPassword, Steady, Reads
  <2>. QED BY <2>2, SteadyStep
<1>6. ASSUME NEW m \in Modes, Destroy(m) PROVE Late'
  <2>0. Begin /\ UNCHANGED <<up, device, timeouts>> /\ Reads
    BY <1>6 DEF Destroy, Reads
  <2>1. TheCall("destroy", m, "none") \in CallRecord
    BY <1>1 DEF Passwords
  <2>2. CASE Close(TheCall("destroy", m, "none"))
    BY <1>2, <2>0, <2>1, <2>2, CloseLater
  <2>3. CASE UNCHANGED <<zero, call, down>>
    <3>1. Steady
      BY <1>2, <2>0, <2>3 DEF Steady
    <3>. QED BY <3>1, SteadyStep
  <2>. QED BY <1>6, <2>2, <2>3 DEF Destroy
<1>7. CASE SetResetOnClose \/ at_rest \/ UNCHANGED vars
  <2>1. calls <= calls
    BY <1>0
  <2>2. Steady
    BY <1>0, <1>7, <2>1 DEF SetResetOnClose, at_rest, vars, Steady, Reads, ZeroRecord
  <2>. QED BY <2>2, SteadyStep
<1>. QED BY <1>4, <1>5, <1>6, <1>7 DEF Application

LEMMA DeviceLater == Typed /\ Late /\ Device => Late'
<1> SUFFICES ASSUME Typed, Late, Device PROVE Late'
  OBVIOUS
<1>0. /\ device \in DeviceRecord /\ Sockets \subseteq Number /\ 0 \in Number
      /\ Waiting /\ Brought
  BY DEF Typed, Number, Late
<1>1. ASSUME Waiting', Brought', Latest' = Latest, UNCHANGED <<zero, call, calls>> PROVE Late'
  BY <1>1 DEF Late, Few, Flagged, ToSend
<1>2. ASSUME NEW x \in Answers, NEW s \in Number, NEW d \in DeviceRecord, down # <<>>,
             NEW e \in DeviceRecord, Answer(d, <<Packet(x, s, e)>>), x = "OPENED_SOCKET" => s \in d.open,
             device.open \subseteq d.open \/ Request.command = "CLOSE_SOCKET"
      PROVE  Late'
  <2>1. PICK r \in Responses : r = Packet(x, s, e)
    BY <1>2, PacketTyped
  <2>2. r.sequence = Request.sequence /\ r.command = x /\ r.socket = s
    BY <2>1 DEF Packet
  <2>3. PICK q : q = <<r>>
    OBVIOUS
  <2>4. q \in Seq(Responses) /\ \A i \in 1..Len(q) : q[i] = r
    BY <2>3
  <2>5. Answer(d, q)
    BY <1>2, <2>1, <2>3
  <2>6. Waiting' /\ Brought' /\ Latest' = Latest
    BY <1>0, <1>2, <2>2, <2>4, <2>5, RepliesOn
  <2>7. UNCHANGED <<zero, call, calls>>
    BY <2>5 DEF Answer
  <2>. QED BY <1>1, <2>6, <2>7
<1>3. CASE answer_select
  <2> PICK s \in Sockets \ device.open :
         \/ Asked("SELECT_MODE") /\ Answer(device, <<Packet("MODE_SELECTED", s, device)>>)
         \/ /\ Asked("SELECT_DESKTOP")
            /\ \E n \in {0, s} : Answer(device, <<Packet("MODE_SELECTED", s, device), Handshake(n)>>)
    BY <1>3 DEF answer_select
  <2>1. down # <<>> /\ s \in Number /\ {"MODE_SELECTED"} \subseteq Answers \ {"OPENED_SOCKET"}
    BY <1>0 DEF Asked, Answers
  <2>2. CASE Answer(device, <<Packet("MODE_SELECTED", s, device)>>)
    BY <1>0, <1>2, <2>1, <2>2
  <2>3. ASSUME NEW n \in {0, s}, Answer(device, <<Packet("MODE_SELECTED", s, device), Handshake(n)>>)
        PROVE  Late'
    <3>1. n \in Number
      BY <1>0, <2>1
    <3>2. PICK a \in Responses, h \in Responses : a = Packet("MODE_SELECTED", s, device) /\ h = Handshake(n)
      BY <1>0, <2>1, <3>1, PacketTyped DEF Handshake, Answers
    <3>3. /\ a.sequence = Request.sequence /\ a.command # "OPENED_SOCKET"
          /\ h.sequence = Request.sequence /\ h.command # "OPENED_SOCKET"
      BY <3>2 DEF Packet, Handshake
    <3>4. PICK q : q = <<a, h>>
      OBVIOUS
    <3>5. q \in Seq(Responses) /\ \A i \in 1..Len(q) : q[i] = a \/ q[i] = h
      BY <3>4
    <3>6. Answer(device, q)
      BY <2>3, <3>2, <3>4
    <3>7. Waiting' /\ Brought' /\ Latest' = Latest
      BY <1>0, <2>1, <3>3, <3>5, <3>6, RepliesOn
    <3>8. UNCHANGED <<zero, call, calls>>
      BY <3>6 DEF Answer
    <3>. QED BY <1>1, <3>7, <3>8
  <2>. QED BY <2>2, <2>3
<1>4. CASE answer_open
  <2>1. down # <<>> /\ Request.socket \in Sockets
    BY <1>4 DEF answer_open, Asked
  <2>2. PICK d \in DeviceRecord : d = [device EXCEPT !.seed = 1 - @, !.pending = Request.socket]
    BY <2>1, NewDevice
  <2>3. PICK e \in DeviceRecord : e = [device EXCEPT !.open = @ \cup {Request.socket}]
    BY <2>1, NewDevice
  <2>4. d.open = device.open /\ e.open = device.open \cup {Request.socket}
    BY <1>0, <2>2, <2>3 DEF DeviceRecord
  <2>5. \/ Answer(d, <<Packet("PASSWORD_CHALLENGE", Request.socket, d)>>)
        \/ Answer(e, <<Packet("OPENED_SOCKET", Request.socket, e)>>)
    BY <1>4, <2>2, <2>3 DEF answer_open
  <2>. QED BY <1>0, <1>2, <2>1, <2>4, <2>5 DEF Answers
<1>5. CASE answer_password
  <2>1. down # <<>> /\ device.tries > 0
    BY <1>5 DEF answer_password, Asked
  <2>2. Request.socket \in Sockets
    BY <1>0, <1>5 DEF answer_password, DeviceRecord, Number
  <2>3. PICK d \in DeviceRecord : d = [device EXCEPT !.seed = 1 - @, !.tries = @ - 1]
    BY <2>1, NewDevice
  <2>4. PICK e \in DeviceRecord : e = [device EXCEPT !.open = @ \cup {Request.socket}, !.pending = 0, !.tries = Tries]
    BY <2>1, <2>2, NewDevice
  <2>5. d.open = device.open /\ e.open = device.open \cup {Request.socket}
    BY <1>0, <2>3, <2>4 DEF DeviceRecord
  <2>6. \/ Answer(d, <<Packet("PASSWORD_FAILED", Request.socket, d)>>)
        \/ Answer(e, <<Packet("OPENED_SOCKET", Request.socket, e)>>)
    BY <1>5, <2>3, <2>4 DEF answer_password
  <2>. QED BY <1>0, <1>2, <2>1, <2>2, <2>5, <2>6 DEF Answers
<1>6. CASE answer_close
  <2>1. down # <<>> /\ Request.command = "CLOSE_SOCKET" /\ Request.socket \in Number
    BY <1>6, NewDevice DEF answer_close, Asked
  <2>2. PICK d \in DeviceRecord : d = [device EXCEPT !.open = @ \ {Request.socket}]
    BY <2>1, NewDevice
  <2>3. Answer(d, <<Packet("CLOSED_SOCKET", Request.socket, device)>>)
    BY <1>6, <2>2 DEF answer_close
  <2>. QED BY <1>0, <1>2, <2>1, <2>3 DEF Answers
<1>7. CASE answer_reset \/ refuse
  <2>1. down # <<>> /\ Request.socket \in Number
    BY <1>7, NewDevice DEF answer_reset, refuse, Asked
  <2>2. \/ Answer(device, <<Packet("RESET_REPLY", 0, device)>>)
        \/ Answer(device, <<Packet("REFUSED", Request.socket, device)>>)
    BY <1>7 DEF answer_reset, refuse
  <2>. QED BY <1>0, <1>2, <2>1, <2>2 DEF Answers
<1>. QED BY <1>3, <1>4, <1>5, <1>6, <1>7 DEF Device

\* What a step does that makes no Socket.
Keeps == \A m \in Modes : mode'[m].handle => mode[m].handle

LEMMA SetModeKeeps ==
  ASSUME Typed, NEW r \in ModeRecord, SetMode(r), r.handle => mode[call.mode].handle
  PROVE  Keeps
BY OwnTyped, Zenon DEF Typed, SetMode, Keeps

LEMMA NewModeKeeps ==
  ASSUME Typed, SetMode(NewMode)
  PROVE  Keeps
BY NewTypes, SetModeKeeps DEF NewMode

LEMMA CloseThrowsKeeps ==
  ASSUME Typed, NEW r \in {ForceClosed, mode[call.mode]}, CloseThrows(r)
  PROVE  Keeps
<1>1. r \in ModeRecord /\ (r.handle => mode[call.mode].handle)
  <2>1. mode[call.mode] \in ModeRecord /\ ForceClosed \in ModeRecord
    BY OwnTyped, Zenon
  <2>2. ForceClosed.handle = mode[call.mode].handle
    BY <2>1 DEF ForceClosed, ModeRecord
  <2>. QED BY <2>1, <2>2
<1>2. SetMode(r) \/ SetMode(NewMode)
  BY DEF CloseThrows
<1>. QED BY <1>1, <1>2, SetModeKeeps, NewModeKeeps

\* All but the end of an Open.
LEMMA OthersKeep ==
  ASSUME Typed, [Next]_vars, ~opened_socket, ~password_accepted
  PROVE  Keeps
<1>1. CASE mode' = mode
  BY <1>1 DEF Keeps
<1>2. ASSUME NEW m \in Modes, mode' = [mode EXCEPT ![m] = NewMode] PROVE Keeps
  BY <1>2 DEF Typed, Keeps, NewMode
<1>3. mode[call.mode] \in ModeRecord
  BY OwnTyped, Zenon
<1>4. ASSUME Selected, up # <<>> PROVE Keeps
  <2>1. Reply.socket \in Number
    BY <1>4, ReplyTyped DEF Responses
  <2>2. PICK r \in ModeRecord : r = [mode[call.mode] EXCEPT !.number = Reply.socket]
    BY <2>1, OwnTyped, Zenon
  <2>3. r.handle = mode[call.mode].handle
    BY <1>3, <2>2 DEF ModeRecord
  <2>4. SetMode(r)
    BY <1>4, <2>2, Zenon DEF Selected
  <2>. QED BY <2>3, <2>4, SetModeKeeps
<1>5. ASSUME BadPassword PROVE Keeps
  <2>1. PICK r \in ModeRecord : r = [mode[call.mode] EXCEPT !.rejected = TRUE]
    BY OwnTyped, Zenon
  <2>2. r.handle = mode[call.mode].handle
    BY <1>3, <2>1 DEF ModeRecord
  <2>3. SetMode(r)
    BY <1>5, <2>1, Zenon DEF BadPassword
  <2>. QED BY <2>2, <2>3, SetModeKeeps
<1>6. CASE mode_selected \/ extra_packet
  BY <1>1, <1>4, <1>6 DEF mode_selected, extra_packet, RawReceive
<1>7. CASE refuse_password \/ password_failed
  BY <1>5, <1>7 DEF refuse_password, password_failed
<1>8. CASE closed_socket \/ reset_reply
  BY <1>1, <1>8, NewModeKeeps DEF closed_socket, reset_reply, CloseReturns
<1>9. CASE bad_closed \/ missing_reset_reply \/ timeout
  BY <1>1, <1>9, CloseThrowsKeeps DEF bad_closed, missing_reset_reply, timeout
<1>10. ASSUME NEW m \in Modes, NEW p \in Passwords, Open(m, p) PROVE Keeps
  BY <1>1, <1>2, <1>10 DEF Open
<1>11. ASSUME NEW m \in Modes, NEW p \in Passwords, RetryPassword(m, p) PROVE Keeps
  BY <1>11 DEF RetryPassword, Typed, ModeRecord, Keeps
<1>12. ASSUME NEW m \in Modes, Destroy(m) PROVE Keeps
  <2>1. mode' = mode \/ mode' = [mode EXCEPT ![m] = NewMode]
    BY <1>12 DEF Destroy
  <2>. QED BY <1>1, <1>2, <2>1
<1>13. CASE Device
  BY <1>1, <1>13 DEF Device, answer_select, answer_open, answer_password, answer_close, answer_reset, refuse, Answer
<1>14. CASE SequencePacket \/ check_sequence \/ SendOpen \/ still_half_open \/ password_challenge \/ SendPasswordHash
  BY <1>1, <1>14 DEF SequencePacket, check_sequence, SendOpen, still_half_open, password_challenge, SendPasswordHash
<1>15. CASE SetResetOnClose \/ at_rest \/ UNCHANGED vars
  BY <1>1, <1>15 DEF SetResetOnClose, at_rest, vars
<1>. QED
  BY <1>6, <1>7, <1>8, <1>9, <1>10, <1>11, <1>12, <1>13, <1>14, <1>15 DEF Next, Host, Application

\* The answer that an Open takes for its own is one to its own request.
LEMMA AcceptedAtDevice ==
  ASSUME Typed, Late, opened_socket \/ password_accepted, NEW m \in Modes, ~mode[m].handle, mode'[m].handle
  PROVE  mode'[m].socket \in device.open
<1>1. /\ up # <<>> /\ Opened /\ call.pc \in {"opening", "authenticating"}
  BY DEF opened_socket, password_accepted, Receive, RawReceive
<1>2. Reply = up[1] /\ 1 \in 1..Len(up)
  BY <1>1, HeadTailProperties DEF Reply, Typed
<1>3. /\ Reply.command = "OPENED_SOCKET" /\ Reply.socket = number /\ Reply.sequence = call.flag
      /\ Accepted
  BY <1>1 DEF Opened
<1>4. call.flag = zero.sequence
  BY <1>1 DEF Late, Flagged
<1>5. number \in device.open
  BY <1>2, <1>3, <1>4 DEF Late, Brought
<1>6. PICK r \in ModeRecord : r = [mode[call.mode] EXCEPT !.handle = TRUE, !.socket = number, !.flag = call.flag]
  BY OwnTyped, Zenon DEF Typed, CallRecord
<1>7. r.socket = number
  BY <1>6, OwnTyped, Zenon DEF ModeRecord
<1>8. mode' = [mode EXCEPT ![call.mode] = r]
  BY <1>3, <1>6, Zenon DEF Accepted, SetMode
<1>. QED BY <1>5, <1>7, <1>8 DEF Typed

LEMMA LateInit == Init => Late
<1> SUFFICES ASSUME Init PROVE Late
  OBVIOUS
<1>1. down = <<>> /\ up = <<>> /\ zero.sequence = SequenceStart /\ calls = 0 /\ call.pc = "idle"
  BY DEF Init, NoCall
<1>2. Latest = 0
  BY <1>1, SequenceAssumption DEF Latest, Nth
<1>3. Few
  BY <1>1, <1>2 DEF Few, ToSend
<1>4. Waiting /\ Brought
  <2>1. Len(down) = 0 /\ Len(up) = 0
    BY <1>1, EmptySeq
  <2>. QED BY <2>1 DEF Waiting, Brought
<1>. QED BY <1>1, <1>3, <1>4 DEF Late, Flagged

LEMMA LateStep == 3 * MaxCalls <= 255 /\ Typed /\ Typed' /\ Late /\ [Next]_vars => Late'
BY HostLater, ApplicationLater, DeviceLater DEF Next

\* A Socket is only ever made for a socket the device has open, also when reads time out and an answer is taken that
\* an earlier call gave up on (socket.cc, the check at the end of SocketZero::Open): for any modes, sockets and tries
\* and any number of time-outs, as long as the calls together cannot bring the sequence, a byte that goes up with
\* each of the at most three Sends of a call, back to where it was.
THEOREM OpenedAtDeviceAlways ==
  ASSUME 3 * MaxCalls <= 255
  PROVE  Spec => OpenedAtDevice
<1> DEFINE Made == \A m \in Modes : (~mode[m].handle /\ mode'[m].handle) => mode'[m].socket \in device.open
<1>1. Init => Typed /\ Late
  BY TypeInit, LateInit
<1>2. Typed /\ Late /\ [Next]_vars => Typed' /\ Late'
  BY TypeHost, TypeApplication, TypeDevice, LateStep DEF Next
<1>3. Typed /\ Late /\ [Next]_vars => [Made]_vars
  <2> SUFFICES ASSUME Typed, Late, [Next]_vars PROVE Made
    OBVIOUS
  <2>1. CASE opened_socket \/ password_accepted
    BY <2>1, AcceptedAtDevice
  <2>2. CASE ~opened_socket /\ ~password_accepted
    BY <2>2, OthersKeep DEF Keeps
  <2>. QED BY <2>1, <2>2
<1>. QED BY <1>1, <1>2, <1>3, PTL DEF Spec, OpenedAtDevice

-----------------------------------------------------------------------------
(***************************************************************************)
(* The JavaLoader on its socket.                                           *)
(***************************************************************************)
Working == {"send", "announced", "answer", "data"}
Busy == Working \cup {"ready"}
Ops == {o.op : o \in Operations}
Starting == loader.op = "StartStream"
Stopping == loader.op \in {"StopStream", "destroy"}
Work == LoaderCommands \ {"HELLO", "SET_UNKNOWN1", "GOODBYE", "DATA"}

LoaderRecord == [started : BOOLEAN, op : {"none", "StartStream", "StopStream", "destroy"} \cup Ops,
                 todo : Seq(LoaderCommands), at : Busy \cup {"idle", "destroyed"}]
MachineRecord == [ready : BOOLEAN, stream : {"none", "greeted", "open", "kept"},
                  mustReset : BOOLEAN, announced : HasData \cup {"none"}]

\* A working loader has a packet to send, and one that is not has none; while it is at
\* anything, no call of SocketZero is in progress.
LoaderTyped ==
  /\ loader \in LoaderRecord /\ machine \in MachineRecord
  /\ loader.at \in Working <=> loader.todo # <<>>
  /\ loader.at # "idle" => call.pc \in {"idle", "crashed"}

LEMMA LoaderTypes == LoaderTypeOK <=> Typed /\ loader \in LoaderRecord /\ machine \in MachineRecord
<1>1. Busy \cup {"idle", "destroyed"} = {"idle", "ready", "send", "announced", "answer", "data", "destroyed"}
  BY DEF Busy, Working
<1>. QED BY <1>1, TypedIs DEF LoaderTypeOK, LoaderRecord, MachineRecord, Ops

\* The commands of the operations, and that their lists are such.
LEMMA Works ==
  /\ Work \subseteq LoaderCommands
  /\ {"SET_COD_FILENAME", "SET_COD_SIZE", "SET_TIME", "GET_SUBDIR", "GET_DATA_ENTRY", "GET_SUBDIR_ENTRY",
      "GET_SCREENSHOT", "ERASE", "FORCE_ERASE", "GET_LOG_ENTRY", "SAVE_MODULE", "PUT_DATA", "GET_DATA",
      "DEVICE_INFO", "OS_METRICS", "BOOTROM_METRICS", "GET_DIRECTORY", "GET_LOG", "CLEAR_LOG",
      "WIPE_APPS", "WIPE_FS", "LOG_STRACES", "RESET_FACTORY"} \subseteq Work
BY DEF Work, LoaderCommands, HasData, SimpleCmd

LEMMA Constant ==
  ASSUME NEW S, NEW n \in Nat, NEW e \in S, NEW f \in S
  PROVE  [i \in 1..n |-> e] \in Seq(S) /\ Pairs(e, f, n) \in Seq(S)
<1>1. [i \in 1..n |-> e] \in [1..n -> S]
  OBVIOUS
<1>2. 2 * n \in Nat /\ Pairs(e, f, n) \in [1..2 * n -> S]
  BY DEF Pairs
<1>3. \A m \in Nat : \A g \in [1..m -> S] : g \in Seq(S)
  BY SeqDef
<1>. QED BY <1>1, <1>2, <1>3

LEMMA OperationsWork ==
  \A o \in Operations : o.op \in Ops /\ o.todo \in Seq(Work) /\ o.todo # <<>>
<1> SUFFICES ASSUME NEW o \in Operations PROVE o.todo \in Seq(Work) /\ o.todo # <<>>
  BY DEF Ops
<1>1. ASSUME NEW e \in Work, NEW f \in Work, NEW g \in Work
      PROVE  /\ <<e>> \in Seq(Work) /\ <<e>> # <<>>
             /\ <<e, f>> \in Seq(Work) /\ <<e, f>> # <<>>
             /\ <<e, f, g>> \in Seq(Work) /\ <<e, f, g>> # <<>>
             /\ <<e>> \o <<>> = <<e>> /\ <<e>> \o <<f>> = <<e, f>> /\ <<>> \o <<f>> = <<f>>
  <2>1. <<e>> \in Seq(Work) /\ <<f>> \in Seq(Work)
    OBVIOUS
  <2>2. <<e>> \o <<>> = <<e>> /\ <<>> \o <<f>> = <<f>>
    BY <2>1, ConcatEmptySeq
  <2>3. <<e>> \o <<f>> = <<e, f>>
    BY Joined, <2>1, ConcatEmptySeq
  <2>. QED BY <2>1, <2>2, <2>3
<1>2. ASSUME NEW n \in 1..MaxPackets PROVE SendStream(n) \in Seq(Work) /\ Len(SendStream(n)) \in Nat \ {0}
  <2>1. n \in Nat /\ "PUT_DATA" \in Work /\ "SET_COD_SIZE" \in Work
    BY EntriesAssumption, Works
  <2>2. PICK q \in Seq(Work) : q = [i \in 1..n |-> "PUT_DATA"]
    BY <2>1, Constant
  <2>3. <<"SET_COD_SIZE">> \in Seq(Work) /\ Len(<<"SET_COD_SIZE">>) = 1
    BY <2>1
  <2>. QED BY <2>2, <2>3, ConcatProperties DEF SendStream
<1>3. ASSUME NEW file \in CodFiles PROVE LoadApp(file[1], file[2]) \in Seq(Work) /\ LoadApp(file[1], file[2]) # <<>>
  <2>1. PICK n \in 1..MaxPackets : file[1] = n
    BY DEF CodFiles
  <2>2. file[2] = <<>> \/ \E m \in 1..MaxPackets : file[2] = <<m>>
    BY DEF CodFiles
  <2>3. CASE file[2] = <<>>
    <3>1. LoadApp(file[1], file[2]) = SendStream(n)
      BY <2>1, <2>3 DEF LoadApp
    <3>. QED BY <1>2, <3>1
  <2>4. ASSUME NEW m \in 1..MaxPackets, file[2] = <<m>>
        PROVE  LoadApp(file[1], file[2]) \in Seq(Work) /\ LoadApp(file[1], file[2]) # <<>>
    <3>1. LoadApp(file[1], file[2]) = SendStream(n) \o SendStream(m)
      BY <2>1, <2>4, Tuples DEF LoadApp
    <3>2. LoadApp(file[1], file[2]) \in Seq(Work) /\ Len(LoadApp(file[1], file[2])) > 0
      BY <1>2, <3>1, ConcatProperties
    <3>. QED BY <3>2
  <2>. QED BY <2>2, <2>3, <2>4
<1>4. CASE \E apps, fs \in BOOLEAN : (apps \/ fs) /\ o.todo = Wipe(apps, fs)
  BY <1>1, <1>4, Works DEF Wipe
<1>5. CASE \E file \in CodFiles : o.todo = LoadApp(file[1], file[2])
  BY <1>3, <1>5
<1>6. CASE o.todo \in {DoErase("ERASE"), DoErase("FORCE_ERASE"), GetScreenshot, Save}
  <2>1. \A e, f \in Work : <<e, f>> \in Seq(Work) /\ <<e, f>> # <<>>
    BY <1>1
  <2>2. \E e, f \in Work : o.todo = <<e, f>>
    BY <1>6, Works DEF DoErase, GetScreenshot, Save
  <2>. QED BY <2>1, <2>2
<1>7. CASE o.todo \in {GetDirectory, SetTime, ClearEventlog, LogStackTraces, ResetToFactory, GetEventlog}
  <2>1. \A e \in Work : <<e>> \in Seq(Work) /\ <<e>> # <<>>
    BY <1>1
  <2>2. \E e \in Work : o.todo = <<e>>
    BY <1>7, Works DEF GetDirectory, SetTime, ClearEventlog, LogStackTraces, ResetToFactory, GetEventlog
  <2>. QED BY <2>1, <2>2
<1>8. CASE o.todo = DeviceInfo
  BY <1>1, <1>8, Works DEF DeviceInfo
<1>9. \/ \E apps, fs \in BOOLEAN : (apps \/ fs) /\ o.todo = Wipe(apps, fs)
      \/ \E file \in CodFiles : o.todo = LoadApp(file[1], file[2])
      \/ o.todo \in {DoErase("ERASE"), DoErase("FORCE_ERASE"), GetScreenshot, Save}
      \/ o.todo \in {GetDirectory, SetTime, ClearEventlog, LogStackTraces, ResetToFactory, GetEventlog}
      \/ o.todo = DeviceInfo
  <2>1. CASE o \in {[op |-> "LoadApp", todo |-> LoadApp(file[1], file[2])] : file \in CodFiles}
    BY <2>1
  <2>2. CASE o \in {[op |-> "Erase", todo |-> DoErase(cmd)] : cmd \in {"ERASE", "FORCE_ERASE"}}
    BY <2>2
  <2>3. CASE o \in {[op |-> "Wipe", todo |-> todo] : todo \in {Wipe(TRUE, TRUE), Wipe(TRUE, FALSE), Wipe(FALSE, TRUE)}}
    <3>0. \A S : o \in {[op |-> "Wipe", todo |-> todo] : todo \in S} => o.todo \in S
      OBVIOUS
    <3>1. o.todo \in {Wipe(TRUE, TRUE), Wipe(TRUE, FALSE), Wipe(FALSE, TRUE)}
      BY <2>3, <3>0, Zenon
    <3>2. \A apps, fs \in BOOLEAN : (apps \/ fs) /\ o.todo = Wipe(apps, fs) =>
            \E a, f \in BOOLEAN : (a \/ f) /\ o.todo = Wipe(a, f)
      OBVIOUS
    <3>3. /\ o.todo = Wipe(TRUE, TRUE) => \E a, f \in BOOLEAN : (a \/ f) /\ o.todo = Wipe(a, f)
          /\ o.todo = Wipe(TRUE, FALSE) => \E a, f \in BOOLEAN : (a \/ f) /\ o.todo = Wipe(a, f)
          /\ o.todo = Wipe(FALSE, TRUE) => \E a, f \in BOOLEAN : (a \/ f) /\ o.todo = Wipe(a, f)
      BY <3>2, Zenon
    <3>. QED BY <3>1, <3>3
  <2>4. CASE o \in {[op |-> op, todo |-> GetDirectory] : op \in {"GetDirectory", "subdirs"}}
    BY <2>4
  <2>5. CASE o \in {[op |-> "Simple", todo |-> todo] :
                      todo \in {SetTime, ClearEventlog, LogStackTraces, ResetToFactory}}
    BY <2>5
  <2>6. CASE o \in {[op |-> "GetScreenshot", todo |-> GetScreenshot], [op |-> "GetEventlog", todo |-> GetEventlog],
                    [op |-> "Save", todo |-> Save], [op |-> "DeviceInfo", todo |-> DeviceInfo]}
    BY <2>6
  <2>. QED BY <2>1, <2>2, <2>3, <2>4, <2>5, <2>6 DEF Operations
<1>. QED BY <1>4, <1>5, <1>6, <1>7, <1>8, <1>9

LEMMA FurtherWork ==
  ASSUME NEW command, NEW n \in Nat
  PROVE  Further(command, n) \in Seq(Work)
<1>1. /\ {"GET_DATA_ENTRY", "GET_SUBDIR_ENTRY", "GET_SUBDIR", "SAVE_MODULE", "GET_DATA", "GET_LOG_ENTRY"} \subseteq Work
      /\ <<>> \in Seq(Work)
  BY Works
<1>2. \A e \in Work : \A b \in BOOLEAN : GetDirectoryEntries(e, n, b) \in Seq(Work)
  BY <1>1, Constant DEF GetDirectoryEntries
<1>3. SaveData(n) \in Seq(Work) /\ [i \in 1..n |-> "GET_LOG_ENTRY"] \in Seq(Work)
  BY <1>1, Constant DEF SaveData
<1>4. GetDirectoryEntries("GET_DATA_ENTRY", n, loader.op = "subdirs") \in Seq(Work)
  BY <1>1, <1>2
<1>5. GetDirectoryEntries("GET_SUBDIR_ENTRY", n, FALSE) \in Seq(Work)
  BY <1>1, <1>2
<1>. QED BY <1>1, <1>3, <1>4, <1>5 DEF Further

\* The commands whose answer is followed by data, whatever it says.
Reading == {"SET_COD_FILENAME", "GET_DATA_ENTRY", "GET_SUBDIR_ENTRY", "GET_SCREENSHOT", "GET_LOG",
            "GET_LOG_ENTRY", "SAVE_MODULE", "DEVICE_INFO", "OS_METRICS", "BOOTROM_METRICS"}
Shake(p) == p.command = "SEQUENCE_HANDSHAKE"

-----------------------------------------------------------------------------
(***************************************************************************)
(* Its types.                                                              *)
(***************************************************************************)
LEMMA PutTyped ==
  ASSUME Typed, NEW command \in LoaderCommands, Put(command)
  PROVE  down' \in Seq(Requests)
<1>1. Loader \in Modes
  BY LoaderAssumption
<1>2. mode[Loader].socket \in Number
  BY <1>1 DEF Typed, ModeRecord
<1>3. [command |-> command, socket |-> mode[Loader].socket, hash |-> NoHash, sequence |-> 0] \in Requests
  BY <1>2, NewTypes, CommandsAssumption DEF Requests
<1>. QED BY <1>3, AppendTyped DEF Typed, Put

LEMMA JLTyped ==
  ASSUME Typed, NEW command \in LoaderAnswers \cup {"REFUSED", "SEQUENCE_HANDSHAKE"}, NEW n \in Nat
  PROVE  JLPacket(command, n) \in Responses
<1>1. Loader \in Modes
  BY LoaderAssumption
<1>2. mode[Loader].number \in Number
  BY <1>1 DEF Typed, ModeRecord
<1>3. command \in Answers \cup ModeAnswers
  BY CommandsAssumption DEF Answers
<1>4. 0 \in 0..Tries
  BY TriesAssumption
<1>. QED BY <1>2, <1>3, <1>4 DEF JLPacket, Responses

LEMMA ShakeTyped == Typed => LoaderHandshake \in Responses /\ Shake(LoaderHandshake)
<1> SUFFICES ASSUME Typed PROVE LoaderHandshake \in Responses /\ Shake(LoaderHandshake)
  OBVIOUS
<1>1. PICK c \in LoaderAnswers \cup {"REFUSED", "SEQUENCE_HANDSHAKE"} : c = "SEQUENCE_HANDSHAKE"
  OBVIOUS
<1>2. PICK n \in Nat : n = 0
  OBVIOUS
<1>3. JLPacket(c, n) \in Responses
  BY JLTyped
<1>. QED BY <1>1, <1>2, <1>3 DEF LoaderHandshake, JLPacket, Shake

\* What the device may send for a command.
Kinds == {"HELLO_ACK", "ACK", "RESET_REQUIRED", "NOT_SUPPORTED", "REFUSED"}
Single(r) == \E c \in Kinds : r = <<JLPacket(c, 0)>>
Double(r) == \E c \in {"ACK", "GET_DATA_ENTRY"} : \E n \in Nat : r = <<JLPacket(c, n), JLPacket("DATA", n)>>

LEMMA TablesDouble == \A r \in Tables : \E n \in Nat \ {0} : r = Data(n)
BY EntriesAssumption DEF Tables

LEMMA RepliesAre ==
  ASSUME NEW command, NEW r \in Replies(command)
  PROVE  /\ command = "HELLO" => r = <<JLPacket("HELLO_ACK", 0)>>
         /\ command = "SET_COD_FILENAME" => r \in {Data(2), Ack}
         /\ command = "GET_LOG" => r \in Tables \cup {Data(0)}
         /\ command = "GET_SUBDIR" /\ loader.op = "Save" => r \in Tables
         /\ command = "GET_DIRECTORY" \/ (command = "GET_SUBDIR" /\ loader.op # "Save") => r \in Tables \cup {Ack}
         /\ command = "GET_DATA" => r \in {<<JLPacket("GET_DATA_ENTRY", 1), JLPacket("DATA", 1)>>, Ack}
         /\ command \in Reading \ {"SET_COD_FILENAME", "GET_LOG"} => r = Data(1)
         /\ command = "GOODBYE" => r \in {<<JLPacket(a, 0)>> : a \in {"ACK", "RESET_REQUIRED", "NOT_SUPPORTED"}}
         /\ command \notin Reading \cup {"HELLO", "GET_SUBDIR", "GET_DIRECTORY", "GET_DATA", "GOODBYE"} => r = Ack
BY DEF Replies, Reading

LEMMA RepliesSort ==
  ASSUME NEW command, NEW r \in Replies(command)
  PROVE  Single(r) \/ Double(r)
<1>1. Single(Ack)
  BY DEF Single, Kinds, Ack
<1>2. \A n \in Nat : Double(Data(n))
  BY DEF Double, Data
<1>3. \A t \in Tables : Double(t)
  BY <1>2, TablesDouble
<1>4. Double(<<JLPacket("GET_DATA_ENTRY", 1), JLPacket("DATA", 1)>>)
  BY DEF Double
<1>5. Single(<<JLPacket("HELLO_ACK", 0)>>)
  BY DEF Single, Kinds
<1>6. \A a \in {"ACK", "RESET_REQUIRED", "NOT_SUPPORTED"} : Single(<<JLPacket(a, 0)>>)
  BY DEF Single, Kinds
<1>7. r \in {Ack, <<JLPacket("HELLO_ACK", 0)>>, Data(0), Data(1), Data(2),
             <<JLPacket("GET_DATA_ENTRY", 1), JLPacket("DATA", 1)>>} \cup Tables
           \cup {<<JLPacket(a, 0)>> : a \in {"ACK", "RESET_REQUIRED", "NOT_SUPPORTED"}}
  BY RepliesAre
<1>. QED BY <1>1, <1>2, <1>3, <1>4, <1>5, <1>6, <1>7

LEMMA RepliesTyped ==
  ASSUME Typed, NEW r, Single(r) \/ Double(r)
  PROVE  r \in Seq(Responses) /\ r[1] \in Responses
<1>1. CASE Single(r)
  <2>1. PICK c \in Kinds : r = <<JLPacket(c, 0)>>
    BY <1>1 DEF Single
  <2>2. PICK n \in Nat : n = 0
    OBVIOUS
  <2>3. c \in LoaderAnswers \cup {"REFUSED", "SEQUENCE_HANDSHAKE"}
    BY DEF Kinds, LoaderAnswers
  <2>4. JLPacket(c, n) \in Responses
    BY <2>3, JLTyped
  <2>. QED BY <2>1, <2>2, <2>4
<1>2. CASE Double(r)
  <2>1. PICK c \in {"ACK", "GET_DATA_ENTRY"}, n \in Nat : r = <<JLPacket(c, n), JLPacket("DATA", n)>>
    BY <1>2 DEF Double
  <2>2. PICK e \in LoaderAnswers : e = "DATA"
    BY DEF LoaderAnswers
  <2>3. c \in LoaderAnswers
    BY DEF LoaderAnswers
  <2>4. JLPacket(c, n) \in Responses /\ JLPacket(e, n) \in Responses
    BY <2>3, JLTyped
  <2>. QED BY <2>1, <2>2, <2>4
<1>. QED BY <1>1, <1>2

\* What becomes of the loader in a step of its own.
Outside == call'.pc \in {"idle", "crashed"}
LEMMA LoaderAt ==
  ASSUME LoaderTyped, loader.at \in Working
  PROVE  /\ call.pc \in {"idle", "crashed"} /\ (call' = call => Outside)
         /\ Command \in LoaderCommands /\ Tail(loader.todo) \in Seq(LoaderCommands)
         /\ \A at \in Working : loader' = [loader EXCEPT !.at = at] /\ machine' = machine /\ Outside => LoaderTyped'
         /\ \A todo \in Seq(LoaderCommands) : Continue(todo) /\ machine' = machine /\ Outside => LoaderTyped'
         /\ ThrowJLError /\ machine' = machine /\ Outside => LoaderTyped'
         /\ Stopped /\ machine' = machine /\ Outside => LoaderTyped'
<1>1. loader \in LoaderRecord /\ loader.todo # <<>> /\ loader.todo \in Seq(LoaderCommands)
  BY DEF LoaderTyped, LoaderRecord
<1>2. Command \in LoaderCommands /\ Tail(loader.todo) \in Seq(LoaderCommands)
  BY <1>1, HeadTyped DEF Command
<1>3. ASSUME NEW at \in Working, loader' = [loader EXCEPT !.at = at], machine' = machine, Outside PROVE LoaderTyped'
  BY <1>1, <1>3 DEF LoaderTyped, LoaderRecord, Busy, Outside
<1>4. <<>> \in Seq(LoaderCommands)
  OBVIOUS
<1>5. \A b \in BOOLEAN : \A x \in {"idle", "destroyed"} :
        /\ [started |-> b, op |-> "none", todo |-> <<>>, at |-> x] \in LoaderRecord
        /\ x \notin Working
  BY <1>4 DEF LoaderRecord, Working
<1>6. ASSUME NEW todo \in Seq(LoaderCommands), Continue(todo), machine' = machine, Outside PROVE LoaderTyped'
  <2>1. CASE todo = <<>>
    <3>1. PICK b \in BOOLEAN : b = (loader.started \/ Starting)
      OBVIOUS
    <3>2. loader' = [started |-> b, op |-> "none", todo |-> <<>>, at |-> "idle"]
      BY <1>6, <2>1, <3>1 DEF Continue, NewLoader, Starting
    <3>. QED BY <1>5, <1>6, <3>2 DEF LoaderTyped, Outside
  <2>2. CASE todo # <<>>
    <3>1. loader' = [loader EXCEPT !.todo = todo, !.at = "send"]
      BY <1>6, <2>2 DEF Continue
    <3>. QED BY <1>1, <1>6, <2>2, <3>1 DEF LoaderTyped, LoaderRecord, Busy, Working, Outside
  <2>. QED BY <2>1, <2>2
<1>7. ASSUME ThrowJLError, machine' = machine, Outside PROVE LoaderTyped'
  <2>1. PICK b \in BOOLEAN : b = loader.started
    BY <1>1 DEF LoaderRecord
  <2>2. loader' = [started |-> b, op |-> "none", todo |-> <<>>, at |-> "idle"]
    BY <1>7, <2>1 DEF ThrowJLError, NewLoader
  <2>. QED BY <1>5, <1>7, <2>2 DEF LoaderTyped, Outside
<1>8. ASSUME Stopped, machine' = machine, Outside PROVE LoaderTyped'
  <2>1. PICK x \in {"idle", "destroyed"} : x = IF loader.op = "destroy" THEN "destroyed" ELSE "idle"
    OBVIOUS
  <2>2. loader' = [started |-> FALSE, op |-> "none", todo |-> <<>>, at |-> x]
    BY <1>8, <2>1 DEF Stopped, NewLoader
  <2>. QED BY <1>5, <1>8, <2>2 DEF LoaderTyped, Outside
<1>9. call.pc \in {"idle", "crashed"} /\ (call' = call => Outside)
  <2>1. loader.at # "idle"
    BY DEF Working
  <2>. QED BY <2>1 DEF LoaderTyped, Outside
<1>. QED BY <1>2, <1>3, <1>6, <1>7, <1>8, <1>9

LEMMA HideTyped ==
  ASSUME NEW z \in ZeroRecord, NEW b \in BOOLEAN
  PROVE  [z EXCEPT !.hide = b] \in ZeroRecord /\ [z EXCEPT !.resetOnClose = b] \in ZeroRecord
BY DEF ZeroRecord

LEMMA LoaderRead ==
  ASSUME Typed, NEW at, LoaderReads(at)
  PROVE  up' \in Seq(Responses) /\ Reply \in Responses /\ Reply.size \in Nat /\ loader.at = at /\ up # <<>>
BY ReplyTyped DEF LoaderReads, Responses

LEMMA Restful ==
  /\ NewLoader \in LoaderRecord /\ NewLoader.at = "idle" /\ NewLoader.at \notin Working
  /\ NewLoader.todo = <<>> /\ NewLoader.op = "none" /\ NewLoader.started = FALSE /\ NewMachine \in MachineRecord
<1>1. <<>> \in Seq(LoaderCommands)
  OBVIOUS
<1>. QED BY <1>1 DEF NewLoader, NewMachine, LoaderRecord, MachineRecord, Working

LEMMA PacketsTyped == Typed /\ LoaderTyped /\ Packets => Typed' /\ LoaderTyped'
<1> SUFFICES ASSUME Typed, LoaderTyped, Packets PROVE Typed' /\ LoaderTyped'
  OBVIOUS
<1>0. zero \in ZeroRecord /\ TRUE \in BOOLEAN /\ FALSE \in BOOLEAN /\ loader \in LoaderRecord
  BY DEF Typed, LoaderTyped
<1>1. CASE PacketSimple \/ PacketCommand
  <2>1. loader.at \in Working /\ machine' = machine /\ call' = call
    BY <1>1 DEF PacketSimple, PacketCommand, Working
  <2>2. Put(Command) /\ Command \in LoaderCommands
    BY <1>1, <2>1, LoaderAt DEF PacketSimple, PacketCommand
  <2>3. down' \in Seq(Requests)
    BY <2>2, PutTyped
  <2>4. zero' \in ZeroRecord
    BY <1>0, <1>1, HideTyped DEF PacketSimple, PacketCommand
  <2>5. PICK at \in Working : loader' = [loader EXCEPT !.at = at]
    BY <1>1 DEF PacketSimple, PacketCommand, Working
  <2>6. LoaderTyped'
    BY <2>1, <2>5, LoaderAt
  <2>. QED BY <1>1, <2>3, <2>4, <2>6 DEF PacketSimple, PacketCommand, Typed
<1>2. CASE PacketDataPart
  <2>1. loader.at \in Working /\ machine' = machine /\ call' = call /\ up' \in Seq(Responses)
    BY <1>2, LoaderRead DEF PacketDataPart, LoaderReads, Working
  <2>2. PICK c \in LoaderCommands : c = "DATA"
    BY DEF LoaderCommands
  <2>3. down' \in Seq(Requests)
    BY <1>2, <2>2, PutTyped DEF PacketDataPart
  <2>4. zero' \in ZeroRecord
    BY <1>0, <1>2, HideTyped DEF PacketDataPart
  <2>5. PICK at \in Working : loader' = [loader EXCEPT !.at = at]
    BY <1>2 DEF PacketDataPart, Working
  <2>6. LoaderTyped'
    BY <2>1, <2>5, LoaderAt
  <2>. QED BY <1>2, <2>1, <2>3, <2>4, <2>6 DEF PacketDataPart, Typed
<1>3. CASE LoaderSequencePacket
  <2>1. up' \in Seq(Responses)
    BY <1>3, ReplyTyped DEF LoaderSequencePacket
  <2>. QED BY <1>3, <2>1 DEF LoaderSequencePacket, Typed, LoaderTyped, Command
<1>4. CASE acknowledged \/ stream_entry \/ unexpected \/ receive_data
  <2>1. /\ loader.at \in Working /\ machine' = machine /\ call' = call /\ up' \in Seq(Responses) /\ Reply.size \in Nat
        /\ UNCHANGED <<zero, mode, call, down, device, calls, timeouts>>
    BY <1>4, LoaderRead DEF acknowledged, stream_entry, unexpected, receive_data, LoaderReads, Working
  <2>2. Typed'
    BY <2>1 DEF Typed
  <2>3. \/ \E at \in Working : loader' = [loader EXCEPT !.at = at]
        \/ \E todo \in Seq(LoaderCommands) : Continue(todo)
        \/ ThrowJLError
    <3>1. ASSUME acknowledged PROVE loader' = [loader EXCEPT !.at = "data"] \/ Continue(Tail(loader.todo))
      BY <3>1 DEF acknowledged
    <3>2. Tail(loader.todo) \in Seq(LoaderCommands) /\ loader.todo \in Seq(LoaderCommands)
      BY <1>0, <2>1, LoaderAt DEF LoaderRecord
    <3>3. PICK q \in Seq(Work) : q = Further(Command, Reply.size)
      BY <2>1, FurtherWork
    <3>4. q \o Tail(loader.todo) \in Seq(LoaderCommands)
      <4>1. q \in Seq(LoaderCommands)
        BY <3>3, Works
      <4>. QED BY <3>2, <4>1, ConcatProperties
    <3>. QED BY <1>4, <3>1, <3>2, <3>3, <3>4 DEF stream_entry, unexpected, receive_data, Working
  <2>. QED BY <2>1, <2>2, <2>3, LoaderAt
<1>5. CASE input_failed
  <2>1. loader.at \in Working /\ machine' = machine /\ call' = call
    BY <1>5 DEF input_failed, Working
  <2>. QED BY <1>5, <2>1, LoaderAt DEF input_failed, Typed
<1>6. CASE goodbye_answered
  <2>1. loader.at \in Working /\ machine' = machine /\ up' \in Seq(Responses)
    BY <1>6, LoaderRead DEF goodbye_answered, LoaderReads, Working
  <2>2. zero' \in ZeroRecord
    <3>1. PICK b \in BOOLEAN : b = (zero.resetOnClose \/ Reply.command = "RESET_REQUIRED")
      OBVIOUS
    <3>2. zero' = [zero EXCEPT !.resetOnClose = b]
      BY <1>6, <3>1 DEF goodbye_answered
    <3>. QED BY <1>0, <3>2, HideTyped
  <2>3. call' \in CallRecord
    <3>1. \A pc \in Labels : [call EXCEPT !.pc = pc] \in CallRecord
      BY CallTyped DEF Typed
    <3>2. "crashed" \in Labels
      BY DEF Labels
    <3>. QED BY <1>6, <3>1, <3>2 DEF goodbye_answered, Typed
  <2>4. Outside
    <3>1. call' = [call EXCEPT !.pc = "crashed"] => call'.pc = "crashed"
      BY DEF Typed, CallRecord
    <3>. QED BY <1>6, <2>1, <3>1, LoaderAt DEF goodbye_answered, Outside
  <2>5. LoaderTyped'
    BY <1>6, <2>1, <2>4, LoaderAt DEF goodbye_answered
  <2>. QED BY <1>6, <2>1, <2>2, <2>3, <2>5 DEF goodbye_answered, Typed
<1>7. CASE OnOpen
  <2>1. up' \in Seq(Responses) /\ loader' = NewLoader /\ machine' = machine
    BY <1>7, LoaderRead DEF OnOpen
  <2>2. LoaderTyped'
    BY <2>1, Restful DEF LoaderTyped
  <2>. QED BY <1>7, <2>1, <2>2 DEF OnOpen, Typed
<1>. QED BY <1>1, <1>2, <1>3, <1>4, <1>5, <1>6, <1>7 DEF Packets

\* SocketZero only works for a call in progress, and a call that makes a handle ends.
LEMMA HostInCall ==
  ASSUME Typed, Host
  PROVE  /\ call.pc \notin {"idle", "crashed"}
         /\ \A m \in Modes : ~mode[m].handle /\ mode'[m].handle => call'.pc = "idle"
<1>0. call.mode \in Modes /\ mode \in [Modes -> ModeRecord] /\ mode[call.mode] \in ModeRecord
  BY OwnTyped DEF Typed
<1>1. call.pc \notin {"idle", "crashed"}
  BY DEF Host, SequencePacket, check_sequence, mode_selected, extra_packet, SendOpen, still_half_open,
         password_challenge, refuse_password, SendPasswordHash, password_failed, opened_socket, password_accepted,
         closed_socket, bad_closed, reset_reply, missing_reset_reply, timeout, Receive, RawReceive
<1>2. ASSUME NEW r, SetMode(r), r.handle => mode[call.mode].handle, NEW m \in Modes
      PROVE  mode'[m].handle => mode[m].handle
  BY <1>0, <1>2 DEF SetMode
<1>3. ~NewMode.handle /\ (ForceClosed.handle => mode[call.mode].handle) /\ NoCall.pc = "idle"
  BY <1>0 DEF NewMode, ForceClosed, ModeRecord, NoCall
<1>4. /\ \A n \in Number : [mode[call.mode] EXCEPT !.number = n].handle => mode[call.mode].handle
      /\ [mode[call.mode] EXCEPT !.rejected = TRUE].handle => mode[call.mode].handle
  BY <1>0 DEF ModeRecord
<1>5. CASE mode_selected \/ extra_packet
  <2>1. Reply.socket \in Number
    BY <1>5, ReplyTyped DEF mode_selected, extra_packet, RawReceive, Responses
  <2>2. mode' = mode \/ SetMode([mode[call.mode] EXCEPT !.number = Reply.socket])
    BY <1>5 DEF mode_selected, extra_packet, Selected
  <2>. QED BY <1>1, <1>2, <1>4, <2>1, <2>2
<1>6. CASE refuse_password \/ password_failed
  BY <1>1, <1>2, <1>4, <1>6 DEF refuse_password, password_failed, BadPassword
<1>7. CASE opened_socket \/ password_accepted
  BY <1>1, <1>3, <1>7 DEF opened_socket, password_accepted, Opened
<1>8. CASE closed_socket \/ reset_reply
  <2>1. mode' = mode \/ SetMode(NewMode)
    BY <1>8 DEF closed_socket, reset_reply, CloseReturns
  <2>. QED BY <1>1, <1>2, <1>3, <2>1
<1>9. CASE bad_closed \/ missing_reset_reply \/ timeout
  <2>1. call'.pc = "idle"
    BY <1>3, <1>9 DEF bad_closed, missing_reset_reply, timeout, CloseThrows
  <2>. QED BY <1>1, <2>1
<1>10. CASE mode' = mode
  BY <1>1, <1>10
<1>. QED BY <1>5, <1>6, <1>7, <1>8, <1>9, <1>10
     DEF Host, SequencePacket, check_sequence, SendOpen, still_half_open, password_challenge, SendPasswordHash

\* A step of SocketZero, and what else it does to loader and device.
Under == mode_step \/ mode_call \/ DestroyMembers \/ loader_at_rest \/ opened \/ closed \/ restarted \/ answered

LEMMA UnderTyped ==
  ASSUME Typed, LoaderTyped, Under
  PROVE  Next /\ Typed' /\ LoaderTyped'
<1>1. Next
  <2>1. Loader \in Modes
    BY LoaderAssumption
  <2>. QED BY <2>1 DEF Under, mode_step, mode_call, DestroyMembers, loader_at_rest, opened, closed, restarted, answered,
                       Next, Application, Device
<1>2. Typed'
  BY <1>1, TypeHost, TypeApplication, TypeDevice DEF Next
<1>3. loader \in LoaderRecord /\ machine \in MachineRecord /\ Loader \in Modes
  BY LoaderAssumption DEF LoaderTyped
<1>4. CASE mode_step
  <2>1. loader.at = "idle" /\ loader.todo = <<>>
    BY <1>4, HostInCall DEF mode_step, LoaderTyped, Working
  <2>2. loader' = loader \/ (loader' = [loader EXCEPT !.at = "ready"] /\ call'.pc = "idle")
    BY <1>3, <1>4, HostInCall DEF mode_step
  <2>3. [loader EXCEPT !.at = "ready"] \in LoaderRecord
    BY <1>3 DEF LoaderRecord, Busy
  <2>4. machine' = machine
    BY <1>4 DEF mode_step
  <2>. QED BY <1>2, <1>1, <1>3, <2>1, <2>2, <2>3, <2>4 DEF LoaderTyped, LoaderRecord, Working
<1>5. CASE mode_call \/ DestroyMembers
  <2>1. (loader.at = "idle" /\ loader' = loader) \/ loader' = NewLoader
    BY <1>5 DEF mode_call, DestroyMembers, Resting
  <2>2. machine' = machine
    BY <1>5 DEF mode_call, DestroyMembers
  <2>. QED BY <1>1, <1>2, <1>3, <2>1, <2>2, Restful DEF LoaderTyped
<1>6. CASE loader_at_rest \/ answered \/ opened \/ closed \/ restarted
  <2>1. loader' = loader /\ call' = call
    BY <1>6 DEF loader_at_rest, at_rest, vars, answered, opened, closed, restarted, Answer, answer_select, refuse, answer_open,
                answer_password, answer_close, answer_reset
  <2>2. machine' \in MachineRecord
    <3>1. \A b \in BOOLEAN : /\ [machine EXCEPT !.ready = b] \in MachineRecord
                             /\ [machine EXCEPT !.mustReset = b] \in MachineRecord
                             /\ [NewMachine EXCEPT !.mustReset = b] \in MachineRecord
      BY <1>3, Restful DEF MachineRecord
    <3>2. machine.mustReset \in BOOLEAN
      BY <1>3 DEF MachineRecord
    <3>3. PICK b \in BOOLEAN : b = (machine.ready \/ (call.mode = Loader /\ device'.open # device.open))
      OBVIOUS
    <3>4. opened => machine' = [machine EXCEPT !.ready = b]
      BY <3>3 DEF opened
    <3>. QED BY <1>3, <1>6, <3>1, <3>2, <3>4 DEF loader_at_rest, answered, closed, restarted
  <2>. QED BY <1>1, <1>2, <2>1, <2>2 DEF LoaderTyped, Command
<1>. QED BY <1>4, <1>5, <1>6 DEF Under

LEMMA BeginsTyped ==
  ASSUME Typed, LoaderTyped, start_stream \/ operation \/ stop_stream \/ DestroyLoader
  PROVE  Typed' /\ LoaderTyped'
<1>1. UNCHANGED <<zero, mode, call, down, up, device, timeouts, machine>> /\ call.pc = "idle" /\ calls' \in 0..MaxCalls
  <2>1. calls \in 0..MaxCalls /\ MaxCalls \in Nat
    BY BoundsAssumption DEF Typed
  <2>2. \A op, todo : Begins(op, todo) => /\ UNCHANGED <<zero, mode, call, down, up, device, timeouts, machine>>
                                         /\ call.pc = "idle" /\ calls < MaxCalls /\ calls' = calls + 1
    BY DEF Begins, Begin, Resting
  <2>3. DestroyLoader => UNCHANGED <<zero, mode, call, down, up, device, timeouts, machine, calls>> /\ call.pc = "idle"
    BY DEF DestroyLoader, Resting, vars
  <2>4. CASE start_stream \/ operation \/ stop_stream
    <3>1. PICK op, todo : Begins(op, todo)
      BY <2>4 DEF start_stream, operation, stop_stream
    <3>. QED BY <2>1, <2>2, <3>1
  <2>. QED BY <2>1, <2>3, <2>4
<1>2. \E op \in {"StartStream", "StopStream", "destroy"} \cup Ops : \E todo \in Seq(LoaderCommands) :
        todo # <<>> /\ loader' = [loader EXCEPT !.op = op, !.todo = todo, !.at = "send"]
  <2>1. StartStream \in Seq(LoaderCommands) /\ StartStream # <<>>
    BY DEF StartStream, LoaderCommands, HasData, SimpleCmd
  <2>2. StopStream \in Seq(LoaderCommands) /\ StopStream # <<>>
    BY DEF StopStream, LoaderCommands, HasData, SimpleCmd
  <2>3. \A o \in Operations : o.op \in Ops /\ o.todo \in Seq(LoaderCommands) /\ o.todo # <<>>
    BY OperationsWork, Works
  <2>4. \A op, todo : Begins(op, todo) => loader' = [loader EXCEPT !.op = op, !.todo = todo, !.at = "send"]
    BY DEF Begins
  <2>. QED BY <2>1, <2>2, <2>3, <2>4 DEF start_stream, operation, stop_stream, DestroyLoader
<1>3. LoaderTyped'
  BY <1>1, <1>2 DEF LoaderTyped, LoaderRecord, Busy, Working
<1>. QED BY <1>1, <1>3 DEF Typed

LEMMA MachineTyped ==
  ASSUME Typed, LoaderTyped, greet \/ announce \/ reply
  PROVE  Typed' /\ LoaderTyped'
<1>0. /\ LoaderHandshake \in Responses /\ machine \in MachineRecord /\ up \in Seq(Responses) /\ down \in Seq(Requests)
      /\ TRUE \in BOOLEAN /\ FALSE \in BOOLEAN
  BY ShakeTyped DEF Typed, LoaderTyped
<1>1. UNCHANGED <<zero, mode, call, device, calls, timeouts, loader>>
  BY DEF greet, announce, reply
<1>2. CASE greet
  <2>1. PICK c \in LoaderAnswers : c = "READY"
    BY DEF LoaderAnswers
  <2>2. PICK n \in Nat : n = 0
    OBVIOUS
  <2>3. JLPacket(c, n) \in Responses
    BY JLTyped
  <2>4. <<JLPacket("READY", 0)>> \in Seq(Responses)
    BY <2>1, <2>2, <2>3
  <2>5. <<>> \in Seq(Responses) /\ <<LoaderHandshake>> \in Seq(Responses)
    BY <1>0
  <2>6. up' \in Seq(Responses)
    <3>1. PICK before \in {<<>>, <<LoaderHandshake>>} : up' = before \o <<JLPacket("READY", 0)>>
      BY <1>2 DEF greet
    <3>2. before \in Seq(Responses)
      BY <2>5, <3>1
    <3>. QED BY <2>4, <3>1, <3>2, ConcatProperties
  <2>7. machine' \in MachineRecord /\ down' = down
    BY <1>0, <1>2 DEF greet, MachineRecord
  <2>. QED BY <1>1, <2>6, <2>7 DEF Typed, LoaderTyped, Command
<1>3. CASE announce
  <2>1. up' \in Seq(Responses) /\ down' \in Seq(Requests)
    BY <1>0, <1>3, AppendTyped, HeadTyped DEF announce
  <2>2. machine' \in MachineRecord
    BY <1>0, <1>3 DEF announce, MachineRecord
  <2>. QED BY <1>1, <2>1, <2>2 DEF Typed, LoaderTyped, Command
<1>4. CASE reply
  <2>0. PICK command : command = IF Request.command = "DATA" THEN machine.announced ELSE Request.command
    OBVIOUS
  <2>1. PICK r : /\ r = <<JLPacket("REFUSED", 0)>> \/ r \in Replies(command)
                 /\ up' = (up \o <<LoaderHandshake>>) \o r
                 /\ machine' = [machine EXCEPT !.announced = "none",
                                    !.stream = StreamAfter(command, r = <<JLPacket("REFUSED", 0)>>),
                                    !.mustReset = @ \/ r[1].command = "RESET_REQUIRED"]
    <3>1. PICK r \in {<<JLPacket("REFUSED", 0)>>} \cup (IF Willing(command) THEN Replies(command) ELSE {}) :
            /\ up' = (up \o <<LoaderHandshake>>) \o r
            /\ machine' = [machine EXCEPT !.announced = "none",
                               !.stream = StreamAfter(command, r = <<JLPacket("REFUSED", 0)>>),
                               !.mustReset = @ \/ r[1].command = "RESET_REQUIRED"]
      BY <1>4, <2>0 DEF reply
    <3>2. r = <<JLPacket("REFUSED", 0)>> \/ r \in Replies(command)
      BY <3>1
    <3>. QED BY <3>1, <3>2
  <2>2. r \in Seq(Responses)
    <3>1. Single(<<JLPacket("REFUSED", 0)>>)
      BY DEF Single, Kinds
    <3>. QED BY <2>1, <3>1, RepliesSort, RepliesTyped
  <2>3. up' \in Seq(Responses)
    <3>1. <<LoaderHandshake>> \in Seq(Responses)
      BY <1>0
    <3>. QED BY <1>0, <2>1, <2>2, <3>1, AnswerTyped
  <2>4. machine' \in MachineRecord
    <3>1. PICK b \in BOOLEAN : b = (machine.mustReset \/ r[1].command = "RESET_REQUIRED")
      OBVIOUS
    <3>2. PICK refused \in BOOLEAN : refused = (r = <<JLPacket("REFUSED", 0)>>)
      OBVIOUS
    <3>3. PICK s : s = StreamAfter(command, refused)
      OBVIOUS
    <3>4. s \in {"none", "greeted", "open", "kept"}
      BY <1>0, <3>3 DEF StreamAfter, MachineRecord
    <3>5. machine' = [machine EXCEPT !.announced = "none", !.stream = s, !.mustReset = b]
      BY <2>1, <3>1, <3>2, <3>3
    <3>. QED BY <1>0, <3>4, <3>5 DEF MachineRecord
  <2>5. down' \in Seq(Requests)
    BY <1>0, <1>4, HeadTyped DEF reply
  <2>. QED BY <1>1, <2>3, <2>4, <2>5 DEF Typed, LoaderTyped, Command
<1>. QED BY <1>2, <1>3, <1>4

LEMMA LoaderTypeInit == LoaderInit => Typed /\ LoaderTyped
BY TypeInit, Restful DEF LoaderInit, LoaderTyped

LEMMA LoaderTypeStep == Typed /\ LoaderTyped /\ [LoaderNext]_loaderVars => Typed' /\ LoaderTyped'
<1> SUFFICES ASSUME Typed, LoaderTyped, [LoaderNext]_loaderVars PROVE Typed' /\ LoaderTyped'
  OBVIOUS
<1>1. CASE UNCHANGED loaderVars
  BY <1>1 DEF loaderVars, vars, Typed, LoaderTyped
<1>. QED BY <1>1, PacketsTyped, UnderTyped, BeginsTyped, MachineTyped DEF LoaderNext, Under, LoaderApplication, Machine

\* The loader, its stream in the device and the packets of both keep their types, on top of
\* SocketZero's, whatever a device answers and however often (m_javaloader.cc).
THEOREM LoaderTypeCorrect == LoaderSpec => []LoaderTypeOK
<1>1. LoaderInit => Typed /\ LoaderTyped
  BY LoaderTypeInit
<1>2. Typed /\ LoaderTyped /\ [LoaderNext]_loaderVars => Typed' /\ LoaderTyped'
  BY LoaderTypeStep
<1>3. Typed /\ LoaderTyped => LoaderTypeOK
  BY LoaderTypes DEF LoaderTyped
<1>. QED BY <1>1, <1>2, <1>3, PTL DEF LoaderSpec

-----------------------------------------------------------------------------
(***************************************************************************)
(* Its agreement with the device, on top of SocketZero's.                  *)
(***************************************************************************)
Others == Responses \ Handshakes
Comes(a) == up = <<a>> \/ \E h \in Handshakes : up = <<h, a>>
ComesWith(a, d) == up = <<a, d>> \/ \E h \in Handshakes : up = <<h, a, d>>

\* A packet of data follows the answer a.
Brings(a) ==
  \/ Command = "GET_DATA" /\ a.command = "GET_DATA_ENTRY"
  \/ /\ a.command = "ACK" /\ (Command = "SET_COD_FILENAME" => a.size = 2)
     /\ \/ Command \in Reading
        \/ Command = "GET_DIRECTORY" /\ a.size > 0
        \/ Command = "GET_SUBDIR" /\ (a.size > 0 \/ loader.op = "Save")

\* What the answer a says of the stream and of a reset.
Says(a) ==
  /\ machine.stream = "open" <=> loader.op \in Ops \/ (Command = "SET_UNKNOWN1" /\ a.command = "ACK")
  /\ a.command = "RESET_REQUIRED" => Command = "GOODBYE"
  /\ machine.mustReset => zero.resetOnClose \/ a.command = "RESET_REQUIRED"
Carries(a) == IF Brings(a) THEN \E d \in Others : ComesWith(a, d) ELSE Comes(a)
Answering == \E a \in Others : Says(a) /\ Carries(a)

\* What the loader has to do, and the stream until the answer to its last packet.
Scripted ==
  /\ Starting => ~loader.started /\ loader.todo \in {StartStream, <<"SET_UNKNOWN1">>}
  /\ Stopping => loader.started /\ loader.todo = StopStream
  /\ loader.op \in Ops => loader.started /\ loader.todo \in Seq(Work)
Unanswered ==
  /\ machine.stream = "open" <=> ~Starting
  /\ machine.mustReset => zero.resetOnClose

Sent(command) == up = <<>> /\ \E q \in Requests : down = <<q>> /\ q.command = command

AtSend == Unanswered /\ down = <<>> /\ up = <<>> /\ machine.announced = "none"
AtAnnounced ==
  /\ Unanswered /\ Command \in HasData
  /\ \/ Sent(Command) /\ machine.announced = "none"
     \/ down = <<>> /\ machine.announced = Command /\ \E h \in Handshakes : up = <<h>>
Commanded ==
  /\ Unanswered
  /\ \/ Command \in HasData /\ Sent("DATA") /\ machine.announced = Command
     \/ Command \in SimpleCmd /\ Sent(Command) /\ machine.announced = "none"
AtAnswer == Commanded \/ (Answering /\ down = <<>> /\ machine.announced = "none")
AtData ==
  /\ Unanswered /\ down = <<>> /\ machine.announced = "none" /\ loader.op \in Ops
  /\ \E d \in Others : up = <<d>>
AtReady ==
  /\ ~loader.started /\ loader.op = "none" /\ machine.stream # "open" /\ ~machine.mustReset
  /\ machine.announced = "none" /\ down = <<>>
  /\ IF machine.ready THEN up = <<>> ELSE \E g \in Others : Comes(g)

\* While it is at work, its socket is open and SocketZero between calls.
Between ==
  /\ call.pc = "idle" /\ (zero.halfOpen => KnowsTries)
  /\ mine.socket # 0 /\ HasSocket /\ device.open = {mine.socket}
Task == loader.op # "none" /\ Scripted /\ ~machine.ready
AtWork ==
  /\ Between
  /\ zero.hide <=> loader.at # "announced"
  /\ loader.at \in Working => Task
  /\ loader.at = "send" => AtSend
  /\ loader.at = "announced" => AtAnnounced
  /\ loader.at = "answer" => AtAnswer
  /\ loader.at = "data" => AtData
  /\ loader.at = "ready" => AtReady

\* While it is not, SocketZero has the wire to itself.
Greeted == Authorizing /\ down = <<>> /\ device.open # {}
WillReset == zero.resetOnClose /\ mine.socket # 0 /\ (call.pc = "resetting" => down # <<>>)
Aside ==
  /\ Lockstep /\ OpenAgrees
  /\ loader.op = "none" /\ machine.announced = "none"
  /\ machine.ready <=> Greeted
  /\ loader.started <=> machine.stream = "open"
  /\ call.pc # "idle" \/ loader.at = "destroyed" => ~loader.started
  /\ machine.mustReset => WillReset
  /\ mine.handle => mine.socket # 0
  /\ loader.at = "destroyed" => call.pc = "idle"

Crashed == loader.at \in {"idle", "destroyed"} /\ down = <<>>

LInv ==
  /\ Typed /\ LoaderTyped
  /\ IF call.pc = "crashed" THEN Crashed
     ELSE IF loader.at \in Busy THEN AtWork ELSE Aside

\* The names of the operations, and what the two senders of commands say.
LEMMA Names ==
  /\ {"none", "StartStream", "StopStream", "destroy"} \cap Ops = {}
  /\ LoaderCommands \cap Commands = {} /\ HasData \cap SimpleCmd = {} /\ "DATA" \notin HasData \cup SimpleCmd
<1>1. ASSUME NEW o \in Operations PROVE o.op \notin {"none", "StartStream", "StopStream", "destroy"}
  <2>1. CASE o \in {[op |-> "LoadApp", todo |-> LoadApp(file[1], file[2])] : file \in CodFiles}
    BY <2>1
  <2>2. CASE o \in {[op |-> "Erase", todo |-> DoErase(cmd)] : cmd \in {"ERASE", "FORCE_ERASE"}}
    BY <2>2
  <2>3. CASE o \in {[op |-> "Wipe", todo |-> todo] : todo \in {Wipe(TRUE, TRUE), Wipe(TRUE, FALSE), Wipe(FALSE, TRUE)}}
    <3>1. \A S : o \in {[op |-> "Wipe", todo |-> todo] : todo \in S} => o.op = "Wipe"
      OBVIOUS
    <3>2. o.op = "Wipe"
      BY <2>3, <3>1, Zenon
    <3>. QED BY <3>2
  <2>4. CASE o \in {[op |-> op, todo |-> GetDirectory] : op \in {"GetDirectory", "subdirs"}}
    BY <2>4
  <2>5. CASE o \in {[op |-> "Simple", todo |-> todo] :
                      todo \in {SetTime, ClearEventlog, LogStackTraces, ResetToFactory}}
    BY <2>5
  <2>6. CASE o \in {[op |-> "GetScreenshot", todo |-> GetScreenshot], [op |-> "GetEventlog", todo |-> GetEventlog],
                    [op |-> "Save", todo |-> Save], [op |-> "DeviceInfo", todo |-> DeviceInfo]}
    BY <2>6
  <2>. QED BY <2>1, <2>2, <2>3, <2>4, <2>5, <2>6 DEF Operations
<1>. QED BY <1>1 DEF Ops, LoaderCommands, HasData, SimpleCmd, Commands

\* The Mode that is the JavaLoader is the one there is.
LEMMA LoaderIsMine ==
  ASSUME OneMode, Typed
  PROVE  Loader \in Modes /\ mode[Loader] = mine /\ call.mode = Loader /\ \A m \in Modes : m = Loader
BY LoaderAssumption DEF OneMode, Typed, CallRecord, mine

\* SocketZero's steps where it has the wire to itself.
LEMMA SocketZeroStep ==
  ASSUME MaxTimeouts = 0, OneMode, ~RefusesReset, Aside, [Next]_vars
  PROVE  Lockstep' /\ OpenAgrees'
<1>1. Lockstep /\ OpenAgrees
  BY DEF Aside
<1>2. Lockstep'
  BY <1>1, LockstepStep
<1>. QED BY <1>1, <1>2, HostAgrees, ApplicationAgrees, DeviceAgrees DEF Next

\* A step of SocketZero's own, by what Aside asks of it: with the socket of the
\* Mode, the reset, what the greeting depends on, and the handle it makes.
Made == ~mode[Loader].handle /\ mode'[Loader].handle
LEMMA HostAside ==
  ASSUME MaxTimeouts = 0, OneMode, ~RefusesReset, Typed, Typed', Aside, Host
  PROVE  /\ Made => /\ machine.ready /\ ~machine.mustReset /\ down' = <<>> /\ up' = <<>> /\ call'.pc = "idle"
                    /\ mine'.socket # 0
         /\ ~Made => (machine.ready <=> Greeted')
         /\ machine.mustReset => WillReset'
         /\ mine'.handle => mine'.socket # 0
         /\ device' = device /\ call'.pc # "crashed"
<1>0. /\ call \in CallRecord /\ zero \in ZeroRecord /\ mine \in ModeRecord /\ Lockstep /\ OpenAgrees
      /\ Loader \in Modes /\ mode[Loader] = mine /\ mode'[Loader] = mine'
  BY MineIs, LoaderIsMine DEF Aside, Typed
<1>1. /\ Authorizing => mine.socket = 0 /\ ~machine.mustReset /\ ~mine.handle
      /\ call.pc \notin {"idle", "closing", "resetting"} => mine.socket = 0 /\ ~machine.mustReset /\ ~mine.handle
      /\ machine.mustReset => call.pc \in {"closing", "resetting", "idle"} /\ zero.resetOnClose /\ mine.socket # 0
  BY <1>0 DEF Aside, OpenAgrees, HasSocket, Authorizing, WillReset
<1>2. ASSUME NEW r \in ModeRecord, SetMode(r) PROVE mine' = r
  BY <1>0, <1>2, MineIs
<1>3. mode' = mode => mine' = mine /\ ~Made
  BY <1>0, MineIs DEF Made
<1>4. ASSUME NEW pc \in Asking, RawReceive(pc)
      PROVE  /\ Done(Reply) /\ Reply \in Responses /\ call.pc = pc /\ zero.hide /\ down = <<>> /\ up # <<>>
             /\ ~Follows(Reply) => up' = <<>>
  BY <1>0, <1>4, TookDone, Answered DEF Lockstep, RawReceive
<1>16. /\ \A pc \in Labels : Await(call, pc) => call'.pc = pc
       /\ call' = NoCall => call'.pc = "idle"
       /\ call.pc # "crashed"
       /\ {"idle", "extra", "selected", "opening", "challenged", "authenticating", "resetting", "selecting"} \subseteq Labels
  <2>1. NoCall.pc = "idle"
    BY DEF NoCall
  <2>2. ASSUME NEW pc \in Labels, Await(call, pc) PROVE call'.pc = pc
    BY <1>0, <2>2 DEF Await, CallRecord
  <2>3. {"idle", "extra", "selected", "opening", "challenged", "authenticating", "resetting", "selecting"} \subseteq Labels
    BY DEF Labels
  <2>4. call.pc # "crashed"
    BY HostInCall
  <2>. QED BY <2>1, <2>2, <2>3, <2>4
<1>5. CASE SequencePacket \/ check_sequence
  <2>1. UNCHANGED <<zero, mode, down, device>> /\ call'.pc = call.pc
    BY <1>0, <1>5 DEF SequencePacket, check_sequence, CallRecord
  <2>. QED BY <1>1, <1>3, <1>16, <2>1 DEF Aside, Greeted, Authorizing, WillReset
<1>6. CASE mode_selected \/ extra_packet
  <2>1. call.pc \in {"selecting", "extra"} /\ device' = device
    BY <1>6 DEF mode_selected, extra_packet, RawReceive
  <2>2. call'.pc \in {"idle", "extra", "selected"}
    BY <1>6, <1>16 DEF mode_selected, extra_packet, Selected
  <2>3. Reply.socket \in Number
    BY <1>6, ReplyTyped DEF mode_selected, extra_packet, RawReceive, Responses
  <2>4. mode' = mode \/ SetMode([mine EXCEPT !.number = Reply.socket])
    BY <1>6 DEF mode_selected, extra_packet, Selected, mine
  <2>5. \A n \in Number : [mine EXCEPT !.number = n] \in ModeRecord /\ [mine EXCEPT !.number = n].handle = mine.handle
    BY <1>0 DEF ModeRecord
  <2>6. mine'.handle = mine.handle
    <3>1. CASE mode' = mode
      BY <1>3, <3>1
    <3>2. CASE SetMode([mine EXCEPT !.number = Reply.socket])
      <4>1. PICK r \in ModeRecord : SetMode(r) /\ r.handle = mine.handle
        BY <2>3, <2>5, <3>2
      <4>. QED BY <1>2, <4>1
    <3>. QED BY <2>4, <3>1, <3>2
  <2>. QED BY <1>0, <1>1, <2>1, <2>2, <2>6 DEF Aside, Greeted, Authorizing, Made
<1>7. CASE SendOpen \/ SendPasswordHash
  <2>1. call.pc \in {"selected", "challenged"} /\ device' = device /\ mode' = mode
    BY <1>7 DEF SendOpen, SendPasswordHash
  <2>2. down = <<>>
    BY <1>0, <2>1 DEF Lockstep, InTurn, Asking
  <2>3. down' # <<>>
    BY <1>7, <2>2, Tuples DEF SendOpen, SendPasswordHash, RawSend
  <2>4. call'.pc \in {"opening", "authenticating"}
    <3>1. zero.sequence \in 0..255
      BY <1>0 DEF ZeroRecord
    <3>2. PICK n \in 0..255, pc \in {"opening", "authenticating"} : Await([call EXCEPT !.flag = n], pc)
      BY <1>7, <3>1 DEF SendOpen, SendPasswordHash
    <3>. QED BY <1>0, <3>2 DEF Await, CallRecord
  <2>. QED BY <1>0, <1>1, <1>3, <2>1, <2>3, <2>4 DEF Aside, Greeted, Authorizing
<1>8. CASE still_half_open \/ refuse_password
  <2>1. call.pc \in {"selected", "challenged"} /\ device' = device
    BY <1>8 DEF still_half_open, refuse_password
  <2>2. call'.pc \in {"idle", "challenged"}
    BY <1>8, <1>16 DEF still_half_open, refuse_password, BadPassword
  <2>3. mode' = mode \/ SetMode([mine EXCEPT !.rejected = TRUE])
    BY <1>8 DEF still_half_open, refuse_password, BadPassword, mine
  <2>4. [mine EXCEPT !.rejected = TRUE] \in ModeRecord /\ [mine EXCEPT !.rejected = TRUE].handle = mine.handle
    BY <1>0 DEF ModeRecord
  <2>5. mine'.handle = mine.handle
    BY <1>2, <1>3, <2>3, <2>4
  <2>. QED BY <1>0, <1>1, <2>1, <2>2, <2>5 DEF Aside, Greeted, Authorizing, Made
<1>9. CASE password_challenge \/ password_failed
  <2>1. /\ device' = device /\ Reply.command \in {"PASSWORD_CHALLENGE", "PASSWORD_FAILED"}
        /\ \E pc \in {"opening", "authenticating"} : RawReceive(pc)
    BY <1>9 DEF password_challenge, password_failed, Receive
  <2>2. PICK pc \in {"opening", "authenticating"} : RawReceive(pc)
    BY <2>1
  <2>3. Done(Reply) /\ call.pc = pc
    BY <1>4, <2>2 DEF Asking
  <2>4. device.open = {} /\ Authorizing
    BY <2>1, <2>3 DEF Done, Authorizing
  <2>5. mode' = mode \/ SetMode([mine EXCEPT !.rejected = TRUE])
    BY <1>9 DEF password_challenge, password_failed, BadPassword, mine
  <2>6. [mine EXCEPT !.rejected = TRUE] \in ModeRecord /\ [mine EXCEPT !.rejected = TRUE].handle = mine.handle
    BY <1>0 DEF ModeRecord
  <2>7. mine'.handle = mine.handle
    BY <1>2, <1>3, <2>5, <2>6
  <2>8. call'.pc \in {"challenged", "idle"}
    BY <1>9, <1>16 DEF password_challenge, password_failed, BadPassword
  <2>. QED BY <1>0, <1>1, <2>1, <2>4, <2>7, <2>8 DEF Aside, Greeted, Made
<1>10. CASE opened_socket \/ password_accepted
  <2>1. device' = device /\ Opened /\ \E pc \in {"opening", "authenticating"} : RawReceive(pc)
    BY <1>10 DEF opened_socket, password_accepted, Receive
  <2>2. PICK pc \in {"opening", "authenticating"} : RawReceive(pc)
    BY <2>1
  <2>3. Done(Reply) /\ call.pc = pc /\ down = <<>> /\ up' = <<>> /\ down' = down
    BY <1>4, <1>10, <2>2 DEF Asking, Follows, opened_socket, password_accepted
  <2>4. Authorizing /\ call'.pc = "idle"
    BY <2>1, <2>3 DEF Authorizing, Opened, NoCall
  <2>5. CASE Reply.command = "OPENED_SOCKET"
    <3>1. Reply.socket = number /\ number # 0 /\ Reply.sequence = call.flag /\ device.open = {number}
      BY <2>3, <2>4, <2>5 DEF Done
    <3>2. Accepted
      BY <2>1, <2>5, <3>1 DEF Opened
    <3>3. PICK r \in ModeRecord : r.handle /\ r.socket = number /\ SetMode(r)
      <4>1. [mine EXCEPT !.handle = TRUE, !.socket = number, !.flag = call.flag] \in ModeRecord
        BY <1>0 DEF ModeRecord, CallRecord, number, mine
      <4>2. /\ [mine EXCEPT !.handle = TRUE, !.socket = number, !.flag = call.flag].handle
            /\ [mine EXCEPT !.handle = TRUE, !.socket = number, !.flag = call.flag].socket = number
        BY <1>0 DEF ModeRecord
      <4>. QED BY <3>2, <4>1, <4>2 DEF Accepted, mine
    <3>4. mine'.socket # 0
      BY <1>2, <3>1, <3>3
    <3>5. machine.ready
      BY <2>3, <2>4, <3>1 DEF Aside, Greeted
    <3>. QED BY <1>0, <1>1, <1>2, <2>1, <2>3, <2>4, <3>3, <3>4, <3>5 DEF Made
  <2>6. CASE Reply.command # "OPENED_SOCKET"
    <3>1. device.open = {} /\ mode' = mode
      BY <2>1, <2>3, <2>4, <2>6 DEF Done, Opened
    <3>. QED BY <1>0, <1>1, <1>3, <2>1, <2>4, <3>1 DEF Aside, Greeted
  <2>. QED BY <2>5, <2>6
<1>11. CASE closed_socket
  <2>1. RawReceive("closing") /\ device' = device
    BY <1>11 DEF closed_socket, Receive
  <2>2. call.pc = "closing" /\ down = <<>>
    BY <1>4, <2>1 DEF Asking
  <2>3. CASE zero.resetOnClose
    <3>1. Send("RESET", 0) /\ Await(call, "resetting") /\ mode' = mode
      BY <1>11, <2>3 DEF closed_socket
    <3>2. down' # <<>> /\ zero'.resetOnClose
      BY <1>0, <2>2, <2>3, <3>1, Tuples DEF Send, RawSend, ZeroRecord
    <3>3. call'.pc = "resetting"
      BY <1>0, <3>1 DEF Await, CallRecord
    <3>. QED BY <1>0, <1>1, <1>3, <2>1, <2>2, <3>1, <3>2, <3>3 DEF Aside, Greeted, Authorizing, WillReset
  <2>4. CASE ~zero.resetOnClose
    <3>1. CloseReturns /\ ~machine.mustReset
      BY <1>1, <1>11, <2>4 DEF closed_socket
    <3>2. mine' = NewMode
      BY <1>2, <3>1, NewTypes DEF CloseReturns
    <3>3. call'.pc \in {"selecting", "idle"}
      BY <1>16, <3>1 DEF CloseReturns, SelectMode
    <3>. QED BY <1>0, <2>1, <2>2, <3>1, <3>2, <3>3 DEF Aside, Greeted, Authorizing, Made, NewMode
  <2>. QED BY <2>3, <2>4
<1>12. CASE reset_reply
  <2>1. RawReceive("resetting") /\ device' = device /\ CloseReturns
    BY <1>12 DEF reset_reply
  <2>2. call.pc = "resetting" /\ down = <<>>
    BY <1>4, <2>1 DEF Asking
  <2>3. ~machine.mustReset
    BY <2>2 DEF Aside, WillReset
  <2>4. mine' = NewMode
    BY <1>2, <2>1, NewTypes DEF CloseReturns
  <2>5. call'.pc \in {"selecting", "idle"}
    BY <1>16, <2>1 DEF CloseReturns, SelectMode
  <2>. QED BY <1>0, <2>1, <2>2, <2>3, <2>4, <2>5 DEF Aside, Greeted, Authorizing, Made, NewMode
<1>13. ~bad_closed
  BY <1>4 DEF bad_closed, Receive, RawReceive, Asking, Done, IsClosed, mine
<1>14. ~missing_reset_reply
  BY <1>4 DEF missing_reset_reply, RawReceive, Asking, Done
<1>15. ~timeout
  BY DEF timeout, Typed
<1>. QED BY <1>5, <1>6, <1>7, <1>8, <1>9, <1>10, <1>11, <1>12, <1>13, <1>14, <1>15 DEF Host

\* The Mode has its socket open between calls.
LEMMA OpenIsBetween == Lockstep /\ OpenAgrees /\ call.pc = "idle" /\ mine.socket # 0 => Between
BY DEF Lockstep, TriesKnown, OpenAgrees, Authorizing, HasSocket, Between

LEMMA OpenWillBeBetween ==
  ASSUME Lockstep', OpenAgrees', call'.pc = "idle", mine'.socket # 0
  PROVE  Between'
<1>1. (zero.halfOpen => KnowsTries)'
  BY DEF Lockstep, TriesKnown
<1>2. HasSocket' /\ (call.pc \notin {"opening", "authenticating", "closing", "resetting"} =>
                       device.open = {mine.socket} \ {0})'
  BY DEF OpenAgrees
<1>3. device'.open = {mine'.socket}
  BY <1>2
<1>. QED BY <1>1, <1>2, <1>3 DEF Between

Becomes == IF call'.pc = "crashed" THEN Crashed'
           ELSE IF loader'.at \in Busy THEN AtWork' ELSE Aside'

\* The Mode's own steps: a socket that has been opened greets.
LEMMA ModeStepAside ==
  ASSUME MaxTimeouts = 0, OneMode, ~RefusesReset, Typed, Typed', LoaderTyped, Aside, loader.at \in {"idle", "destroyed"},
         mode_step
  PROVE  Becomes
<1>1. Lockstep' /\ OpenAgrees'
  BY SocketZeroStep DEF mode_step, Next
<1>2. call.pc # "idle" /\ loader.at = "idle" /\ ~loader.started /\ machine.stream # "open"
  BY HostInCall DEF mode_step, Aside
<1>3. machine' = machine /\ loader \in LoaderRecord
  BY DEF mode_step, LoaderTyped
<1>4. CASE Made
  <2>1. loader' = [loader EXCEPT !.at = "ready"]
    BY <1>4 DEF mode_step, Made
  <2>2. loader'.at = "ready" /\ loader'.op = "none" /\ ~loader'.started
    BY <1>2, <1>3, <2>1 DEF LoaderRecord, Aside
  <2>3. /\ machine.ready /\ ~machine.mustReset /\ down' = <<>> /\ up' = <<>> /\ call'.pc = "idle"
        /\ mine'.socket # 0
    BY <1>4, HostAside DEF mode_step
  <2>4. Between'
    BY <1>1, <2>3, OpenWillBeBetween
  <2>5. zero'.hide
    BY <1>1, <2>3 DEF Lockstep, InTurn
  <2>6. AtReady'
    BY <1>2, <1>3, <2>2, <2>3 DEF AtReady, Aside
  <2>7. AtWork'
    BY <2>2, <2>4, <2>5, <2>6 DEF AtWork, Working
  <2>. QED BY <2>2, <2>3, <2>7 DEF Becomes, Busy
<1>5. CASE ~Made
  <2>1. loader' = loader
    BY <1>5 DEF mode_step, Made
  <2>2. (machine.ready <=> Greeted') /\ (machine.mustReset => WillReset') /\ (mine'.handle => mine'.socket # 0)
    BY <1>5, HostAside DEF mode_step
  <2>3. call'.pc # "crashed"
    BY HostAside DEF mode_step
  <2>4. Aside'
    BY <1>1, <1>2, <1>3, <2>1, <2>2 DEF Aside
  <2>. QED BY <1>2, <2>1, <2>3, <2>4 DEF Becomes, Busy, Working
<1>. QED BY <1>4, <1>5

\* The application's calls, of which the one that crashes has no Socket.
LEMMA ApplicationAside ==
  ASSUME MaxTimeouts = 0, OneMode, ~RefusesReset, Typed, Typed', LoaderTyped, Aside,
         loader.at \in {"idle", "destroyed"}, mode_call \/ DestroyMembers \/ (loader_at_rest /\ call.pc # "crashed")
  PROVE  Becomes
<1>0. /\ call \in CallRecord /\ zero \in ZeroRecord /\ mine \in ModeRecord /\ Lockstep /\ OpenAgrees
      /\ Loader \in Modes /\ mode[Loader] = mine /\ mode'[Loader] = mine' /\ \A m \in Modes : m = Loader
  BY MineIs, LoaderIsMine DEF Aside, Typed
<1>1. CASE loader_at_rest /\ call.pc # "crashed"
  <2>1. UNCHANGED <<zero, mode, call, down, up, device, loader, machine>> /\ UNCHANGED vars
    BY <1>1 DEF loader_at_rest, at_rest, vars
  <2>2. Lockstep' /\ OpenAgrees'
    BY <2>1, SocketZeroStep
  <2>3. call'.pc # "crashed"
    BY <1>1, <2>1
  <2>. QED BY <1>1, <2>1, <2>2, <2>3 DEF Becomes, Aside, Greeted, Authorizing, WillReset, mine, Busy, Working
<1>2. CASE mode_call \/ DestroyMembers
  <2>1. /\ call.pc = "idle" /\ ~loader.started /\ machine.stream # "open" /\ machine' = machine
        /\ down = <<>> /\ up = <<>> /\ UNCHANGED <<up, device>> /\ ~machine.ready
    <3>1. call.pc = "idle" /\ ~loader.started /\ machine' = machine /\ UNCHANGED <<up, device>>
      BY <1>0, <1>2 DEF mode_call, DestroyMembers, Resting, Aside, Open, RetryPassword, Destroy
    <3>2. down = <<>> /\ up = <<>>
      BY <1>0, <3>1 DEF Lockstep, InTurn, Asking
    <3>. QED BY <3>1, <3>2 DEF Aside, Greeted, Authorizing
  <2>2. (loader' = loader /\ loader.at = "idle") \/ loader' = NewLoader
    BY <1>2 DEF mode_call, DestroyMembers, Resting
  <2>3. loader'.at = "idle" /\ loader'.op = "none" /\ ~loader'.started
    BY <2>1, <2>2, Restful DEF Aside
  <2>4. \/ \E p \in Passwords : Open(Loader, p) \/ RetryPassword(Loader, p)
        \/ Destroy(Loader)
    BY <1>0, <1>2 DEF mode_call, DestroyMembers
  <2>5. Lockstep' /\ OpenAgrees'
    BY <1>0, <2>4, SocketZeroStep DEF Next, Application
  <2>6. machine.mustReset => mine.handle /\ mine.number # 0 /\ mine.socket # 0 /\ zero.resetOnClose
    BY <1>0, SocketsAssumption DEF Aside, WillReset, OpenAgrees, HasSocket
  <2>7. \A r \in ModeRecord : mode' = [mode EXCEPT ![Loader] = r] => mine' = r
    BY <1>0, MineIs
  <2>8. mode' = mode => mine' = mine
    BY <1>0, MineIs
  <2>9. \A op \in {"open", "retry", "destroy"} : \A p \in Passwords : TheCall(op, Loader, p) \in CallRecord
    BY <1>0, NewTypes DEF TheCall, CallRecord
  <2>10. ASSUME NEW c \in CallRecord, Close(c), UNCHANGED mode
         PROVE  /\ call'.pc = "closing" /\ (mine'.handle => mine'.socket # 0)
                /\ machine.mustReset => zero'.resetOnClose /\ mine'.socket # 0
    <3>1. call'.pc = "closing"
      BY <2>10 DEF Close, Await, CallRecord
    <3>2. zero'.resetOnClose = zero.resetOnClose
      BY <1>0, <2>10 DEF Close, Send, ZeroRecord
    <3>. QED BY <2>6, <2>8, <2>10, <3>1, <3>2 DEF Aside
  <2>11. ASSUME NEW c \in CallRecord, SelectMode(c) PROVE call'.pc = "selecting"
    BY <2>11 DEF SelectMode, Await, CallRecord
  <2> DEFINE Left == /\ call'.pc \in {"idle", "selecting", "selected", "closing", "crashed"}
                     /\ mine'.handle => mine'.socket # 0
                     /\ machine.mustReset => zero'.resetOnClose /\ mine'.socket # 0
                     /\ call'.pc = "crashed" => down' = <<>>
  <2>12. Left
    <3>1. CASE Destroy(Loader)
      <4>1. CASE mine.handle /\ mine.socket # 0
        <5>1. Close(TheCall("destroy", Loader, "none")) /\ UNCHANGED mode /\ "none" \in Passwords
          BY <1>0, <3>1, <4>1 DEF Destroy, Passwords
        <5>. QED BY <2>9, <2>10, <5>1
      <4>2. CASE ~(mine.handle /\ mine.socket # 0)
        <5>1. mode' = [mode EXCEPT ![Loader] = NewMode] /\ UNCHANGED <<zero, call, down>>
          BY <1>0, <3>1, <4>2 DEF Destroy
        <5>2. mine' = NewMode
          BY <2>7, <5>1, NewTypes
        <5>. QED BY <2>1, <2>6, <4>2, <5>1, <5>2 DEF NewMode
      <4>. QED BY <4>1, <4>2
    <3>2. ASSUME NEW p \in Passwords, RetryPassword(Loader, p)
          PROVE  Left
      <4>1. ~mine.handle /\ mode' = [mode EXCEPT ![Loader].rejected = FALSE]
        BY <1>0, <3>2 DEF RetryPassword
      <4>2. [mine EXCEPT !.rejected = FALSE] \in ModeRecord /\ [mine EXCEPT !.rejected = FALSE].handle = mine.handle
        BY <1>0 DEF ModeRecord
      <4>3. mode' = [mode EXCEPT ![Loader] = [mine EXCEPT !.rejected = FALSE]]
        BY <1>0, <4>1
      <4>4. mine' = [mine EXCEPT !.rejected = FALSE]
        BY <2>7, <4>2, <4>3
      <4>5. PICK c \in CallRecord : c = TheCall("retry", Loader, p)
        BY <2>9
      <4>6. call'.pc = "selected"
        BY <3>2, <4>5 DEF RetryPassword, Await, CallRecord
      <4>. QED BY <2>6, <4>1, <4>2, <4>4, <4>6
    <3>3. ASSUME NEW p \in Passwords, Open(Loader, p)
          PROVE  Left
      <4>1. PICK c \in CallRecord : c = TheCall("open", Loader, p)
        BY <2>9
      <4>2. CASE /\ mine.number = 0 \/ (mine.handle /\ mine.socket = 0)
                 /\ mode' = [mode EXCEPT ![Loader] = NewMode] /\ SelectMode(c)
        <5>1. mine' = NewMode
          BY <2>7, <4>2, NewTypes
        <5>. QED BY <2>6, <2>11, <4>2, <5>1 DEF NewMode
      <4>3. CASE Close(c) /\ UNCHANGED mode
        BY <2>10, <4>3
      <4>4. CASE call' = [c EXCEPT !.pc = "crashed"] /\ ~mine.handle /\ UNCHANGED <<zero, mode, down>>
        <5>1. call'.pc = "crashed"
          BY <4>4 DEF CallRecord
        <5>. QED BY <2>1, <2>6, <2>8, <4>4, <5>1
      <4>. QED BY <1>0, <3>3, <4>1, <4>2, <4>3, <4>4 DEF Open
    <3>. QED BY <2>4, <3>1, <3>2, <3>3
  <2>13. CASE call'.pc = "crashed"
    BY <2>3, <2>12, <2>13 DEF Becomes, Crashed
  <2>14. CASE call'.pc # "crashed"
    <3>1. Aside'
      BY <2>1, <2>3, <2>5, <2>12 DEF Aside, Greeted, Authorizing, WillReset
    <3>. QED BY <2>3, <2>14, <3>1 DEF Becomes, Busy, Working
  <2>. QED BY <2>13, <2>14
<1>. QED BY <1>1, <1>2

\* The device's answers to SocketZero: a socket that it opens will be greeted, and
\* one that it closes has no stream.
LEMMA DeviceAside ==
  ASSUME MaxTimeouts = 0, OneMode, ~RefusesReset, Typed, Typed', LoaderTyped, Aside, call.pc # "crashed",
         loader.at \in {"idle", "destroyed"}, opened \/ closed \/ restarted \/ answered
  PROVE  Becomes
<1>0. /\ device \in DeviceRecord /\ mine \in ModeRecord /\ Lockstep /\ OpenAgrees /\ machine \in MachineRecord
      /\ mode[Loader] = mine /\ call.mode = Loader
  BY MineIs, LoaderIsMine DEF Aside, Typed, LoaderTyped
<1>1. Device
  BY DEF opened, closed, restarted, answered, Device
<1>2. Lockstep' /\ OpenAgrees'
  BY <1>1, SocketZeroStep DEF Next
<1>3. down # <<>> /\ loader' = loader
  BY DEF opened, closed, restarted, answered, answer_select, answer_open, answer_password, answer_close,
         answer_reset, refuse, Asked
<1>4. call.pc \in Asking /\ up = <<>> /\ Tail(down) = <<>> /\ Fits(Request)
  BY <1>0, <1>3, DeviceTurn DEF Lockstep
<1>5. \A d, q : Answer(d, q) => UNCHANGED <<zero, mode, call>> /\ device' = d /\ down' = <<>>
  BY <1>4 DEF Answer
<1>6. UNCHANGED <<zero, mode, call>> /\ down' = <<>> /\ mine' = mine
  <2>1. \E d, q : Answer(d, q)
    BY DEF opened, closed, restarted, answered, answer_select, answer_open, answer_password, answer_close,
           answer_reset, refuse
  <2>. QED BY <1>5, <2>1 DEF mine
<1>7. ~loader.started /\ machine.stream # "open" /\ ~machine.ready /\ loader.at = "idle"
  BY <1>3, <1>4 DEF Aside, Greeted, Asking
<1>8. call.pc \notin {"closing", "resetting"} => ~machine.mustReset
  BY <1>0, <1>4 DEF Aside, WillReset, OpenAgrees, HasSocket, Asking
<1>9. /\ Request.command \in {"OPEN_SOCKET", "PASSWORD"} => Authorizing
      /\ Request.command = "CLOSE_SOCKET" => call.pc = "closing" /\ Request.socket = mine.socket
      /\ Request.command = "RESET" => call.pc = "resetting"
      /\ Request.command \in {"SELECT_MODE", "SELECT_DESKTOP"} => call.pc = "selecting"
      /\ call.pc = "resetting" => Request.command = "RESET"
  BY <1>4 DEF Fits, Asking, Authorizing, mine
<1>10. machine'.ready <=> Greeted'
  <2>1. CASE opened
    <3>1. down # <<>> /\ Request.command \in {"OPEN_SOCKET", "PASSWORD"}
      BY <2>1 DEF opened, answer_open, answer_password, Asked
    <3>2. device.open = {} /\ Authorizing
      BY <1>0, <1>4, <1>9, <3>1 DEF OpenAgrees
    <3>3. PICK b \in BOOLEAN : b = (machine.ready \/ (call.mode = Loader /\ device'.open # device.open))
      OBVIOUS
    <3>4. machine' = [machine EXCEPT !.ready = b]
      BY <2>1, <3>3 DEF opened
    <3>5. machine'.ready = b
      BY <1>0, <3>4 DEF MachineRecord
    <3>. QED BY <1>0, <1>6, <1>7, <3>2, <3>3, <3>5 DEF Greeted, Authorizing
  <2>2. CASE closed \/ restarted
    <3>1. machine'.ready = FALSE
      <4>1. machine.mustReset \in BOOLEAN /\ FALSE \in BOOLEAN
        BY <1>0 DEF MachineRecord
      <4>. QED BY <1>0, <1>7, <2>2, <4>1 DEF closed, restarted, NewMachine, MachineRecord
    <3>2. ~Authorizing
      BY <1>9, <2>2 DEF closed, restarted, answer_close, answer_reset, Asked, Authorizing
    <3>. QED BY <1>6, <3>1, <3>2 DEF Greeted, Authorizing
  <2>3. CASE answered
    <3>1. machine' = machine /\ (answer_select \/ refuse)
      BY <2>3 DEF answered
    <3>2. answer_select => ~Authorizing
      BY <1>9 DEF answer_select, Asked, Authorizing
    <3>3. refuse => device' = device
      BY <1>5 DEF refuse
    <3>4. Authorizing => device.open = {}
      BY <1>0, <1>4 DEF OpenAgrees
    <3>. QED BY <1>6, <1>7, <3>1, <3>2, <3>3, <3>4 DEF Greeted, Authorizing
  <2>. QED BY <2>1, <2>2, <2>3
<1>11. machine'.announced = "none" /\ machine'.stream # "open" /\ (machine'.mustReset => machine.mustReset)
  <2>1. machine.mustReset \in BOOLEAN /\ machine.announced = "none" /\ FALSE \in BOOLEAN
    BY <1>0 DEF MachineRecord, Aside
  <2>2. CASE opened
    <3>1. PICK b \in BOOLEAN : b = (machine.ready \/ (call.mode = Loader /\ device'.open # device.open))
      OBVIOUS
    <3>2. machine' = [machine EXCEPT !.ready = b]
      BY <2>2, <3>1 DEF opened
    <3>. QED BY <1>0, <1>7, <2>1, <3>2 DEF MachineRecord
  <2>3. CASE closed \/ restarted \/ answered
    BY <1>0, <1>7, <2>1, <2>3 DEF closed, restarted, answered, NewMachine, MachineRecord
  <2>. QED BY <2>2, <2>3
<1>12. machine'.mustReset => WillReset'
  <2> SUFFICES ASSUME machine'.mustReset PROVE WillReset'
    OBVIOUS
  <2>1. zero.resetOnClose /\ mine.socket # 0 /\ machine.mustReset
    BY <1>11 DEF Aside, WillReset
  <2>2. call.pc # "resetting"
    <3> SUFFICES ASSUME call.pc = "resetting" PROVE FALSE
      OBVIOUS
    <3>1. Request.command = "RESET" /\ device.tries > 0 /\ device.tries # 0
      BY <1>0, <1>9, <2>1 DEF OpenAgrees, HasSocket, DeviceRecord
    <3>2. restarted
      BY <3>1 DEF opened, closed, answered, answer_select, answer_open, answer_password, answer_close, refuse, Asked
    <3>3. machine' = [machine EXCEPT !.mustReset = FALSE]
      BY <3>2 DEF restarted
    <3>. QED BY <1>0, <3>3 DEF MachineRecord
  <2>. QED BY <1>6, <2>1, <2>2 DEF WillReset
<1>13. Aside'
  BY <1>2, <1>3, <1>6, <1>7, <1>10, <1>11, <1>12 DEF Aside
<1>. QED BY <1>3, <1>6, <1>7, <1>13 DEF Becomes, Busy, Working

\* The loader begins with its socket open and nothing on the wire.
LEMMA BeginsAside ==
  ASSUME OneMode, Typed, Typed', LoaderTyped, Aside, loader.at \in {"idle", "destroyed"},
         start_stream \/ operation \/ stop_stream \/ DestroyLoader
  PROVE  Becomes
<1>0. Lockstep /\ OpenAgrees /\ mode[Loader] = mine /\ loader \in LoaderRecord
  BY LoaderIsMine DEF Aside, LoaderTyped
<1>1. /\ UNCHANGED <<zero, mode, call, down, up, device, machine>> /\ call.pc = "idle" /\ mine.socket # 0
      /\ call' = call
  <2>1. start_stream \/ operation \/ stop_stream => \E op, todo : Begins(op, todo)
    BY DEF start_stream, operation, stop_stream
  <2>2. \A op, todo : Begins(op, todo) => /\ UNCHANGED <<zero, mode, call, down, up, device, machine>>
                                         /\ call.pc = "idle" /\ mine.socket # 0
    BY <1>0 DEF Begins, Resting, IsOpen
  <2>3. DestroyLoader => /\ UNCHANGED <<zero, mode, call, down, up, device, machine>>
                         /\ call.pc = "idle" /\ mine.socket # 0
    BY <1>0 DEF DestroyLoader, Resting, IsOpen, vars
  <2>. QED BY <2>1, <2>2, <2>3
<1>2. Between /\ zero.hide /\ down = <<>> /\ up = <<>> /\ ~machine.ready
  BY <1>0, <1>1, OpenIsBetween DEF Lockstep, InTurn, Asking, Aside, Greeted, Authorizing
<1> DEFINE Starts(op, todo) == /\ loader' = [loader EXCEPT !.op = op, !.todo = todo, !.at = "send"]
                               /\ \/ op = "StartStream" /\ todo = StartStream /\ ~loader.started
                                  \/ op \in Ops /\ todo \in Seq(Work) /\ loader.started
                                  \/ op \in {"StopStream", "destroy"} /\ todo = StopStream /\ loader.started
<1> HIDE DEF Starts
<1>3. PICK op, todo : Starts(op, todo)
  <2>1. CASE start_stream
    <3>1. Starts("StartStream", StartStream)
      BY <2>1 DEF start_stream, Begins, Starts
    <3>. QED BY <3>1
  <2>4. CASE operation
    <3>1. PICK o \in Operations : Begins(o.op, o.todo) /\ loader.started
      BY <2>4 DEF operation
    <3>2. o.op \in Ops /\ o.todo \in Seq(Work)
      BY OperationsWork
    <3>3. Starts(o.op, o.todo)
      BY <3>1, <3>2 DEF Begins, Starts
    <3>. QED BY <3>3
  <2>5. CASE stop_stream
    <3>1. Starts("StopStream", StopStream)
      BY <2>5 DEF stop_stream, Begins, Starts
    <3>. QED BY <3>1
  <2>6. CASE DestroyLoader
    <3>1. Starts("destroy", StopStream)
      BY <2>6 DEF DestroyLoader, Starts
    <3>. QED BY <3>1
  <2>. QED BY <2>1, <2>4, <2>5, <2>6
<1>4. loader'.op = op /\ loader'.todo = todo /\ loader'.at = "send" /\ loader'.started = loader.started
  BY <1>0, <1>3 DEF LoaderRecord, Starts
<1>5. op # "none" /\ (op = "StartStream" <=> ~loader.started) /\ (op \in Ops => todo \in Seq(Work) /\ loader.started)
      /\ (op \in {"StopStream", "destroy"} => todo = StopStream /\ loader.started)
      /\ (op = "StartStream" => todo = StartStream)
  BY <1>3, Names DEF Starts
<1>6. Task'
  BY <1>1, <1>2, <1>4, <1>5 DEF Task, Scripted, Starting, Stopping
<1>7. AtSend'
  BY <1>1, <1>2, <1>4, <1>5 DEF AtSend, Unanswered, Starting, Aside, WillReset
<1>8. Between'
  BY <1>1, <1>2 DEF Between, KnowsTries, HasSocket, mine
<1>9. AtWork'
  BY <1>1, <1>2, <1>4, <1>6, <1>7, <1>8 DEF AtWork, Working
<1>. QED BY <1>1, <1>4, <1>9 DEF Becomes, Busy, Working

\* The rest does not happen while SocketZero has the wire.
LEMMA OnlyAside ==
  ASSUME Typed, LoaderTyped, Aside, loader.at \in {"idle", "destroyed"}
  PROVE  ~Packets /\ ~greet /\ ~announce /\ ~reply
<1>1. Lockstep /\ OpenAgrees
  BY DEF Aside
<1>2. ~Packets
  BY DEF Packets, PacketSimple, PacketCommand, PacketDataPart, LoaderSequencePacket, acknowledged, stream_entry,
         unexpected, receive_data, input_failed, goodbye_answered, OnOpen, LoaderReads
<1>3. ~greet
  BY <1>1 DEF greet, Aside, Greeted, OpenAgrees
<1>4. down # <<>> => Request.command \in Commands
  <2>1. down # <<>> => call.pc \in Asking /\ Fits(Request)
    BY <1>1, DeviceTurn DEF Lockstep
  <2>. QED BY <2>1 DEF Asking, Fits, Commands
<1>5. ~announce /\ ~reply
  <2>1. announce \/ reply => down # <<>> /\ Request.command \in HasData \cup SimpleCmd \cup {"DATA"}
    <3>1. announce => down # <<>> /\ Request.command \in HasData
      BY DEF announce
    <3>2. reply => down # <<>> /\ Request.command \in SimpleCmd \cup {"DATA"}
      BY Zenon DEF reply
    <3>. QED BY <3>1, <3>2
  <2>2. \A c \in HasData \cup SimpleCmd \cup {"DATA"} : c \notin Commands
    BY Names DEF LoaderCommands
  <2>. QED BY <1>4, <2>1, <2>2
<1>. QED BY <1>2, <1>3, <1>5

-----------------------------------------------------------------------------
\* While the loader is at work: what the operation in progress has to do,
LEMMA Kind ==
  ASSUME LoaderTyped, loader.at \in Working, Task
  PROVE  /\ Starting \/ Stopping \/ loader.op \in Ops
         /\ Starting => /\ ~Stopping /\ loader.op \notin Ops /\ ~loader.started
                        /\ \/ Command = "HELLO" /\ Tail(loader.todo) = <<"SET_UNKNOWN1">>
                           \/ Command = "SET_UNKNOWN1" /\ Tail(loader.todo) = <<>>
         /\ Stopping => loader.op \notin Ops /\ loader.started /\ Command = "GOODBYE"
         /\ loader.op \in Ops => loader.started /\ Command \in Work /\ Tail(loader.todo) \in Seq(Work) /\ loader.todo \in Seq(Work)
<1>1. loader \in LoaderRecord /\ loader.todo # <<>>
  BY DEF LoaderTyped
<1>2. Starting \/ Stopping \/ loader.op \in Ops
  BY <1>1 DEF LoaderRecord, Task, Starting, Stopping
<1>3. Starting => /\ ~Stopping /\ loader.op \notin Ops /\ ~loader.started
                  /\ \/ Command = "HELLO" /\ Tail(loader.todo) = <<"SET_UNKNOWN1">>
                     \/ Command = "SET_UNKNOWN1" /\ Tail(loader.todo) = <<>>
  <2> SUFFICES ASSUME Starting PROVE <1>3!2
    OBVIOUS
  <2>1. ~Stopping /\ loader.op \notin Ops /\ ~loader.started /\ loader.todo \in {StartStream, <<"SET_UNKNOWN1">>}
    BY Names DEF Task, Scripted, Starting, Stopping
  <2>2. loader.todo = StartStream => Command = "HELLO" /\ Tail(loader.todo) = <<"SET_UNKNOWN1">>
    BY Tuples DEF StartStream, Command
  <2>3. loader.todo = <<"SET_UNKNOWN1">> => Command = "SET_UNKNOWN1" /\ Tail(loader.todo) = <<>>
    BY Tuples DEF Command
  <2>. QED BY <2>1, <2>2, <2>3
<1>4. Stopping => loader.op \notin Ops /\ loader.started /\ Command = "GOODBYE"
  BY Names, Tuples DEF Task, Scripted, Stopping, StopStream, Command
<1>5. loader.op \in Ops => loader.started /\ Command \in Work /\ Tail(loader.todo) \in Seq(Work) /\ loader.todo \in Seq(Work)
  <2> SUFFICES ASSUME loader.op \in Ops PROVE <1>5!2
    OBVIOUS
  <2>1. loader.started /\ loader.todo \in Seq(Work)
    BY DEF Task, Scripted
  <2>2. PICK q \in Seq(Work) : q = loader.todo
    BY <2>1
  <2>3. Head(q) \in Work /\ Tail(q) \in Seq(Work)
    BY <1>1, <2>2, HeadTailProperties
  <2>. QED BY <2>1, <2>2, <2>3 DEF Command
<1>. QED BY <1>2, <1>3, <1>4, <1>5

\* what waits in the device,
LEMMA WireDown ==
  ASSUME AtWork, loader.at \in Busy, down # <<>>
  PROVE  /\ Unanswered /\ up = <<>> /\ Tail(down) = <<>> /\ loader.at \in {"announced", "answer"}
         /\ loader.at = "announced" => Request.command = Command /\ Command \in HasData
         /\ loader.at = "answer" => \/ Request.command = "DATA" /\ machine.announced = Command
                                    \/ Request.command = Command /\ Command \in SimpleCmd
<1>1. CASE loader.at \in {"send", "data", "ready"}
  BY <1>1 DEF AtWork, AtSend, AtData, AtReady
<1>2. \A c : Sent(c) => up = <<>> /\ Tail(down) = <<>> /\ Request.command = c
  <2> TAKE c
  <2> HAVE Sent(c)
  <2>1. PICK q \in Requests : down = <<q>> /\ q.command = c
    BY DEF Sent
  <2>. QED BY <2>1, Tuples DEF Sent, Request
<1>3. CASE loader.at = "announced"
  BY <1>2, <1>3 DEF AtWork, AtAnnounced
<1>4. CASE loader.at = "answer"
  BY <1>2, <1>4 DEF AtWork, AtAnswer, Commanded
<1>. QED BY <1>1, <1>3, <1>4 DEF Busy, Working

\* and that nobody else has the wire.
LEMMA OnlyBusy ==
  ASSUME Typed, LoaderTyped, AtWork, loader.at \in Busy
  PROVE  ~mode_step /\ ~LoaderApplication /\ ~opened /\ ~closed /\ ~restarted /\ ~answered
<1>1. call.pc = "idle" /\ device.tries > 0 /\ loader.at \notin {"idle", "destroyed"}
  BY DEF AtWork, Between, HasSocket, Busy, Working
<1>2. ~mode_step
  BY <1>1, HostInCall DEF mode_step
<1>3. ~LoaderApplication
  <2>1. ~Resting /\ \A op, todo : ~Begins(op, todo)
    <3>1. ~Resting
      BY <1>1 DEF Resting
    <3>. QED BY <3>1, Zenon DEF Begins
  <2>2. ~start_stream /\ ~operation /\ ~stop_stream
    BY <2>1, Zenon DEF start_stream, operation, stop_stream
  <2>3. ~mode_call /\ ~DestroyLoader /\ ~DestroyMembers /\ ~loader_at_rest
    BY <1>1, <2>1 DEF mode_call, DestroyLoader, DestroyMembers, loader_at_rest
  <2>. QED BY <2>2, <2>3 DEF LoaderApplication
<1>4. down # <<>> => Request.command \in LoaderCommands
  BY WireDown, LoaderAt DEF Busy, LoaderCommands, Working
<1>5. down # <<>> => Request.command \notin Commands /\ device.tries # 0
  BY <1>1, <1>4, Names
<1>6. ~opened /\ ~closed /\ ~restarted /\ ~answered
  BY <1>5 DEF opened, closed, restarted, answered, answer_select, answer_open, answer_password, answer_close,
              answer_reset, refuse, Asked, Commands
<1>. QED BY <1>2, <1>3, <1>6

LEMMA StaysBetween ==
  ASSUME Between, UNCHANGED <<mode, call, device>>, zero'.halfOpen = zero.halfOpen, zero'.seed = zero.seed,
         zero'.tries = zero.tries, zero'.sequence = zero.sequence
  PROVE  Between'
BY DEF Between, KnowsTries, HasSocket, mine

\* The operation goes on to another place with the same packet.
LEMMA Goes ==
  ASSUME LoaderTyped, loader.at \in Working, Task, NEW at \in Working, loader' = [loader EXCEPT !.at = at],
         machine'.ready = machine.ready
  PROVE  /\ loader'.at = at /\ loader'.op = loader.op /\ Command' = Command /\ Task'
         /\ (Starting' <=> Starting) /\ loader'.at \in Busy
<1>1. loader'.at = at /\ loader'.op = loader.op /\ loader'.todo = loader.todo /\ loader'.started = loader.started
  BY DEF LoaderTyped, LoaderRecord
<1>. QED BY <1>1 DEF Command, Task, Scripted, Starting, Stopping, Busy

\* What leaves nothing on the wire gives it back to SocketZero.
LEMMA QuietAgain ==
  ASSUME Typed', Between', zero'.hide, down' = <<>>, up' = <<>>, machine' = machine, machine.announced = "none",
         ~machine.ready, loader'.op = "none", loader'.at \in {"idle", "destroyed"},
         loader'.started <=> machine.stream = "open", loader'.at = "destroyed" => ~loader'.started,
         machine.mustReset => zero'.resetOnClose
  PROVE  Becomes
<1>1. /\ call'.pc = "idle" /\ (zero'.halfOpen => KnowsTries') /\ mine'.socket # 0 /\ HasSocket'
      /\ device'.open = {mine'.socket} /\ Len(up') = 0 /\ Len(down') = 0
  BY DEF Between
<1>2. InTurn'
  BY <1>1 DEF InTurn, Asking
<1>3. TriesKnown'
  BY <1>1 DEF TriesKnown
<1>4. OpenAgrees'
  BY <1>1 DEF OpenAgrees, Authorizing
<1>5. Aside'
  BY <1>1, <1>2, <1>3, <1>4 DEF Aside, Lockstep, Greeted, Authorizing, WillReset
<1>. QED BY <1>1, <1>5 DEF Becomes, Busy, Working

\* What has been read, the operation goes on or is done.
LEMMA Continues ==
  ASSUME Typed', LoaderTyped, loader.at \in Working, Task, Between', zero'.hide, down' = <<>>, up' = <<>>,
         machine' = machine, machine.announced = "none", NEW todo \in Seq(LoaderCommands), Continue(todo),
         Starting => todo \in {<<>>, <<"SET_UNKNOWN1">>}, ~Stopping, loader.op \in Ops => todo \in Seq(Work),
         machine.stream = "open" <=> ~Starting \/ todo = <<>>, machine.mustReset => zero'.resetOnClose
  PROVE  Becomes
<1>0. loader \in LoaderRecord /\ ~machine.ready /\ loader.op # "none"
  BY DEF LoaderTyped, Task
<1>1. CASE todo = <<>>
  <2>1. loader.started \/ Starting
    BY Kind
  <2>2. PICK b \in BOOLEAN : b = (loader.started \/ Starting)
    OBVIOUS
  <2>3. loader' = [NewLoader EXCEPT !.started = b]
    BY <1>1, <2>2 DEF Continue, Starting
  <2>4. loader'.started = b /\ loader'.op = "none" /\ loader'.at = "idle"
    BY <2>3 DEF NewLoader
  <2>. QED BY <1>0, <1>1, <2>1, <2>2, <2>4, QuietAgain
<1>2. CASE todo # <<>>
  <2>1. loader' = [loader EXCEPT !.todo = todo, !.at = "send"]
    BY <1>2 DEF Continue
  <2>2. loader'.at = "send" /\ loader'.todo = todo /\ loader'.op = loader.op /\ loader'.started = loader.started
    BY <1>0, <2>1 DEF LoaderRecord
  <2>3. Task'
    BY <1>0, <1>2, <2>2 DEF Task, Scripted, Starting, Stopping
  <2>4. AtSend'
    BY <1>2, <2>2 DEF AtSend, Unanswered, Starting
  <2>5. AtWork'
    BY <2>2, <2>3, <2>4 DEF AtWork, Working
  <2>6. call'.pc = "idle"
    BY DEF Between
  <2>. QED BY <2>2, <2>5, <2>6 DEF Becomes, Busy, Working
<1>. QED BY <1>1, <1>2

\* What the loader reads: an answer, with what it says and what follows it,
LEMMA TakesAnswer ==
  ASSUME Typed, LoaderTyped, AtWork, LoaderReads("answer")
  PROVE  /\ Between /\ Task /\ zero.hide /\ down = <<>> /\ machine.announced = "none"
         /\ Reply \in Others /\ Says(Reply)
         /\ Brings(Reply) => \E d \in Others : up' = <<d>>
         /\ ~Brings(Reply) => up' = <<>>
<1>1. loader.at = "answer" /\ up # <<>> /\ up' = Tail(up) /\ zero.hide /\ ~Shake(Reply)
  BY DEF LoaderReads, AtWork, Hidden, Shake
<1>2. Answering /\ down = <<>> /\ machine.announced = "none" /\ Between /\ Task
  <2>1. AtAnswer /\ Between /\ Task
    BY <1>1 DEF AtWork, Working
  <2>2. ~Commanded
    BY <1>1 DEF Commanded, Sent
  <2>. QED BY <2>1, <2>2 DEF AtAnswer
<1>3. PICK a \in Others : Says(a) /\ Carries(a)
  BY <1>2 DEF Answering
<1>4. \A h \in Handshakes : Shake(h)
  BY DEF Handshakes, Shake
<1>5. CASE Brings(a)
  <2>1. PICK d \in Others : ComesWith(a, d)
    BY <1>3, <1>5 DEF Carries
  <2>2. CASE up = <<a, d>>
    <3>1. Reply = a /\ up' = <<d>>
      BY <1>1, <2>2, Tuples DEF Reply
    <3>. QED BY <1>1, <1>2, <1>3, <1>5, <3>1
  <2>3. ASSUME NEW h \in Handshakes, up = <<h, a, d>> PROVE FALSE
    BY <1>1, <1>4, <2>3, Tuples DEF Reply
  <2>. QED BY <2>1, <2>2, <2>3 DEF ComesWith
<1>6. CASE ~Brings(a)
  <2>1. Comes(a)
    BY <1>3, <1>6 DEF Carries
  <2>2. CASE up = <<a>>
    <3>1. Reply = a /\ up' = <<>>
      BY <1>1, <2>2, Tuples DEF Reply
    <3>. QED BY <1>1, <1>2, <1>3, <1>6, <3>1
  <2>3. ASSUME NEW h \in Handshakes, up = <<h, a>> PROVE FALSE
    BY <1>1, <1>4, <2>3, Tuples DEF Reply
  <2>. QED BY <2>1, <2>2, <2>3 DEF Comes
<1>. QED BY <1>5, <1>6

\* and one more handshake before it.
LEMMA Skips ==
  ASSUME Typed, LoaderTyped, Typed', AtWork, LoaderSequencePacket
  PROVE  Becomes
<1>1. /\ UNCHANGED <<zero, mode, call, down, device, loader, machine>> /\ up # <<>> /\ up' = Tail(up)
      /\ Reply.command = "SEQUENCE_HANDSHAKE" /\ loader.at \in {"ready", "answer", "data"}
  BY DEF LoaderSequencePacket, Hidden
<1>2. Between' /\ call'.pc = "idle" /\ (loader.at \in Working => Task')
  BY <1>1, StaysBetween DEF AtWork, Between, Task, Scripted, Starting, Stopping
<1>3. \A r \in Others : r.command # "SEQUENCE_HANDSHAKE"
  BY DEF Others, Handshakes
<1>4. \A r \in Others : Comes(r) => up' = <<r>>
  <2> TAKE r \in Others
  <2> HAVE Comes(r)
  <2>1. up # <<r>>
    BY <1>1, <1>3, Tuples DEF Reply
  <2>2. PICK h \in Handshakes : up = <<h, r>>
    BY <2>1 DEF Comes
  <2>. QED BY <1>1, <2>2, Tuples
<1>5. \A r, d \in Others : ComesWith(r, d) => up' = <<r, d>>
  <2> TAKE r, d \in Others
  <2> HAVE ComesWith(r, d)
  <2>1. up # <<r, d>>
    BY <1>1, <1>3, Tuples DEF Reply
  <2>2. PICK h \in Handshakes : up = <<h, r, d>>
    BY <2>1 DEF ComesWith
  <2>. QED BY <1>1, <2>2, Tuples
<1>6. CASE loader.at = "ready"
  <2>1. AtReady /\ ~machine.ready
    BY <1>1, <1>6 DEF AtWork, AtReady
  <2>2. PICK g \in Others : Comes(g)
    BY <2>1 DEF AtReady
  <2>3. up' = <<g>>
    BY <1>4, <2>2
  <2>4. AtReady'
    BY <1>1, <2>1, <2>3 DEF AtReady, Comes
  <2>5. AtWork'
    BY <1>1, <1>2, <1>6, <2>4 DEF AtWork, Working
  <2>. QED BY <1>1, <1>2, <1>6, <2>5 DEF Becomes, Busy
<1>7. CASE loader.at = "answer"
  <2>1. Answering /\ down = <<>> /\ machine.announced = "none"
    <3>1. AtAnswer
      BY <1>7 DEF AtWork
    <3>2. ~Commanded
      BY <1>1 DEF Commanded, Sent
    <3>. QED BY <3>1, <3>2 DEF AtAnswer
  <2>2. PICK a \in Others : Says(a) /\ Carries(a)
    BY <2>1 DEF Answering
  <2>3. (Says(a)' <=> Says(a)) /\ (Brings(a)' <=> Brings(a))
    BY <1>1 DEF Says, Brings, Command
  <2>4. Carries(a)'
    <3>1. Brings(a) => \E d \in Others : up' = <<a, d>>
      BY <1>5, <2>2 DEF Carries
    <3>2. ~Brings(a) => up' = <<a>>
      BY <1>4, <2>2 DEF Carries
    <3>3. Brings(a)' => \E d \in Others : ComesWith(a, d)'
      BY <2>3, <3>1 DEF ComesWith
    <3>4. ~Brings(a)' => Comes(a)'
      BY <2>3, <3>2 DEF Comes
    <3>. QED BY <3>3, <3>4 DEF Carries
  <2>5. AtAnswer'
    BY <1>1, <2>1, <2>2, <2>3, <2>4 DEF AtAnswer, Answering
  <2>6. AtWork'
    BY <1>1, <1>2, <1>7, <2>5 DEF AtWork, Working
  <2>. QED BY <1>1, <1>2, <1>7, <2>6 DEF Becomes, Busy, Working
<1>8. CASE loader.at = "data"
  <2>1. PICK d \in Others : up = <<d>>
    BY <1>8 DEF AtWork, AtData
  <2>. QED BY <1>1, <1>3, <2>1, Tuples DEF Reply
<1>. QED BY <1>1, <1>6, <1>7, <1>8

\* A packet is sent, or is not to be had.
LEMMA SendsPacket ==
  ASSUME Typed, LoaderTyped, Typed', AtWork, PacketSimple \/ PacketCommand \/ input_failed
  PROVE  Becomes
<1>0. zero \in ZeroRecord
  BY DEF Typed
<1>1. /\ loader.at = "send" /\ Between /\ Task /\ AtSend /\ zero.hide /\ UNCHANGED <<mode, call, up, device, machine>>
  BY DEF PacketSimple, PacketCommand, input_failed, AtWork, Working
<1>2. loader.at \in Working /\ machine.announced = "none" /\ down = <<>> /\ up' = <<>> /\ Unanswered /\ Command \in LoaderCommands
  BY <1>1, LoaderAt DEF Working, AtSend
<1>3. call.pc = "idle"
  BY <1>1 DEF Between
<1>4. CASE PacketSimple \/ PacketCommand
  <2>1. Put(Command) /\ down' \in Seq(Requests)
    BY <1>4 DEF PacketSimple, PacketCommand, Typed
  <2>2. Sent(Command)'
    <3>1. PICK q : q = [command |-> Command, socket |-> mode[Loader].socket, hash |-> NoHash, sequence |-> 0]
      OBVIOUS
    <3>2. down' = <<q>> /\ q.command = Command
      BY <1>2, <2>1, <3>1, Tuples DEF Put
    <3>3. q \in Requests
      BY <2>1, <3>2
    <3>4. loader'.todo = loader.todo
      BY <1>4 DEF PacketSimple, PacketCommand, LoaderTyped, LoaderRecord
    <3>. QED BY <1>2, <3>2, <3>3, <3>4 DEF Sent, Command
  <2>3. CASE PacketSimple
    <3>1. loader' = [loader EXCEPT !.at = "answer"] /\ zero' = zero /\ Command \in SimpleCmd /\ "answer" \in Working
      BY <2>3 DEF PacketSimple, Working
    <3>2. loader'.at = "answer" /\ Command' = Command /\ Task' /\ (Starting' <=> Starting) /\ loader'.at \in Busy
      BY <1>1, <1>2, <3>1, Goes
    <3>3. Between'
      BY <1>1, <3>1, StaysBetween
    <3>4. Unanswered'
      BY <1>1, <1>2, <3>1, <3>2 DEF Unanswered
    <3>5. AtAnswer'
      BY <1>1, <1>2, <2>2, <3>1, <3>2, <3>4 DEF AtAnswer, Commanded
    <3>6. AtWork'
      BY <1>1, <3>1, <3>2, <3>3, <3>5 DEF AtWork
    <3>. QED BY <1>1, <1>3, <3>2, <3>6 DEF Becomes
  <2>4. CASE PacketCommand
    <3>1. loader' = [loader EXCEPT !.at = "announced"] /\ Command \in HasData /\ "announced" \in Working
      BY <2>4 DEF PacketCommand, Working
    <3>2. loader'.at = "announced" /\ Command' = Command /\ Task' /\ (Starting' <=> Starting) /\ loader'.at \in Busy
      BY <1>1, <1>2, <3>1, Goes
    <3>3. zero' = [zero EXCEPT !.hide = FALSE]
      BY <2>4 DEF PacketCommand
    <3>4. Between'
      BY <1>0, <1>1, <3>3, StaysBetween DEF ZeroRecord
    <3>5. Unanswered' /\ ~zero'.hide
      BY <1>0, <1>1, <1>2, <3>2, <3>3 DEF Unanswered, ZeroRecord
    <3>6. AtAnnounced'
      BY <1>1, <1>2, <2>2, <3>1, <3>2, <3>5 DEF AtAnnounced
    <3>7. AtWork'
      BY <3>2, <3>4, <3>5, <3>6 DEF AtWork
    <3>. QED BY <1>1, <1>3, <3>2, <3>7 DEF Becomes
  <2>. QED BY <1>4, <2>3, <2>4
<1>5. CASE input_failed
  <2>1. Command = "PUT_DATA" /\ ThrowJLError /\ down' = down /\ zero' = zero
    BY <1>5 DEF input_failed
  <2>2. ~Starting /\ ~Stopping /\ loader.started
    BY <1>1, <1>2, <2>1, Kind
  <2>3. PICK b \in BOOLEAN : b = loader.started
    BY <2>2
  <2>4. loader' = [NewLoader EXCEPT !.started = b]
    BY <2>1, <2>3 DEF ThrowJLError
  <2>5. loader'.started = b /\ loader'.op = "none" /\ loader'.at = "idle"
    BY <2>4 DEF NewLoader
  <2>6. Between'
    BY <1>1, <2>1, StaysBetween
  <2>7. (machine.stream = "open" <=> loader'.started) /\ (machine.mustReset => zero'.resetOnClose) /\ ~machine.ready
    BY <1>1, <1>2, <2>1, <2>2, <2>3, <2>5 DEF Unanswered, Task
  <2>. QED BY <1>1, <1>2, <2>1, <2>5, <2>6, <2>7, QuietAgain
<1>. QED BY <1>4, <1>5

LEMMA SendsData ==
  ASSUME Typed, LoaderTyped, Typed', AtWork, PacketDataPart
  PROVE  Becomes
<1>0. zero \in ZeroRecord
  BY DEF Typed
<1>1. /\ loader.at = "announced" /\ up # <<>> /\ up' = Tail(up) /\ zero' = [zero EXCEPT !.hide = TRUE] /\ Put("DATA")
      /\ loader' = [loader EXCEPT !.at = "answer"] /\ UNCHANGED <<mode, call, device, machine>>
  BY DEF PacketDataPart, LoaderReads
<1>2. Between /\ Task /\ AtAnnounced /\ loader.at \in Working /\ "answer" \in Working /\ call.pc = "idle"
  BY <1>1 DEF AtWork, Working, Between
<1>3. Unanswered /\ Command \in HasData /\ down = <<>> /\ machine.announced = Command /\ \E h \in Handshakes : up = <<h>>
  BY <1>1, <1>2 DEF AtAnnounced, Sent
<1>4. up' = <<>>
  BY <1>1, <1>3, Tuples
<1>5. loader'.at = "answer" /\ Command' = Command /\ Task' /\ (Starting' <=> Starting) /\ loader'.at \in Busy
  BY <1>1, <1>2, Goes
<1>6. PICK q : q = [command |-> "DATA", socket |-> mode[Loader].socket, hash |-> NoHash, sequence |-> 0]
  OBVIOUS
<1>7. down' = <<q>> /\ q.command = "DATA"
  BY <1>1, <1>3, <1>6, Tuples DEF Put
<1>8. q \in Requests
  BY <1>7 DEF Typed
<1>9. Sent("DATA")'
  BY <1>4, <1>7, <1>8 DEF Sent
<1>10. Between' /\ zero'.hide /\ zero'.resetOnClose = zero.resetOnClose
  BY <1>0, <1>1, <1>2, StaysBetween DEF ZeroRecord
<1>11. AtAnswer'
  BY <1>1, <1>3, <1>5, <1>9, <1>10 DEF AtAnswer, Commanded, Unanswered
<1>12. AtWork'
  BY <1>5, <1>10, <1>11 DEF AtWork
<1>. QED BY <1>1, <1>2, <1>5, <1>12 DEF Becomes

\* The answer is taken: data follows it just where the code reads on.
LEMMA Acknowledges ==
  ASSUME Typed, LoaderTyped, Typed', AtWork, acknowledged \/ stream_entry
  PROVE  Becomes
<1>1. LoaderReads("answer") /\ Command # "GOODBYE" /\ UNCHANGED <<zero, mode, call, down, device, machine>>
  <2>1. stream_entry => Command # "GOODBYE"
    BY DEF stream_entry
  <2>. QED BY <2>1 DEF acknowledged, stream_entry
<1>2. /\ Between /\ Task /\ zero.hide /\ down = <<>> /\ machine.announced = "none" /\ Reply \in Others /\ Says(Reply)
      /\ Brings(Reply) => \E d \in Others : up' = <<d>>
      /\ ~Brings(Reply) => up' = <<>>
  BY <1>1, TakesAnswer
<1>3. loader.at = "answer" /\ loader.at \in Working /\ "data" \in Working
  BY <1>1 DEF LoaderReads, Working
<1>4. ~Stopping /\ Between' /\ call'.pc = "idle"
  BY <1>1, <1>2, <1>3, Kind, StaysBetween DEF Between
<1>5. /\ acknowledged => /\ Reply.command = (IF Command = "HELLO" THEN "HELLO_ACK" ELSE "ACK")
                         /\ Command = "SET_COD_FILENAME" => Reply.size = 2
      /\ stream_entry => Command = "GET_DATA" /\ Reply.command = "GET_DATA_ENTRY"
  BY DEF acknowledged, stream_entry, Expected
<1>6. machine.mustReset => zero.resetOnClose
  BY <1>1, <1>2 DEF Says
<1>7. CASE stream_entry \/ DataFollows
  <2>1. loader' = [loader EXCEPT !.at = "data"]
    BY <1>7 DEF acknowledged, stream_entry
  <2>2. Command \in Reading \cup {"GET_DATA", "GET_DIRECTORY", "GET_SUBDIR"}
    BY <1>5, <1>7 DEF DataFollows, Reading
  <2>3. Brings(Reply)
    BY <1>5, <1>7 DEF Brings, DataFollows, Reading
  <2>4. loader.op \in Ops /\ ~Starting
    <3>1. ~Starting
      BY <1>2, <1>3, <2>2, Kind DEF Reading
    <3>. QED BY <1>2, <1>3, <1>4, <3>1, Kind
  <2>5. loader'.at = "data" /\ loader'.op = loader.op /\ Command' = Command /\ Task' /\ (Starting' <=> Starting) /\ loader'.at \in Busy
    BY <1>1, <1>2, <1>3, <2>1, Goes
  <2>6. machine.stream = "open"
    BY <1>2, <2>4 DEF Says
  <2>7. AtData'
    BY <1>1, <1>2, <1>6, <2>3, <2>4, <2>5, <2>6 DEF AtData, Unanswered
  <2>8. AtWork'
    BY <1>1, <1>2, <1>4, <2>5, <2>7 DEF AtWork
  <2>. QED BY <1>4, <2>5, <2>8 DEF Becomes
<1>8. CASE acknowledged /\ ~DataFollows
  <2>1. Continue(Tail(loader.todo))
    BY <1>8 DEF acknowledged
  <2>2. Reply.command \in {"ACK", "HELLO_ACK"}
    BY <1>5, <1>8
  <2>3. ~Brings(Reply)
    BY <1>8, <2>2 DEF Brings, DataFollows, Reading
  <2>4. /\ Starting => Tail(loader.todo) \in {<<>>, <<"SET_UNKNOWN1">>}
        /\ loader.op \in Ops => Tail(loader.todo) \in Seq(Work)
        /\ Tail(loader.todo) \in Seq(LoaderCommands)
    BY <1>2, <1>3, Kind, LoaderAt
  <2>5. machine.stream = "open" <=> ~Starting \/ Tail(loader.todo) = <<>>
    <3>1. CASE loader.op \in Ops
      BY <1>2, <1>3, <3>1, Kind DEF Says
    <3>2. CASE Starting
      <4>1. Command = "HELLO" => machine.stream # "open" /\ Tail(loader.todo) # <<>>
        <5>1. Command = "HELLO" => Tail(loader.todo) = <<"SET_UNKNOWN1">>
          BY <1>2, <1>3, <3>2, Kind
        <5>. QED BY <1>2, <1>3, <3>2, <5>1, Kind, Tuples DEF Says
      <4>2. Command # "HELLO" => machine.stream = "open" /\ Tail(loader.todo) = <<>>
        BY <1>2, <1>3, <1>5, <1>8, <3>2, Kind DEF Says
      <4>. QED BY <3>2, <4>1, <4>2
    <3>. QED BY <1>2, <1>3, <1>4, <3>1, <3>2, Kind
  <2>. QED BY <1>1, <1>2, <1>3, <1>4, <1>6, <2>1, <2>3, <2>4, <2>5, Continues
<1>. QED BY <1>7, <1>8

\* The session ends, or an operation does with an error.
LEMMA EndsOperation ==
  ASSUME Typed, LoaderTyped, Typed', AtWork, unexpected \/ goodbye_answered
  PROVE  Becomes
<1>0. zero \in ZeroRecord /\ zero.resetOnClose \in BOOLEAN
  BY DEF Typed, ZeroRecord
<1>1. LoaderReads("answer") /\ UNCHANGED <<mode, down, device, machine>> /\ (Command = "GOODBYE" <=> ~unexpected)
  BY DEF unexpected, goodbye_answered
<1>2. /\ Between /\ Task /\ zero.hide /\ down = <<>> /\ machine.announced = "none" /\ Reply \in Others /\ Says(Reply)
      /\ ~Brings(Reply) => up' = <<>>
  BY <1>1, TakesAnswer
<1>3. loader.at = "answer" /\ loader.at \in Working /\ ~machine.ready /\ call.pc = "idle"
  BY <1>1, <1>2 DEF LoaderReads, Working, Task, Between
<1>4. CASE unexpected
  <2>1. ThrowJLError /\ UNCHANGED <<zero, call>> /\ Command # "GOODBYE" /\ ~Expected
        /\ ~(Command = "GET_DATA" /\ Reply.command = "GET_DATA_ENTRY")
    BY <1>4 DEF unexpected
  <2>2. ~Brings(Reply)
    BY <2>1 DEF Brings, Expected, Reading
  <2>3. Between'
    BY <1>1, <1>2, <2>1, StaysBetween
  <2>4. PICK b \in BOOLEAN : b = loader.started
    BY DEF LoaderTyped, LoaderRecord
  <2>5. loader' = [NewLoader EXCEPT !.started = b]
    BY <2>1, <2>4 DEF ThrowJLError
  <2>6. loader'.started = b /\ loader'.op = "none" /\ loader'.at = "idle"
    BY <2>5 DEF NewLoader
  <2>7. machine.stream = "open" <=> loader.started
    <3>1. CASE loader.op \in Ops
      BY <1>2, <1>3, <3>1, Kind DEF Says
    <3>2. CASE Starting
      <4>1. ~(Command = "SET_UNKNOWN1" /\ Reply.command = "ACK")
        BY <2>1 DEF Expected
      <4>. QED BY <1>2, <1>3, <3>2, <4>1, Kind DEF Says
    <3>. QED BY <1>2, <1>3, <2>1, <3>1, <3>2, Kind
  <2>8. machine.mustReset => zero'.resetOnClose
    BY <1>2, <2>1 DEF Says
  <2>. QED BY <1>1, <1>2, <1>3, <2>1, <2>2, <2>3, <2>4, <2>6, <2>7, <2>8, QuietAgain
<1>5. CASE goodbye_answered
  <2>1. Command = "GOODBYE" /\ Stopped
    BY <1>5 DEF goodbye_answered
  <2>2. PICK b \in BOOLEAN : b = (zero.resetOnClose \/ Reply.command = "RESET_REQUIRED")
    OBVIOUS
  <2>3. zero' = [zero EXCEPT !.resetOnClose = b]
    BY <1>5, <2>2 DEF goodbye_answered
  <2>4. zero'.resetOnClose = b /\ zero'.hide = zero.hide /\ zero'.halfOpen = zero.halfOpen /\ zero'.seed = zero.seed
        /\ zero'.tries = zero.tries /\ zero'.sequence = zero.sequence
    BY <1>0, <2>3 DEF ZeroRecord
  <2>5. loader.op \notin Ops /\ loader.started
    BY <1>2, <1>3, <2>1, Kind DEF Work
  <2>6. machine.stream # "open" /\ (machine.mustReset => zero'.resetOnClose)
    BY <1>2, <2>1, <2>2, <2>4, <2>5 DEF Says
  <2>7. ~Brings(Reply)
    BY <2>1 DEF Brings, Reading
  <2>8. PICK at \in {"idle", "destroyed"} : at = IF loader.op = "destroy" THEN "destroyed" ELSE "idle"
    OBVIOUS
  <2>9. loader' = [NewLoader EXCEPT !.at = at]
    BY <2>1, <2>8 DEF Stopped
  <2>10. loader'.at = at /\ loader'.op = "none" /\ ~loader'.started
    BY <2>9 DEF NewLoader
  <2>11. CASE call' = call
    <3>1. Between'
      BY <1>1, <1>2, <2>4, <2>11, StaysBetween
    <3>. QED BY <1>1, <1>2, <1>3, <2>4, <2>6, <2>7, <2>10, <3>1, QuietAgain
  <2>12. CASE call' = [call EXCEPT !.pc = "crashed"]
    <3>1. call'.pc = "crashed"
      BY <2>12 DEF Typed, CallRecord
    <3>. QED BY <1>1, <1>2, <2>10, <3>1 DEF Becomes, Crashed
  <2>. QED BY <1>5, <2>11, <2>12 DEF goodbye_answered
<1>. QED BY <1>4, <1>5

\* The data is read, and OnOpen reads the greeting.
LEMMA TakesData ==
  ASSUME Typed, LoaderTyped, Typed', AtWork, receive_data \/ OnOpen
  PROVE  Becomes
<1>1. CASE receive_data
  <2>1. /\ loader.at = "data" /\ up # <<>> /\ up' = Tail(up) /\ UNCHANGED <<zero, mode, call, down, device, machine>>
        /\ Reply.size \in Nat
    BY <1>1, LoaderRead DEF receive_data, LoaderReads
  <2>2. PICK todo : /\ todo = IF Command = "GET_DATA" THEN loader.todo
                              ELSE Further(Command, Reply.size) \o Tail(loader.todo)
                    /\ Continue(todo)
    BY <1>1 DEF receive_data
  <2>3. AtData /\ Between /\ Task /\ loader.at \in Working /\ zero.hide
    BY <2>1 DEF AtWork, Working
  <2>4. loader.op \in Ops /\ ~Starting /\ ~Stopping /\ loader.started
    BY <2>3, Kind, Names DEF AtData
  <2>5. todo \in Seq(Work)
    <3>1. Tail(loader.todo) \in Seq(Work) /\ loader.todo \in Seq(Work)
      BY <2>3, <2>4, Kind
    <3>2. Further(Command, Reply.size) \in Seq(Work)
      BY <2>1, FurtherWork
    <3>. QED BY <2>2, <3>1, <3>2, ConcatProperties
  <2>6. todo \in Seq(LoaderCommands)
    BY <2>5 DEF Work
  <2>7. up' = <<>>
    BY <2>1, <2>3, Tuples DEF AtData
  <2>8. Between'
    BY <2>1, <2>3, StaysBetween
  <2>9. machine.stream = "open" /\ (machine.mustReset => zero'.resetOnClose) /\ machine.announced = "none" /\ down = <<>>
    BY <2>1, <2>3, <2>4 DEF AtData, Unanswered
  <2>. QED BY <2>1, <2>2, <2>3, <2>4, <2>5, <2>6, <2>7, <2>8, <2>9, Continues
<1>2. CASE OnOpen
  <2>1. /\ loader.at = "ready" /\ up # <<>> /\ up' = Tail(up) /\ ~Hidden /\ loader' = NewLoader
        /\ UNCHANGED <<zero, mode, call, down, device, machine>>
    BY <1>2 DEF OnOpen, LoaderReads
  <2>2. AtReady /\ Between /\ zero.hide
    BY <2>1 DEF AtWork
  <2>3. ~machine.ready
    BY <2>1, <2>2 DEF AtReady
  <2>4. PICK g \in Others : Comes(g)
    BY <2>2, <2>3 DEF AtReady
  <2>5. up' = <<>>
    <3>1. ASSUME NEW h \in Handshakes, up = <<h, g>> PROVE FALSE
      BY <2>1, <2>2, <3>1, Tuples DEF Hidden, Reply, Handshakes
    <3>. QED BY <2>1, <2>4, <3>1, Tuples DEF Comes
  <2>6. Between'
    BY <2>1, <2>2, StaysBetween
  <2>. QED BY <2>1, <2>2, <2>3, <2>5, <2>6, Restful, QuietAgain DEF AtReady
<1>. QED BY <1>1, <1>2

\* What the device sends, none of it a handshake.
LEMMA Sent1 ==
  ASSUME Typed, NEW command \in LoaderAnswers \cup {"REFUSED"}, NEW n \in Nat
  PROVE  /\ JLPacket(command, n) \in Others
         /\ JLPacket(command, n).command = command /\ JLPacket(command, n).size = n
<1>1. JLPacket(command, n) \in Responses
  BY JLTyped
<1>2. JLPacket(command, n).command = command /\ JLPacket(command, n).size = n /\ command # "SEQUENCE_HANDSHAKE"
  BY DEF JLPacket, LoaderAnswers
<1>. QED BY <1>1, <1>2 DEF Others, Handshakes

\* The device greets, or takes a command and waits for its data.
LEMMA Greets ==
  ASSUME Typed, LoaderTyped, AtWork, loader.at \in Busy, greet \/ announce
  PROVE  Becomes
<1>0. machine \in MachineRecord /\ LoaderHandshake \in Handshakes /\ FALSE \in BOOLEAN
  BY ShakeTyped DEF LoaderTyped, Handshakes, Shake
<1>1. UNCHANGED <<zero, mode, call, device, loader>> /\ Between /\ call.pc = "idle" /\ zero' = zero
  BY DEF greet, announce, AtWork, Between
<1>2. Between'
  BY <1>1, StaysBetween
<1>3. CASE greet
  <2>1. machine.ready /\ machine' = [machine EXCEPT !.ready = FALSE] /\ up = <<>> /\ down' = down
    BY <1>3 DEF greet
  <2>2. loader.at = "ready" /\ AtReady
    BY <2>1 DEF AtWork, Task, Busy
  <2>3. PICK g : g = JLPacket("READY", 0)
    OBVIOUS
  <2>4. g \in Others
    <3>1. PICK c \in LoaderAnswers : c = "READY"
      BY DEF LoaderAnswers
    <3>2. PICK n \in Nat : n = 0
      OBVIOUS
    <3>. QED BY <2>3, <3>1, <3>2, Sent1
  <2>5. up' = <<g>> \/ up' = <<LoaderHandshake, g>>
    <3>1. up' = <<>> \o <<g>> \/ up' = <<LoaderHandshake>> \o <<g>>
      BY <1>3, <2>3 DEF greet
    <3>2. <<>> \o <<>> = <<>> /\ <<>> \o <<LoaderHandshake>> = <<LoaderHandshake>>
      <4>1. <<>> \in Seq(Responses) /\ <<LoaderHandshake>> \in Seq(Responses)
        BY <1>0 DEF Handshakes
      <4>. QED BY <4>1, ConcatEmptySeq
    <3>. QED BY <3>1, <3>2, Joined
  <2>6. Comes(g)'
    BY <1>0, <2>5 DEF Comes
  <2>7. AtReady'
    BY <1>0, <1>1, <2>1, <2>2, <2>4, <2>6 DEF AtReady, MachineRecord
  <2>8. AtWork'
    BY <1>1, <1>2, <2>2, <2>7 DEF AtWork, Working
  <2>. QED BY <1>1, <2>2, <2>8 DEF Becomes, Busy
<1>4. CASE announce
  <2>1. /\ down # <<>> /\ Request.command \in HasData /\ machine' = [machine EXCEPT !.announced = Request.command]
        /\ down' = Tail(down) /\ up' = Append(up, LoaderHandshake)
    BY <1>4 DEF announce
  <2>2. Unanswered /\ up = <<>> /\ down' = <<>> /\ loader.at = "announced" /\ Request.command = Command /\ Task
    <3>1. loader.at # "answer"
      BY <2>1, WireDown, Names
    <3>. QED BY <2>1, <3>1, WireDown DEF AtWork, Working
  <2>3. up' = <<LoaderHandshake>>
    BY <2>1, <2>2, Tuples
  <2>4. /\ machine'.announced = Command /\ machine'.ready = machine.ready /\ machine'.stream = machine.stream
        /\ machine'.mustReset = machine.mustReset
    BY <1>0, <2>1, <2>2 DEF MachineRecord
  <2>5. Command' = Command /\ (Starting' <=> Starting)
    BY <1>1 DEF Command, Starting
  <2>6. AtAnnounced'
    BY <1>0, <1>1, <2>1, <2>2, <2>3, <2>4, <2>5 DEF AtAnnounced, Unanswered
  <2>7. Task'
    BY <1>1, <2>2, <2>4 DEF Task, Scripted, Starting, Stopping
  <2>8. AtWork'
    BY <1>1, <1>2, <2>2, <2>6, <2>7 DEF AtWork
  <2>. QED BY <1>1, <2>2, <2>8 DEF Becomes, Busy, Working
<1>. QED BY <1>3, <1>4

\* The answer to a command is one packet, or two where the loader reads on.
LEMMA AnswersAre ==
  ASSUME Typed, NEW r, r = <<JLPacket("REFUSED", 0)>> \/ r \in Replies(Command)
  PROVE  \E a \in Others :
           /\ Brings(a) => \E d \in Others : r = <<a, d>>
           /\ ~Brings(a) => r = <<a>>
           /\ r[1] = a
           /\ a.command = "RESET_REQUIRED" => Command = "GOODBYE"
           /\ Command = "SET_UNKNOWN1" => a.command = (IF r = <<JLPacket("REFUSED", 0)>> THEN "REFUSED" ELSE "ACK")
<1> DEFINE Fine(a) == /\ Brings(a) => \E d \in Others : r = <<a, d>>
                      /\ ~Brings(a) => r = <<a>>
                      /\ r[1] = a
                      /\ a.command = "RESET_REQUIRED" => Command = "GOODBYE"
                      /\ Command = "SET_UNKNOWN1" => a.command = (IF r = <<JLPacket("REFUSED", 0)>> THEN "REFUSED" ELSE "ACK")
<1> SUFFICES \E a \in Others : Fine(a)
  OBVIOUS
<1> HIDE DEF Fine
<1>1. \A c \in LoaderAnswers \cup {"REFUSED"} : \A n \in Nat :
        JLPacket(c, n) \in Others /\ JLPacket(c, n).command = c /\ JLPacket(c, n).size = n
  BY Sent1
<1>2. {"HELLO_ACK", "ACK", "RESET_REQUIRED", "NOT_SUPPORTED", "REFUSED", "GET_DATA_ENTRY", "DATA"}
        \subseteq LoaderAnswers \cup {"REFUSED"}
  BY DEF LoaderAnswers
<1>3. ASSUME NEW c \in {"HELLO_ACK", "ACK", "RESET_REQUIRED", "NOT_SUPPORTED", "REFUSED"}, r = <<JLPacket(c, 0)>>,
             ~Brings(JLPacket(c, 0)), c = "RESET_REQUIRED" => Command = "GOODBYE",
             Command = "SET_UNKNOWN1" => c \in {"REFUSED", "ACK"}
      PROVE  \E a \in Others : Fine(a)
  <2>1. PICK a : a = JLPacket(c, 0)
    OBVIOUS
  <2>2. a \in Others /\ a.command = c
    BY <1>1, <1>2, <2>1
  <2>3. r = <<JLPacket("REFUSED", 0)>> <=> c = "REFUSED"
    <3>1. PICK b : b = JLPacket("REFUSED", 0)
      OBVIOUS
    <3>2. b.command = "REFUSED"
      BY <1>1, <1>2, <3>1
    <3>3. r = <<a>> /\ r[1] = a /\ (r = <<b>> => r[1] = b)
      BY <1>3, <2>1
    <3>. QED BY <2>1, <2>2, <3>1, <3>2, <3>3
  <2>4. r = <<a>> /\ r[1] = a /\ ~Brings(a)
    BY <1>3, <2>1
  <2>5. Fine(a)
    BY <1>3, <2>2, <2>3, <2>4 DEF Fine
  <2>. QED BY <2>2, <2>5
<1>4. ASSUME NEW c \in {"ACK", "GET_DATA_ENTRY"}, NEW n \in Nat, r = <<JLPacket(c, n), JLPacket("DATA", n)>>,
             Brings(JLPacket(c, n)), Command # "SET_UNKNOWN1"
      PROVE  \E a \in Others : Fine(a)
  <2>1. PICK a, d : a = JLPacket(c, n) /\ d = JLPacket("DATA", n)
    OBVIOUS
  <2>2. a \in Others /\ d \in Others /\ a.command = c
    BY <1>1, <1>2, <2>1
  <2>3. r = <<a, d>> /\ r[1] = a /\ Brings(a)
    BY <1>4, <2>1
  <2>4. Fine(a)
    BY <1>4, <2>2, <2>3 DEF Fine
  <2>. QED BY <2>2, <2>4
<1>5. \A n \in Nat : JLPacket("ACK", n).command = "ACK" /\ JLPacket("ACK", n).size = n
  BY <1>1, <1>2
<1>6. CASE r = <<JLPacket("REFUSED", 0)>>
  <2>1. JLPacket("REFUSED", 0).command = "REFUSED"
    BY <1>1, <1>2
  <2>2. ~Brings(JLPacket("REFUSED", 0))
    BY <2>1 DEF Brings
  <2>. QED BY <1>3, <1>6, <2>2
<1>7. ASSUME NEW n \in Nat, r = Data(n), Command \in Reading \cup {"GET_DIRECTORY", "GET_SUBDIR"},
             Command = "SET_COD_FILENAME" => n = 2,
             Command \in {"GET_DIRECTORY", "GET_SUBDIR"} => n > 0
      PROVE  \E a \in Others : Fine(a)
  <2>1. Brings(JLPacket("ACK", n)) /\ Command # "SET_UNKNOWN1"
    BY <1>5, <1>7 DEF Brings, Reading
  <2>. QED BY <1>4, <1>7, <2>1 DEF Data
<1>8. ASSUME r = Ack, Command \notin Reading \ {"SET_COD_FILENAME"}, Command = "GET_SUBDIR" => loader.op # "Save"
      PROVE  \E a \in Others : Fine(a)
  <2>1. JLPacket("ACK", 0).command = "ACK" /\ JLPacket("ACK", 0).size = 0
    BY <1>5
  <2>2. ~Brings(JLPacket("ACK", 0))
    BY <1>8, <2>1 DEF Brings, Reading
  <2>. QED BY <1>3, <1>8, <2>2 DEF Ack
<1>9. CASE r \in Replies(Command)
  <2>1. CASE Command = "HELLO"
    <3>1. r = <<JLPacket("HELLO_ACK", 0)>>
      BY <1>9, <2>1, RepliesAre
    <3>2. ~Brings(JLPacket("HELLO_ACK", 0))
      BY <2>1 DEF Brings, Reading
    <3>. QED BY <1>3, <2>1, <3>1, <3>2
  <2>2. CASE Command = "SET_COD_FILENAME"
    <3>1. r = Data(2) \/ r = Ack
      BY <1>9, <2>2, RepliesAre
    <3>. QED BY <1>7, <1>8, <2>2, <3>1 DEF Reading
  <2>3. CASE Command = "GET_LOG"
    <3>1. \E n \in Nat : r = Data(n)
      BY <1>9, <2>3, RepliesAre, TablesDouble
    <3>. QED BY <1>7, <2>3, <3>1 DEF Reading
  <2>4. CASE Command \in {"GET_SUBDIR", "GET_DIRECTORY"}
    <3>1. \/ r = Ack /\ (Command = "GET_SUBDIR" => loader.op # "Save")
          \/ \E n \in Nat \ {0} : r = Data(n)
      BY <1>9, <2>4, RepliesAre, TablesDouble
    <3>2. CASE r = Ack /\ (Command = "GET_SUBDIR" => loader.op # "Save")
      BY <1>8, <2>4, <3>2 DEF Reading
    <3>3. ASSUME NEW n \in Nat \ {0}, r = Data(n) PROVE \E a \in Others : Fine(a)
      BY <1>7, <2>4, <3>3
    <3>. QED BY <3>1, <3>2, <3>3
  <2>5. CASE Command = "GET_DATA"
    <3>1. r = <<JLPacket("GET_DATA_ENTRY", 1), JLPacket("DATA", 1)>> \/ r = Ack
      BY <1>9, <2>5, RepliesAre
    <3>2. Brings(JLPacket("GET_DATA_ENTRY", 1))
      <4>1. JLPacket("GET_DATA_ENTRY", 1).command = "GET_DATA_ENTRY"
        BY <1>1, <1>2
      <4>. QED BY <2>5, <4>1 DEF Brings
    <3>3. r = Ack => \E a \in Others : Fine(a)
      BY <1>8, <2>5 DEF Reading
    <3>. QED BY <1>4, <2>5, <3>1, <3>2, <3>3
  <2>6. CASE Command \in Reading \ {"SET_COD_FILENAME", "GET_LOG"}
    <3>1. r = Data(1)
      BY <1>9, <2>6, RepliesAre
    <3>2. Command \notin {"GET_DIRECTORY", "GET_SUBDIR"}
      BY <2>6 DEF Reading
    <3>. QED BY <1>7, <2>6, <3>1, <3>2
  <2>7. CASE Command = "GOODBYE"
    <3>1. PICK c \in {"ACK", "RESET_REQUIRED", "NOT_SUPPORTED"} : r = <<JLPacket(c, 0)>>
      BY <1>9, <2>7, RepliesAre
    <3>2. ~Brings(JLPacket(c, 0))
      BY <2>7 DEF Brings, Reading
    <3>. QED BY <1>3, <2>7, <3>1, <3>2
  <2>8. CASE Command \notin Reading \cup {"HELLO", "GET_SUBDIR", "GET_DIRECTORY", "GET_DATA", "GOODBYE"}
    <3>1. r = Ack
      BY <1>9, <2>8, RepliesAre
    <3>. QED BY <1>8, <2>8, <3>1
  <2>. QED BY <2>1, <2>2, <2>3, <2>4, <2>5, <2>6, <2>7, <2>8
<1>. QED BY <1>6, <1>9

\* It answers, and its stream goes with the answer.
LEMMA AnswersCommand ==
  ASSUME Typed, LoaderTyped, AtWork, loader.at \in Busy, reply
  PROVE  Becomes
<1>0. /\ machine \in MachineRecord /\ LoaderHandshake \in Handshakes /\ machine.announced \in HasData \cup {"none"}
      /\ machine.mustReset \in BOOLEAN
  <2>1. machine \in MachineRecord /\ LoaderHandshake \in Handshakes
    BY ShakeTyped DEF LoaderTyped, Handshakes, Shake
  <2>. QED BY <2>1 DEF MachineRecord
<1>1. UNCHANGED <<zero, mode, call, device, loader>> /\ Between /\ call.pc = "idle" /\ down # <<>> /\ down' = Tail(down)
      /\ Request.command \in SimpleCmd \cup {"DATA"}
  <2>1. UNCHANGED <<zero, mode, call, device, loader>> /\ down # <<>> /\ down' = Tail(down)
        /\ Request.command \in SimpleCmd \cup {"DATA"}
    BY Zenon DEF reply
  <2>. QED BY <2>1 DEF AtWork, Between
<1>2. /\ Unanswered /\ up = <<>> /\ down' = <<>> /\ loader.at = "answer" /\ Task /\ zero.hide
      /\ \/ Request.command = "DATA" /\ machine.announced = Command
         \/ Request.command = Command /\ Command \in SimpleCmd
  <2>1. loader.at # "announced"
    BY <1>1, WireDown, Names
  <2>. QED BY <1>1, <2>1, WireDown DEF AtWork, Working
<1>3. Between'
  BY <1>1, StaysBetween
<1>4. DEFINE command == IF Request.command = "DATA" THEN machine.announced ELSE Request.command
<1>5. command = Command
  BY <1>2, Names
<1>6. PICK r \in {<<JLPacket("REFUSED", 0)>>} \cup (IF Willing(command) THEN Replies(command) ELSE {}) :
        /\ up' = (up \o <<LoaderHandshake>>) \o r
        /\ machine' = [machine EXCEPT !.announced = "none",
                           !.stream = StreamAfter(command, r = <<JLPacket("REFUSED", 0)>>),
                           !.mustReset = @ \/ r[1].command = "RESET_REQUIRED"]
  BY Zenon DEF reply
<1>7. r = <<JLPacket("REFUSED", 0)>> \/ r \in Replies(Command)
  BY <1>5, <1>6
<1>8. PICK a \in Others : /\ Brings(a) => \E d \in Others : r = <<a, d>>
                          /\ ~Brings(a) => r = <<a>>
                          /\ r[1] = a
                          /\ a.command = "RESET_REQUIRED" => Command = "GOODBYE"
                          /\ Command = "SET_UNKNOWN1" =>
                               a.command = (IF r = <<JLPacket("REFUSED", 0)>> THEN "REFUSED" ELSE "ACK")
  BY <1>7, AnswersAre
<1>9. PICK refused \in BOOLEAN : refused = (r = <<JLPacket("REFUSED", 0)>>)
  OBVIOUS
<1>10. PICK s : s = StreamAfter(Command, refused)
  OBVIOUS
<1>11. PICK b \in BOOLEAN : b = (machine.mustReset \/ a.command = "RESET_REQUIRED")
  OBVIOUS
<1>12. machine' = [machine EXCEPT !.announced = "none", !.stream = s, !.mustReset = b]
  BY <1>5, <1>6, <1>8, <1>9, <1>10, <1>11
<1>13. machine'.announced = "none" /\ machine'.stream = s /\ machine'.mustReset = b /\ machine'.ready = machine.ready
  BY <1>0, <1>12 DEF MachineRecord
<1>14. s = "open" <=> loader.op \in Ops \/ (Command = "SET_UNKNOWN1" /\ a.command = "ACK")
  <2>1. loader.at \in Working
    BY <1>2 DEF Working
  <2>2. machine.stream = "open" <=> ~Starting
    BY <1>2 DEF Unanswered
  <2>3. CASE loader.op \in Ops
    <3>1. Command \in Work /\ ~Starting
      BY <1>2, <2>1, <2>3, Kind
    <3>2. s = machine.stream
      BY <1>10, <3>1 DEF StreamAfter, Work
    <3>. QED BY <2>2, <2>3, <3>1, <3>2
  <2>4. CASE Stopping
    <3>1. Command = "GOODBYE" /\ loader.op \notin Ops
      BY <1>2, <2>1, <2>4, Kind
    <3>2. s \in {"kept", "none"}
      BY <1>10, <3>1 DEF StreamAfter
    <3>. QED BY <3>1, <3>2
  <2>5. CASE Starting
    <3>1. Command \in {"HELLO", "SET_UNKNOWN1"} /\ loader.op \notin Ops
      BY <1>2, <2>1, <2>5, Kind
    <3>2. CASE Command = "HELLO"
      <4>1. s \in {"greeted", machine.stream}
        BY <1>10, <3>2 DEF StreamAfter
      <4>. QED BY <2>2, <2>5, <3>1, <3>2, <4>1
    <3>3. CASE Command = "SET_UNKNOWN1"
      <4>1. s = IF refused THEN machine.stream ELSE "open"
        BY <1>10, <3>3 DEF StreamAfter
      <4>2. a.command = IF refused THEN "REFUSED" ELSE "ACK"
        BY <1>8, <1>9, <3>3
      <4>. QED BY <2>2, <2>5, <3>1, <3>3, <4>1, <4>2
    <3>. QED BY <3>1, <3>2, <3>3
  <2>. QED BY <1>2, <2>1, <2>3, <2>4, <2>5, Kind
<1>15. Command' = Command /\ loader'.op = loader.op /\ (Brings(a)' <=> Brings(a))
  BY <1>1 DEF Command, Brings
<1>16. Says(a)'
  <2>1. machine.mustReset => zero.resetOnClose
    BY <1>2 DEF Unanswered
  <2>. QED BY <1>1, <1>8, <1>11, <1>13, <1>14, <1>15, <2>1 DEF Says
<1>17. \A d : up \o <<LoaderHandshake>> \o <<a, d>> = <<LoaderHandshake, a, d>>
       /\ up \o <<LoaderHandshake>> \o <<a>> = <<LoaderHandshake, a>>
  BY <1>2, Joined
<1>18. Carries(a)'
  <2>1. CASE Brings(a)
    <3>1. PICK d \in Others : r = <<a, d>>
      BY <1>8, <2>1
    <3>2. up' = <<LoaderHandshake, a, d>>
      BY <1>6, <1>17, <3>1
    <3>. QED BY <1>0, <1>15, <2>1, <3>2 DEF Carries, ComesWith
  <2>2. CASE ~Brings(a)
    <3>1. up' = <<LoaderHandshake, a>>
      BY <1>6, <1>8, <1>17, <2>2
    <3>. QED BY <1>0, <1>15, <2>2, <3>1 DEF Carries, Comes
  <2>. QED BY <2>1, <2>2
<1>19. AtAnswer'
  BY <1>2, <1>13, <1>16, <1>18 DEF AtAnswer, Answering
<1>20. Task'
  BY <1>1, <1>2, <1>13 DEF Task, Scripted, Starting, Stopping
<1>21. AtWork'
  BY <1>1, <1>2, <1>3, <1>19, <1>20 DEF AtWork, Working
<1>. QED BY <1>1, <1>2, <1>21 DEF Becomes, Busy, Working

-----------------------------------------------------------------------------
LEMMA LoaderStarts == OneMode /\ LoaderInit => LInv
<1> SUFFICES ASSUME OneMode, LoaderInit PROVE LInv
  OBVIOUS
<1>1. Typed /\ LoaderTyped /\ Init /\ loader = NewLoader /\ machine = NewMachine
  BY LoaderTypeInit DEF LoaderInit
<1>2. Lockstep
  BY <1>1, StartsInTurn DEF Lockstep
<1>3. mine = NewMode
  BY <1>1, NewTypes DEF Init, mine, CallRecord
<1>4. /\ mine.socket = 0 /\ ~mine.handle /\ device.open = {} /\ call.pc = "idle"
      /\ Len(down) = 0 /\ Len(up) = 0 /\ down = <<>> /\ up = <<>>
  BY <1>1, <1>3 DEF Init, NewMode, NoCall
<1>5. OpenAgrees
  BY <1>4 DEF OpenAgrees, Authorizing
<1>6. Aside
  BY <1>1, <1>2, <1>4, <1>5, Restful DEF Aside, Greeted, Authorizing, NewMachine
<1>. QED BY <1>1, <1>4, <1>6, Restful DEF LInv, Busy, Working

LEMMA LoaderStep ==
  ASSUME MaxTimeouts = 0, OneMode, ~RefusesReset
  PROVE  LInv /\ [LoaderNext]_loaderVars => LInv'
<1> SUFFICES ASSUME LInv, [LoaderNext]_loaderVars PROVE LInv'
  OBVIOUS
<1>1. Typed /\ LoaderTyped /\ Typed' /\ LoaderTyped'
  BY LoaderTypeStep DEF LInv
<1>2. loader.at \in Busy \cup {"idle", "destroyed"}
  BY <1>1 DEF LoaderTyped, LoaderRecord
<1>3. SUFFICES Becomes
  BY <1>1 DEF LInv, Becomes
<1>4. CASE UNCHANGED loaderVars
  <2>1. UNCHANGED <<zero, mode, call, down, up, device, calls, timeouts, loader, machine>> /\ UNCHANGED vars
    BY <1>4 DEF loaderVars, vars
  <2>2. CASE call.pc = "crashed"
    BY <2>1, <2>2 DEF LInv, Becomes, Crashed
  <2>3. CASE call.pc # "crashed" /\ loader.at \in Busy
    <3>1. AtWork /\ Between'
      BY <2>1, <2>3, StaysBetween DEF LInv, AtWork
    <3>2. /\ Task' <=> Task
          /\ Unanswered' <=> Unanswered
          /\ Command' = Command
      BY <2>1 DEF Task, Scripted, Starting, Stopping, Unanswered, Command
    <3>3. \A c : Sent(c)' <=> Sent(c)
      BY <2>1 DEF Sent
    <3>4. \A a : (Says(a)' <=> Says(a)) /\ (Brings(a)' <=> Brings(a)) /\ (Comes(a)' <=> Comes(a))
      BY <2>1, <3>2 DEF Says, Brings, Comes
    <3>5. \A a, d : ComesWith(a, d)' <=> ComesWith(a, d)
      BY <2>1 DEF ComesWith
    <3>6. Answering' <=> Answering
      BY <3>4, <3>5 DEF Answering, Carries
    <3>7. /\ AtSend' <=> AtSend
          /\ AtAnnounced' <=> AtAnnounced
          /\ AtAnswer' <=> AtAnswer
          /\ AtData' <=> AtData
          /\ AtReady' <=> AtReady
      BY <2>1, <3>2, <3>3, <3>4, <3>6 DEF AtSend, AtAnnounced, AtAnswer, Commanded, AtData, AtReady
    <3>8. AtWork'
      BY <2>1, <3>1, <3>2, <3>7 DEF AtWork
    <3>. QED BY <2>1, <2>3, <3>8 DEF Becomes
  <2>4. CASE call.pc # "crashed" /\ loader.at \notin Busy
    <3>1. Aside
      BY <2>4 DEF LInv
    <3>2. Lockstep' /\ OpenAgrees'
      BY <2>1, <3>1, SocketZeroStep
    <3>. QED BY <2>1, <2>4, <3>1, <3>2 DEF Becomes, Aside, Greeted, Authorizing, WillReset, mine
  <2>. QED BY <2>2, <2>3, <2>4
<1>5. CASE LoaderNext /\ call.pc = "crashed"
  <2>1. Crashed
    BY <1>5 DEF LInv
  <2>2. call' = call /\ loader' = loader /\ down' = down
    <3>1. ~mode_step
      BY <1>1, <1>5, HostInCall DEF mode_step
    <3>2. ~Packets
      BY <2>1 DEF Crashed, Packets, PacketSimple, PacketCommand, PacketDataPart, LoaderSequencePacket, acknowledged,
                  stream_entry, unexpected, receive_data, input_failed, goodbye_answered, OnOpen, LoaderReads
    <3>3. LoaderApplication => loader_at_rest
      <4>1. ~Resting
        BY <1>5 DEF Resting
      <4>2. ~start_stream /\ ~operation /\ ~stop_stream
        BY <4>1, Zenon DEF start_stream, operation, stop_stream, Begins
      <4>3. ~mode_call /\ ~DestroyLoader /\ ~DestroyMembers
        BY <1>5, <4>1 DEF mode_call, DestroyLoader, DestroyMembers
      <4>. QED BY <4>2, <4>3 DEF LoaderApplication
    <3>4. ~opened /\ ~closed /\ ~restarted /\ ~answered
      BY <2>1 DEF Crashed, opened, closed, restarted, answered, answer_select, answer_open, answer_password,
                  answer_close, answer_reset, refuse, Asked
    <3>5. ~announce /\ ~reply
      <4>1. ~announce
        BY <2>1 DEF Crashed, announce
      <4>2. ~reply
        BY <2>1, Zenon DEF Crashed, reply
      <4>. QED BY <4>1, <4>2
    <3>6. loader_at_rest \/ greet
      BY <1>5, <3>1, <3>2, <3>3, <3>4, <3>5 DEF LoaderNext, Machine
    <3>. QED BY <3>6 DEF loader_at_rest, at_rest, vars, greet
  <2>. QED BY <1>5, <2>1, <2>2 DEF Becomes, Crashed
<1>6. CASE LoaderNext /\ call.pc # "crashed" /\ loader.at \in Busy
  <2>1. AtWork
    BY <1>6 DEF LInv
  <2>2. ~mode_step /\ ~LoaderApplication /\ ~opened /\ ~closed /\ ~restarted /\ ~answered
    BY <1>1, <1>6, <2>1, OnlyBusy
  <2>3. CASE Packets
    BY <1>1, <2>1, <2>3, Skips, SendsPacket, SendsData, Acknowledges, EndsOperation, TakesData DEF Packets
  <2>4. CASE greet \/ announce
    BY <1>1, <1>6, <2>1, <2>4, Greets
  <2>5. CASE reply
    BY <1>1, <1>6, <2>1, <2>5, AnswersCommand
  <2>. QED BY <1>6, <2>2, <2>3, <2>4, <2>5 DEF LoaderNext, Machine
<1>7. CASE LoaderNext /\ call.pc # "crashed" /\ loader.at \notin Busy
  <2>1. Aside /\ loader.at \in {"idle", "destroyed"}
    BY <1>2, <1>7 DEF LInv
  <2>2. ~Packets /\ ~greet /\ ~announce /\ ~reply
    BY <1>1, <2>1, OnlyAside
  <2>3. CASE mode_step
    BY <1>1, <2>1, <2>3, ModeStepAside
  <2>4. CASE start_stream \/ operation \/ stop_stream \/ DestroyLoader
    BY <1>1, <2>1, <2>4, BeginsAside
  <2>5. CASE mode_call \/ DestroyMembers \/ loader_at_rest
    BY <1>1, <1>7, <2>1, <2>5, ApplicationAside
  <2>6. CASE opened \/ closed \/ restarted \/ answered
    BY <1>1, <1>7, <2>1, <2>6, DeviceAside
  <2>. QED BY <1>7, <2>2, <2>3, <2>4, <2>5, <2>6 DEF LoaderNext, LoaderApplication, Machine
<1>. QED BY <1>4, <1>5, <1>6, <1>7 DEF LoaderNext

LEMMA LoaderAgrees == OneMode /\ LInv => LoaderAndDeviceAgree
<1> SUFFICES ASSUME OneMode, LInv PROVE LoaderAndDeviceAgree
  OBVIOUS
<1>0. Typed /\ LoaderTyped /\ mode[Loader] = mine /\ loader.at \in Busy \cup {"idle", "destroyed"}
  BY LoaderIsMine DEF LInv, LoaderTyped, LoaderRecord
<1>1. CASE call.pc = "crashed"
  <2>1. ~Resting /\ down = <<>> /\ Len(down) = 0
    BY <1>1 DEF LInv, Crashed, Resting
  <2>2. OnTheWay("CLOSE_SOCKET") = {}
    BY <2>1 DEF OnTheWay
  <2>. QED BY <1>1, <2>1, <2>2 DEF LoaderAndDeviceAgree, HostAndDeviceAgree
<1>2. CASE call.pc # "crashed" /\ loader.at \in Busy
  <2>1. AtWork /\ Between /\ ~Resting
    BY <1>2 DEF LInv, AtWork, Resting, Busy, Working
  <2>2. OnTheWay("CLOSE_SOCKET") = {}
    <3> SUFFICES ASSUME NEW i \in OnTheWay("CLOSE_SOCKET") PROVE FALSE
      OBVIOUS
    <3>1. i \in 1..Len(down) /\ down[i].command = "CLOSE_SOCKET" /\ down \in Seq(Requests)
      BY <1>0 DEF OnTheWay, Typed
    <3>2. down # <<>>
      BY <3>1
    <3>3. Tail(down) = <<>> /\ (Request.command = "DATA" \/ Request.command = Command) /\ loader.at \in Working
      BY <1>2, <2>1, <3>2, WireDown DEF Working
    <3>4. i = 1 /\ down[i] = Request
      <4>1. Len(Tail(down)) = Len(down) - 1 /\ Len(down) \in Nat
        BY <3>1, <3>2, HeadTailProperties
      <4>2. Len(Tail(down)) = 0
        <5>1. PICK q : q = Tail(down)
          OBVIOUS
        <5>2. q = <<>> /\ Len(q) = 0
          BY <3>3, <5>1
        <5>. QED BY <5>1, <5>2
      <4>. QED BY <3>1, <4>1, <4>2 DEF Request
    <3>5. Command \in LoaderCommands
      BY <1>0, <3>3, LoaderAt
    <3>. QED BY <3>1, <3>3, <3>4, <3>5 DEF LoaderCommands, HasData, SimpleCmd
  <2>3. {mode[m].socket : m \in Modes} = {mine.socket}
    BY <1>0, LoaderIsMine
  <2>. QED BY <2>1, <2>2, <2>3 DEF LoaderAndDeviceAgree, HostAndDeviceAgree, Between, KnowsTries
<1>3. CASE call.pc # "crashed" /\ loader.at \notin Busy
  <2>1. Aside /\ Lockstep /\ OpenAgrees
    BY <1>3 DEF LInv, Aside
  <2>2. HostAndDeviceAgree
    BY <2>1, AgreesWhenIdle
  <2>3. call.pc = "idle" => up = <<>> /\ down = <<>> /\ zero.hide
    BY <2>1 DEF Lockstep, InTurn, Asking
  <2>4. mine.socket # 0 => mine.handle
    BY <2>1 DEF OpenAgrees, HasSocket
  <2>5. ASSUME NEW i \in OnTheWay("CLOSE_SOCKET") PROVE machine.stream # "open"
    <3>1. Len(down) # 0
      BY <1>0 DEF OnTheWay, Typed
    <3>2. call.pc # "idle"
      BY <2>3, <3>1
    <3>. QED BY <2>1, <3>2 DEF Aside
  <2>. QED BY <1>0, <2>1, <2>2, <2>3, <2>4, <2>5 DEF LoaderAndDeviceAgree, Resting, IsOpen, Aside, WillReset
<1>. QED BY <1>1, <1>2, <1>3

\* Between calls the loader and the device agree on what is under way, the stream
\* and the reset that is owed, and no socket is closed with its stream open
\* (m_javaloader.cc StopStream, "the device reset command will be sent when the
\* socket is closed"). For a JavaLoader that is the one Mode, where no read times out
\* and the device takes a RESET, whatever is refused and however often.
THEOREM LoaderAndDeviceAgreeAlways ==
  ASSUME MaxTimeouts = 0, OneMode, ~RefusesReset
  PROVE  LoaderSpec => []LoaderAndDeviceAgree
<1>1. LoaderInit => LInv
  BY LoaderStarts
<1>2. LInv /\ [LoaderNext]_loaderVars => LInv'
  BY LoaderStep
<1>3. LInv => LoaderAndDeviceAgree
  BY LoaderAgrees
<1>. QED BY <1>1, <1>2, <1>3, PTL DEF LoaderSpec
=============================================================================
