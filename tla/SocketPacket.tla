----------------------------- MODULE SocketPacket -----------------------------
(***************************************************************************)
(* Commands and their answers on an open socket: Socket::Packet for        *)
(* database commands and Socket::PacketData for JavaLoader commands, in    *)
(* socket.cc, over the device without a router.  Long commands and answers *)
(* travel in fragments, handshakes with sequence ids come in between.      *)
(*                                                                         *)
(* A command or an answer is a sequence of units, each with its place in   *)
(* it; the headers are left out.  The device is external, modelled by what *)
(* the host expects of it.  A "variant" is the definition after it with a  *)
(* slip that the run must tell apart.                                      *)
(***************************************************************************)
EXTENDS Sequences, Naturals

CONSTANTS
  Full,         \* units of a full packet: MAX_PACKET_SIZE - SB_FRAG_HEADER_SIZE
  Lengths,      \* units of the commands the application sends
  BlankLimit,   \* blank packets in a row that end a call: 10 in the code
  MaxAnswer,    \* bound: packets of an answer
  MaxCalls      \* bound: calls of the application

ASSUME FullAssumption == Full \in Nat \ {0}
ASSUME LengthsAssumption == Lengths \subseteq Nat \ {0}
ASSUME BoundsAssumption == BlankLimit \in Nat \ {0} /\ MaxAnswer \in Nat /\ MaxCalls \in Nat

VARIABLES
  hide,         \* m_hideSequencePacket
  sequenceId,   \* m_sequenceId
  call,         \* the call in progress, or the last one: pc, its command, the
                \* offset in it, receive, frag, blankCount; the trouble of
                \* the last call that failed, or "none"
  down, up,     \* packets on their way to the device, and to the host
  device,       \* the device: the next sequence id, the command it puts
                \* together, the size a SizePacket has announced
  sent, executed, answers,   \* history: commands begun, commands the device
                             \* has carried out, its answers
  skipped       \* history: handshakes read without CheckSequence, or refused

wires == <<down, up>>
history == <<sent, executed, answers, skipped>>
vars == <<hide, sequenceId, call, wires, device, history>>

NoCall == [pc |-> "idle", whole |-> <<>>, offset |-> 0, receive |-> <<>>, frag |-> FALSE,
           blankCount |-> 0, trouble |-> "none"]
Units(n, length) == [i \in 1..length |-> <<n, i>>]

Init ==
  /\ hide = TRUE
  /\ sequenceId = 0
  /\ call = NoCall
  /\ down = <<>> /\ up = <<>>
  /\ device = [id |-> 0, part |-> <<>>, size |-> 0]
  /\ sent = <<>> /\ executed = <<>> /\ answers = <<>>
  /\ skipped = 0

-----------------------------------------------------------------------------
(***************************************************************************)
(* RawSend and RawReceive of SocketZero.                                   *)
(***************************************************************************)
\* A packet whose size is a multiple of 0x40, as that of a full one, confuses the
\* device unless its size is announced.
Confusing(payload) == Len(payload) = Full
Packets(command, payload) == <<[command |-> command, payload |-> payload]>>

RawSend(command, payload) ==
  down' = down \o (IF Confusing(payload) THEN Packets("SIZE", payload) ELSE <<>>)
               \o Packets(command, payload)

Reply == Head(up)
IsHandshake == Reply.command = "SEQUENCE_HANDSHAKE"
Receive(pc) == call.pc = pc /\ up # <<>> /\ ~(hide /\ IsHandshake) /\ up' = Tail(up)

\* CheckSequence: id 0 restarts the count.
InSequence == Reply.id \in {0, sequenceId}

\* Variant: an id out of sequence does not advance the count.
Advance_matching ==
  sequenceId' = IF Reply.id = 0 THEN 1 ELSE IF InSequence THEN sequenceId + 1 ELSE sequenceId

Advance == sequenceId' = IF Reply.id = 0 THEN 1 ELSE sequenceId + 1

\* A hidden handshake counts as one of socket 0, where a bad id is only logged.
SequencePacket ==
  /\ call.pc # "idle"
  /\ up # <<>> /\ hide /\ IsHandshake
  /\ up' = Tail(up)
  /\ Advance
  /\ UNCHANGED <<hide, call, down, device, history>>

Finish(receive) == call' = [NoCall EXCEPT !.receive = receive, !.trouble = call.trouble]
Throw(trouble) == call' = [NoCall EXCEPT !.trouble = trouble]
ReadOn == call' = [call EXCEPT !.blankCount = 0]

-----------------------------------------------------------------------------
(***************************************************************************)
(* Socket::Packet: send the command, in fragments when it is too long.     *)
(***************************************************************************)
Begin(whole, pc) ==
  /\ call.pc = "idle"
  /\ Len(sent) < MaxCalls
  /\ sent' = Append(sent, whole)
  /\ call' = [NoCall EXCEPT !.pc = pc, !.whole = whole, !.trouble = call.trouble]
  /\ UNCHANGED <<sequenceId, up, device, executed, answers, skipped>>

Command(length) == Units(Len(sent) + 1, length)

Packet(length) ==
  LET whole == Command(length)
  IN  IF length <= Full
        THEN Begin(whole, "reading") /\ RawSend("DB_DATA", whole) /\ UNCHANGED hide
        ELSE Begin(whole, "fragmenting") /\ hide' = FALSE /\ UNCHANGED down

\* MakeNextFragment: 0 when nothing is left.
NextOffset(todo) == IF todo > Full THEN call.offset + Full ELSE 0

\* One round of the loop over the fragments; the handshakes count again from
\* the last one on.
MakeNextFragment ==
  /\ call.pc = "fragmenting"
  /\ LET todo == Len(call.whole) - call.offset
         next == NextOffset(todo)
         length == IF next > 0 THEN Full ELSE todo
         fragment == SubSeq(call.whole, call.offset + 1, call.offset + length)
     IN  /\ RawSend(IF next > 0 THEN "DB_FRAGMENTED" ELSE "DB_DATA", fragment)
         /\ hide' = (next = 0)
         /\ call' = [call EXCEPT !.offset = next,
                                 !.pc = IF next > 0 THEN "sending" ELSE "reading"]
  /\ UNCHANGED <<sequenceId, up, device, history>>

\* Whatever is read after a fragment but the last is not looked at.
fragment_sent ==
  /\ Receive("sending")
  /\ call' = [call EXCEPT !.pc = "fragmenting"]
  /\ skipped' = skipped + (IF IsHandshake THEN 1 ELSE 0)
  /\ UNCHANGED <<hide, sequenceId, down, device, sent, executed, answers>>

-----------------------------------------------------------------------------
(***************************************************************************)
(* The loops that read the answer.                                         *)
(***************************************************************************)
\* Variant: the first fragment is only remembered as such.
AppendFragment_first == IF call.frag THEN call.receive \o Reply.payload ELSE <<>>

AppendFragment == call.receive \o Reply.payload

db_fragment ==
  /\ Receive("reading") /\ Reply.command = "DB_FRAGMENTED"
  /\ call' = [call EXCEPT !.receive = AppendFragment, !.frag = TRUE, !.blankCount = 0]
  /\ UNCHANGED <<hide, sequenceId, down, device, history>>

db_data ==
  /\ Receive("reading") /\ Reply.command = "DB_DATA"
  /\ Finish(IF call.frag THEN AppendFragment ELSE Reply.payload)
  /\ UNCHANGED <<hide, sequenceId, down, device, history>>

db_done ==
  /\ Receive("reading") /\ Reply.command = "DB_DONE"
  /\ Finish(Reply.payload)
  /\ UNCHANGED <<hide, sequenceId, down, device, history>>

unhandled_packet ==
  /\ Receive("reading") /\ Reply.command \in {"JL_ACK", "JL_NOT_SUPPORTED"}
  /\ Throw("error")
  /\ UNCHANGED <<hide, sequenceId, down, device, history>>

\* PacketData takes what it does not know for an answer.
data_answer ==
  /\ Receive("data") /\ Reply.command \in {"JL_ACK", "DB_DATA", "DB_FRAGMENTED", "DB_DONE"}
  /\ Finish(Reply.payload)
  /\ UNCHANGED <<hide, sequenceId, down, device, history>>

not_supported ==
  /\ Receive("command") \/ Receive("data")
  /\ Reply.command = "JL_NOT_SUPPORTED"
  /\ Throw("error")
  /\ UNCHANGED <<hide, sequenceId, down, device, history>>

\* The command of a JLPacket with data is through, with a handshake or not.
SendData == hide' = TRUE /\ RawSend("JL_DATA", call.whole) /\ call' = [call EXCEPT !.pc = "data", !.blankCount = 0]

command_answer ==
  /\ Receive("command") /\ Reply.command \in {"JL_ACK", "DB_DATA", "DB_FRAGMENTED", "DB_DONE"}
  /\ SendData
  /\ UNCHANGED <<sequenceId, device, history>>

\* A handshake that is not hidden, read on this socket: in Packet one to read
\* on after, in PacketData the end.
handshake ==
  /\ \/ Receive("reading") /\ ReadOn /\ UNCHANGED <<hide, down>>
     \/ Receive("command") /\ SendData
     \/ Receive("data") /\ Finish(<<>>) /\ UNCHANGED <<hide, down>>
  /\ IsHandshake /\ InSequence
  /\ Advance
  /\ UNCHANGED <<device, history>>

out_of_sequence ==
  /\ Receive("reading") \/ Receive("command") \/ Receive("data")
  /\ IsHandshake /\ ~InSequence
  /\ Throw("out of sequence")
  /\ skipped' = skipped + 1
  /\ UNCHANGED <<hide, sequenceId, down, device, sent, executed, answers>>

\* Variant: every blank packet is the first.
blank_forever ==
  /\ Receive("reading") \/ Receive("command") \/ Receive("data")
  /\ Reply.command = "BLANK"
  /\ ReadOn
  /\ UNCHANGED <<hide, sequenceId, down, device, history>>

\* Variant: the limit is tested before the count goes up.
blank_late ==
  /\ Receive("reading") \/ Receive("command") \/ Receive("data")
  /\ Reply.command = "BLANK"
  /\ IF call.blankCount = BlankLimit
       THEN Throw("error")
       ELSE call' = [call EXCEPT !.blankCount = @ + 1]
  /\ UNCHANGED <<hide, sequenceId, down, device, history>>

blank ==
  /\ Receive("reading") \/ Receive("command") \/ Receive("data")
  /\ Reply.command = "BLANK"
  /\ IF call.blankCount + 1 = BlankLimit
       THEN Throw("error")
       ELSE call' = [call EXCEPT !.blankCount = @ + 1]
  /\ UNCHANGED <<hide, sequenceId, down, device, history>>

\* A read times out, what is on its way is late: no handler on the way up, hide
\* stays as it is.
timeout ==
  /\ call.pc \in {"sending", "reading", "command", "data"}
  /\ Throw("timeout")
  /\ UNCHANGED <<hide, sequenceId, wires, device, history>>

-----------------------------------------------------------------------------
(***************************************************************************)
(* Socket::Packet of a JLPacket: a command alone, or one that announces    *)
(* data and the data.                                                      *)
(***************************************************************************)
JLCommand == Begin(Command(1), "data") /\ RawSend("JL_DATA", Command(1)) /\ UNCHANGED hide

JLCommandWithData ==
  /\ Begin(Command(1), "command")
  /\ hide' = FALSE
  /\ RawSend("JL_COMMAND", <<>>)

-----------------------------------------------------------------------------
(***************************************************************************)
(* The device takes packets in order, answers every fragment and every     *)
(* announcement with a handshake, and a whole command with an answer.      *)
(***************************************************************************)
Request == Head(down)
Message(command, payload) == [command |-> command, id |-> 0, payload |-> payload]
Handshake == <<[command |-> "SEQUENCE_HANDSHAKE", id |-> device.id, payload |-> <<>>]>>
Understood == IF Confusing(Request.payload) /\ device.size # Full THEN <<>> ELSE Request.payload

Take(command) == down # <<>> /\ Request.command = command /\ down' = Tail(down)

take_size ==
  /\ Take("SIZE")
  /\ device' = [device EXCEPT !.size = Len(Request.payload)]
  /\ UNCHANGED <<hide, sequenceId, call, up, history>>

take_part ==
  /\ Take("DB_FRAGMENTED") \/ Take("JL_COMMAND")
  /\ device' = [id |-> device.id + 1, part |-> device.part \o Understood, size |-> 0]
  /\ up' = up \o Handshake
  /\ UNCHANGED <<hide, sequenceId, call, history>>

\* The command is whole: a handshake or none, then the answer.
Answer(packets, answer) ==
  /\ executed' = Append(executed, device.part \o Understood)
  /\ answers' = Append(answers, answer)
  /\ \E n \in {0, 1} : /\ up' = up \o (IF n = 1 THEN Handshake ELSE <<>>) \o packets
                       /\ device' = [id |-> device.id + n, part |-> <<>>, size |-> 0]
  /\ UNCHANGED <<hide, sequenceId, call, sent, skipped>>

answer_database ==
  /\ Take("DB_DATA")
  /\ LET n == Len(answers) + 1
     IN  \/ Answer(<<Message("DB_DONE", <<>>)>>, <<>>)
         \/ \E length \in 1..MaxAnswer :
              LET answer == Units(n, length)
              IN  Answer([i \in 1..length |->
                            Message(IF i < length THEN "DB_FRAGMENTED" ELSE "DB_DATA", <<answer[i]>>)],
                         answer)

answer_loader ==
  /\ Take("JL_DATA")
  /\ LET answer == Units(Len(answers) + 1, 1)
     IN  Answer(<<Message("JL_ACK", answer)>>, answer) \/ Answer(<<Message("JL_NOT_SUPPORTED", <<>>)>>, <<>>)

\* A read finds an empty packet.
send_blank ==
  /\ call.pc # "idle" /\ up = <<>>
  /\ up' = <<Message("BLANK", <<>>)>>
  /\ UNCHANGED <<hide, sequenceId, call, down, device, history>>

-----------------------------------------------------------------------------
Call == (\E length \in Lengths : Packet(length)) \/ JLCommand \/ JLCommandWithData

Host == \/ SequencePacket \/ MakeNextFragment \/ fragment_sent \/ db_fragment \/ db_data \/ db_done
        \/ unhandled_packet \/ data_answer \/ not_supported \/ command_answer \/ handshake
        \/ out_of_sequence \/ blank

Device == take_size \/ take_part \/ answer_database \/ answer_loader

at_rest == call.pc = "idle" /\ UNCHANGED vars

Next == Call \/ Host \/ timeout \/ Device \/ send_blank \/ at_rest

Spec == Init /\ [][Next]_vars

\* The host thread runs, and a read that waits comes back with something, if
\* only a blank packet.
FairSpec == Spec /\ WF_vars(Host) /\ WF_vars(Device \/ send_blank)

-----------------------------------------------------------------------------
UnitSeq == Seq((1..MaxCalls) \X Nat)

\* The state has its types, and ten blank packets in a row end a call.
TypeOK ==
  /\ hide \in BOOLEAN
  /\ sequenceId \in Nat
  /\ call \in [pc : {"idle", "fragmenting", "sending", "reading", "command", "data"},
               whole : UnitSeq, offset : Nat, receive : UnitSeq, frag : BOOLEAN,
               blankCount : 0..(BlankLimit - 1),
               trouble : {"none", "error", "out of sequence", "timeout"}]
  /\ device \in [id : Nat, part : UnitSeq, size : {0, Full}]
  /\ skipped \in Nat

\* Commands and answers, in however many packets, are calls of RequestReply: as
\* long as no call has failed the device carries out every command whole and
\* once, and the call returns the whole answer to it; after that, when late
\* answers are on their way, a call still never returns a mixture of two
\* (MakeNextFragment, RawSend, AppendFragment).
Requests == INSTANCE RequestReply WITH busy <- call.pc # "idle", failed <- call.trouble # "none", result <- IF call.pc = "idle" THEN call.receive ELSE <<>>

ImplementsRequestReply == Requests!Spec

\* Handshakes arrive in the order of their ids, and the host's count is behind the
\* next of them by those that were never shown to CheckSequence and by nothing
\* else: a handshake out of sequence means that one was skipped before
\* (CheckSequence in socket.cc).
Handshakes == {i \in DOMAIN up : up[i].command = "SEQUENCE_HANDSHAKE"}

SequenceKept ==
  /\ sequenceId + skipped <= device.id
  /\ {up[i].id : i \in Handshakes} = {id \in 0..device.id : sequenceId + skipped <= id /\ id < device.id}
  /\ \A i, j \in Handshakes : i < j => up[i].id < up[j].id

\* A call ends, with an answer or an error, even when nothing but blank packets
\* comes ("only ask for more data on stalled sockets for so long").
CallReturns == call.pc # "idle" ~> call.pc = "idle"
=============================================================================
