----------------------------- MODULE DebugServer -----------------------------
(***************************************************************************)
(* The debug server of bjdwp: JDWServer in j_server.cc, one thread that    *)
(* accepts one JDWP debugger after the other, and under it the mode        *)
(* JVMDebug in m_jvmdebug.cc and Socket::PacketJVM, which drive the        *)
(* virtual machine of the handheld, without a router.                      *)
(*                                                                         *)
(* The machine is external, modelled after the traces in                   *)
(* doc/jdwp/usb-protocol.txt: a command is answered by a handshake, the    *)
(* size of what follows, and the data.  Asked for its status while it      *)
(* runs, it may answer size 0 and give the status later, or never.         *)
(* Debuggers are external too.  A JDWP message arrives whole; messages     *)
(* that have arrived together are read together.  A "variant" is the       *)
(* definition after it with a slip that the run must tell apart.           *)
(***************************************************************************)
EXTENDS Sequences, Naturals

CONSTANTS
  Debuggers,    \* debuggers, each connects once
  Nobody,       \* an accepted descriptor of -1
  Requests,     \* what a debugger may ask for, see Script
  MaxMessages,  \* bound: messages of all debuggers together
  MaxThreads,   \* bound: threads the machine reports
  MaxModules    \* modules of the machine, a packet for each

ASSUME DebuggersAssumption == Nobody \notin Debuggers
ASSUME BoundsAssumption == MaxMessages \in Nat /\ MaxThreads \in Nat /\ MaxModules \in Nat \ {0}

VARIABLES
  server,       \* the accept thread: pc, acceptfd, targetrunning, the request
                \* it works on; whether the mode has its socket (m_ModeSocket)
  call,         \* the commands of the handheld still to run, and where in the
                \* first one; the size announced, the offset of GetModulesList
  down, up,     \* commands on their way to the machine; packets to the host
  machine,      \* whether it runs, whether it owes a status
  connection,   \* each debugger's end of its connection, what the server has
                \* not read yet: one message, or "several"; has it said anything
  backlog,      \* connections to accept
  messages,     \* how many the debuggers have sent
  trouble       \* history: what went wrong outside the server

wires == <<down, up>>
sockets == <<connection, backlog, messages>>
vars == <<server, call, wires, machine, sockets, trouble>>

Idle == [todo |-> <<>>, at |-> "idle", expect |-> 0, offset |-> 0]

Init ==
  /\ server = [pc |-> "accept", fd |-> Nobody, running |-> FALSE, request |-> "none", open |-> FALSE]
  /\ call = Idle
  /\ down = <<>> /\ up = <<>>
  /\ machine = [running |-> FALSE, owes |-> FALSE]
  /\ connection = [d \in Debuggers |-> [end |-> "none", inbox |-> "nothing", spoke |-> FALSE]]
  /\ backlog = <<>> /\ messages = 0
  /\ trouble = {}

-----------------------------------------------------------------------------
(***************************************************************************)
(* Commands of the handheld: Socket::Packet of a JVMPacket, ReceiveData,   *)
(* and what each function of JVMDebug does with what it reads.             *)
(***************************************************************************)
Command == Head(call.todo)
Rest == Tail(call.todo)
Reply == Head(up)

Run(todo) == [Idle EXCEPT !.todo = todo, !.at = IF todo = <<>> THEN "idle" ELSE "send"]

\* Nobody catches what is thrown in the accept thread: the program ends.
Throw(why) ==
  /\ server' = [server EXCEPT !.pc = "aborted"]
  /\ trouble' = trouble \cup why

\* Mode::Open takes its socket number before anything else can fail.
Send ==
  /\ call.at = "send"
  /\ down' = Append(down, [name |-> Command, offset |-> call.offset])
  /\ call' = [call EXCEPT !.at = CASE Command = "Open"  -> "sequence"
                                   [] Command = "Close" -> "closing"
                                   [] OTHER             -> "packet"]
  /\ server' = [server EXCEPT !.open = (@ \/ Command = "Open")]
  /\ UNCHANGED <<up, machine, sockets, trouble>>

\* A handshake is looked at and read over by PacketJVM; between commands
\* SocketZero hides it; InitSequence waits for one.
sequence_handshake ==
  /\ call.at \in {"packet", "more", "status", "closing", "sequence"}
  /\ up # <<>> /\ Reply.kind = "handshake"
  /\ up' = Tail(up)
  /\ call' = IF call.at = "sequence" THEN Run(Rest) ELSE call
  /\ UNCHANGED <<server, down, machine, sockets, trouble>>

Thread == <<"Unknown11", "Unknown12", "Unknown13", "Unknown14", "Unknown15">>
Threads(n) == [i \in 1..5 * n |-> Thread[((i - 1) % 5) + 1]]
OfAThread == {Thread[i] : i \in 1..5}

\* What is left to do after an answer of n bytes with this value: the next
\* module, the number of threads, the address of a thread, the length of a
\* message.  The loop of GetModulesList goes on from the offset it was given.
Todo(n, value) ==
  CASE Command = "GetModulesList" /\ value # 0      -> call.todo
    [] Command = "GetThreadsList"                   -> Threads(value)
    [] Command \in OfAThread /\ n = 0               -> <<>>
    [] Command = "Unknown11" /\ n # 0 /\ value = 0  -> Tail(Rest)
    [] Command = "GetConsoleMessage" /\ value = 0   -> <<"GetStatus">>
    [] OTHER                                        -> Rest

Answered(n, value) ==
  /\ call' = [Run(Todo(n, value)) EXCEPT !.offset = IF Command = "GetModulesList" THEN value ELSE 0]
  /\ server' = IF Command = "GetStatus" THEN [server EXCEPT !.pc = IF n = 0 THEN "wait" ELSE "run"]
                                        ELSE server

\* Variant: Go and Stop do not wait for more than a size of 0.
ReadsOn_never == FALSE

ReadsOn == Command \in {"Go", "Stop"}

expect_size ==
  /\ call.at \in {"packet", "more", "status"}
  /\ up # <<>> /\ Reply.kind = "size"
  /\ up' = Tail(up)
  /\ \/ /\ Reply.n > 0
        /\ call' = [call EXCEPT !.at = "data", !.expect = Reply.n]
        /\ UNCHANGED server
     \/ /\ Reply.n = 0 /\ ReadsOn
        /\ call' = [call EXCEPT !.at = "more"]
        /\ UNCHANGED server
     \/ Reply.n = 0 /\ ~ReadsOn /\ Answered(0, 0)
  /\ UNCHANGED <<down, machine, sockets, trouble>>

\* The answers that are parsed have a least size.
Parsed == OfAThread \cup {"GetConsoleMessage", "GetModulesList", "GetThreadsList"}
LongEnough == Command \in Parsed => Reply.n >= 2

ReceiveData ==
  /\ call.at = "data"
  /\ up # <<>> /\ Reply.kind = "data" /\ Reply.n = call.expect /\ LongEnough
  /\ up' = Tail(up)
  /\ Answered(Reply.n, Reply.value)
  /\ UNCHANGED <<down, machine, sockets, trouble>>

\* Output that keeps the loop of Run from looking at the debugger.
Talk ==
  /\ ReceiveData
  /\ \/ Command = "GetConsoleMessage" /\ Reply.value > 0
     \/ Command = "GetStatus" /\ server.pc = "run"

closed_socket ==
  /\ call.at = "closing"
  /\ up # <<>> /\ Reply.kind = "closed"
  /\ up' = Tail(up)
  /\ server' = [server EXCEPT !.open = FALSE]
  /\ call' = Run(Rest)
  /\ UNCHANGED <<down, machine, sockets, trouble>>

\* An answer to something else: too short to be parsed, or not a CLOSED packet.
bad_packet ==
  /\ up # <<>>
  /\ \/ call.at = "data" /\ Reply.kind = "data" /\ ~LongEnough
     \/ call.at = "closing" /\ Reply.kind \in {"size", "data"}
  /\ Throw({})
  /\ UNCHANGED <<call, wires, machine, sockets>>

\* A read or a write fails, or a read times out.
usb_error ==
  /\ call.at \notin {"idle", "status"}
  /\ server.pc # "aborted"
  /\ Throw({"failed"})
  /\ UNCHANGED <<call, wires, machine, sockets>>

-----------------------------------------------------------------------------
(***************************************************************************)
(* The server: acceptThread and the functions it calls.                    *)
(***************************************************************************)
Attach == <<"Open", "Unknown01", "Unknown02", "Unknown03", "Unknown04", "Unknown05", "GetModulesList">>

\* AcceptConnection and the beginning of AttachToDevice; Mode::Open closes a
\* socket that the last session has left open.
AcceptConnection ==
  /\ server.pc = "accept" /\ backlog # <<>>
  /\ server' = [server EXCEPT !.pc = "attach", !.fd = Head(backlog), !.running = FALSE]
  /\ backlog' = Tail(backlog)
  /\ call' = Run((IF server.open THEN <<"Close">> ELSE <<>>) \o Attach)
  /\ UNCHANGED <<wires, machine, connection, messages, trouble>>

\* The end of AttachToDevice, with the debug files of the modules, which are left
\* out as the list of classes is.
InitVisibleClassList ==
  /\ server.pc = "attach" /\ call.at = "idle"
  /\ server' = [server EXCEPT !.pc = "hello"]
  /\ UNCHANGED <<call, wires, machine, sockets, trouble>>

Peer == connection[server.fd]
\* Everything that has arrived is read at once.
Received == [connection EXCEPT ![server.fd].inbox = "nothing"]

\* A message to a debugger that has gone resets the connection, the next one
\* raises SIGPIPE.
Sent(connections) ==
  [connections EXCEPT ![server.fd].end = IF @ = "closed" THEN "reset" ELSE @]
SendTo(connections, pc, running) ==
  IF Peer.end = "reset"
    THEN Throw({"reset"}) /\ connection' = connections
    ELSE /\ server' = [server EXCEPT !.pc = pc, !.running = running, !.request = "none"]
         /\ connection' = Sent(connections)
         /\ UNCHANGED trouble

\* Variant: the end of the connection is taken for "nothing yet".
Hello_patient ==
  /\ server.pc = "hello" /\ Peer.inbox # "nothing"
  /\ IF Peer.inbox = "Hello"
       THEN SendTo(Received, "run", server.running)
       ELSE server' = [server EXCEPT !.pc = "accept"] /\ connection' = Received /\ UNCHANGED trouble
  /\ UNCHANGED <<call, wires, machine, backlog, messages>>

\* Nothing but the one right message will do, and a connection that fails is
\* left open, as is the handheld.
Hello ==
  /\ server.pc = "hello" /\ (Peer.inbox # "nothing" \/ Peer.end = "closed")
  /\ IF Peer.inbox = "Hello"
       THEN SendTo(Received, "run", server.running)
       ELSE server' = [server EXCEPT !.pc = "accept"] /\ connection' = Received /\ UNCHANGED trouble
  /\ UNCHANGED <<call, wires, machine, backlog, messages>>

Polling == server.pc = "run" /\ call.at = "idle" /\ server.running

GetConsoleMessage ==
  /\ Polling
  /\ call' = Run(<<"GetConsoleMessage">>)
  /\ UNCHANGED <<server, wires, machine, sockets, trouble>>

Listening == server.pc = "wait" \/ (server.pc = "run" /\ call.at = "idle" /\ ~server.running)

\* What the handheld has to do for a request.
Script(request) ==
  CASE request = "AllThreads" -> <<"GetThreadsList">>
    [] request = "Suspend"    -> <<"Stop">>
    [] request = "Resume"     -> <<"Unknown06", "Unknown07", "Unknown08", "Unknown09", "Unknown10", "Go">>
    [] request = "Dispose"    -> <<"Close">>
    [] OTHER                  -> <<>>

\* Variant: Dispose does not end the loop.
CommandsetProcess_stays(request) ==
  /\ call' = Run(Script(request))
  /\ server' = IF request = "Dispose" THEN [server EXCEPT !.running = FALSE, !.fd = Nobody]
               ELSE IF request = "Other" THEN [server EXCEPT !.pc = "run"]
               ELSE [server EXCEPT !.pc = "command", !.request = request]

\* CommandsetProcess: "Version" stands for the requests that are answered
\* without the handheld, "Other" for those that are not answered.
CommandsetProcess(request) ==
  /\ call' = Run(Script(request))
  /\ server' = CASE request = "Dispose" ->
                      [server EXCEPT !.pc = "detach", !.running = FALSE, !.fd = Nobody]
                 [] request = "Other" -> [server EXCEPT !.pc = "run"]
                 [] OTHER -> [server EXCEPT !.pc = "command", !.request = request]

\* Messages that came together, and a second greeting, have not the size they
\* announce and are dropped.
receive_request ==
  /\ Listening /\ Peer.inbox # "nothing"
  /\ connection' = Received
  /\ IF Peer.inbox \in Requests
       THEN /\ CommandsetProcess(Peer.inbox)
            /\ trouble' = trouble \cup (IF up # <<>> THEN {"crossed"} ELSE {})
       ELSE UNCHANGED <<server, call, trouble>>
  /\ UNCHANGED <<wires, machine, backlog, messages>>

receive_error ==
  /\ Listening \/ server.pc = "hello"
  /\ Peer.inbox = "nothing" /\ Peer.end = "reset"
  /\ Throw({"reset"})
  /\ UNCHANGED <<call, wires, machine, sockets>>

\* The handheld has been asked: a look at it, then one at the debugger again.
WaitStatus ==
  /\ server.pc = "wait" /\ Peer.inbox = "nothing" /\ Peer.end # "reset"
  /\ server' = [server EXCEPT !.pc = "status"]
  /\ call' = [Run(<<"GetStatus">>) EXCEPT !.at = "status"]
  /\ UNCHANGED <<wires, machine, sockets, trouble>>

status_timeout ==
  /\ server.pc = "status" /\ call.at = "status" /\ up = <<>>
  /\ server' = [server EXCEPT !.pc = "wait"]
  /\ call' = Idle
  /\ UNCHANGED <<wires, machine, sockets, trouble>>

\* Variant: a suspended machine is polled on.
Running_on == server.running \/ server.request = "Resume"

Running == server.request = "Resume" \/ (server.running /\ server.request # "Suspend")

\* The answer to the debugger, when the handheld has done its part.
send_response ==
  /\ server.pc = "command" /\ call.at = "idle"
  /\ SendTo(connection, "run", Running)
  /\ UNCHANGED <<call, wires, machine, backlog, messages>>

DetachFromDevice ==
  /\ server.pc = "detach" /\ call.at = "idle"
  /\ server' = [server EXCEPT !.pc = "accept"]
  /\ UNCHANGED <<call, wires, machine, sockets, trouble>>

-----------------------------------------------------------------------------
(***************************************************************************)
(* The machine and the debuggers.                                          *)
(***************************************************************************)
Handshake == [kind |-> "handshake", n |-> 0, value |-> 0]
Size(n) == [kind |-> "size", n |-> n, value |-> 0]
Closed == [kind |-> "closed", n |-> 0, value |-> 0]
Nothing == <<Size(0)>>
Data(n, value) == <<Size(n), [kind |-> "data", n |-> n, value |-> value]>>

Attached == {"Unknown01", "Unknown02", "Unknown03", "Unknown04", "Unknown05"}

Answers(command) ==
  CASE command.name = "Open"              -> {<<>>}
    [] command.name = "Close"             -> {<<Closed>>}
    [] command.name \in {"Go", "Stop"}    -> {Nothing \o Data(1, 0), Data(1, 0)}
    [] command.name = "GetStatus"         -> {Nothing, Data(1, 0)}
    [] command.name = "GetConsoleMessage" -> {Data(2, length) : length \in {0, 1}}
    [] command.name = "GetModulesList"    -> {Data(2, (command.offset + 1) % MaxModules)}
    [] command.name = "GetThreadsList"    -> {Data(2, n) : n \in 0..MaxThreads} \cup {Nothing}
    [] command.name \in Attached          -> {Data(2, 0)}
    [] command.name = "Unknown11"         -> {Data(2, address) : address \in {0, 1}}
    [] command.name \in OfAThread \ {"Unknown11"} -> {Data(2, 0), Nothing}
    [] OTHER                              -> {Nothing}

\* A session begins and ends with a machine that does not run for the server;
\* to stop it ends the wait for a status, another command may.
After(command, answer) ==
  CASE command.name \in {"Open", "Close", "Stop"} -> {[running |-> FALSE, owes |-> FALSE]}
    [] command.name = "Go"                        -> {[running |-> TRUE, owes |-> FALSE]}
    [] command.name = "GetStatus"                 -> {[machine EXCEPT !.owes = (answer = Nothing)]}
    [] OTHER                                      -> {machine, [machine EXCEPT !.owes = FALSE]}

answer_command ==
  /\ down # <<>>
  /\ down' = Tail(down)
  /\ \E answer \in Answers(Head(down)) :
       /\ up' = up \o <<Handshake>> \o answer
       /\ machine' \in After(Head(down), answer)
  /\ UNCHANGED <<server, call, sockets, trouble>>

\* The status that was owed; it crosses whatever else the server has begun. The
\* bound: one crossing, each puts the host one more answer ahead of the machine.
late_status ==
  /\ machine.owes /\ "crossed" \notin trouble
  /\ machine' = [machine EXCEPT !.owes = FALSE]
  /\ up' = up \o Data(1, 0)
  /\ trouble' = trouble \cup (IF server.pc \in {"wait", "status"} THEN {} ELSE {"crossed"})
  /\ UNCHANGED <<server, call, down, sockets>>

Connect(d) ==
  /\ connection[d].end = "none"
  /\ connection' = [connection EXCEPT ![d].end = "open"]
  /\ backlog' = Append(backlog, d)
  /\ UNCHANGED messages

Waits(d) == \E i \in DOMAIN backlog : backlog[i] = d
Talking(d) == connection[d].end = "open" /\ (server.fd = d \/ Waits(d))

Speak(d) ==
  /\ Talking(d) /\ messages < MaxMessages
  /\ \E message \in IF connection[d].spoke THEN Requests ELSE {"Hello", "Other"} :
       connection' = [connection EXCEPT
         ![d].inbox = IF @ = "nothing" THEN message ELSE "several", ![d].spoke = TRUE]
  /\ messages' = messages + 1
  /\ UNCHANGED backlog

Leave(d) ==
  /\ Talking(d)
  /\ \E end \in {"closed", "reset"} : connection' = [connection EXCEPT ![d].end = end]
  /\ UNCHANGED <<backlog, messages>>

debugger ==
  /\ \E d \in Debuggers : Connect(d) \/ Speak(d) \/ Leave(d)
  /\ UNCHANGED <<server, call, wires, machine, trouble>>

-----------------------------------------------------------------------------
Server == \/ Send \/ sequence_handshake \/ expect_size \/ ReceiveData \/ closed_socket \/ bad_packet
          \/ AcceptConnection \/ InitVisibleClassList \/ Hello \/ GetConsoleMessage
          \/ receive_request \/ receive_error \/ WaitStatus \/ status_timeout
          \/ send_response \/ DetachFromDevice

Next == server.pc # "aborted" /\ (Server \/ usb_error \/ answer_command \/ late_status \/ debugger)

Spec == Init /\ [][Next]_vars

\* The accept thread runs and the machine answers; neither the status it owes
\* nor anything a debugger does has to come.
FairSpec == Spec /\ WF_vars(Server /\ server.pc # "aborted") /\ WF_vars(answer_command /\ server.pc # "aborted")

-----------------------------------------------------------------------------
Commands == {Attach[i] : i \in DOMAIN Attach} \cup OfAThread
  \cup {"Unknown06", "Unknown07", "Unknown08", "Unknown09", "Unknown10",
        "Go", "Stop", "Close", "GetThreadsList", "GetConsoleMessage", "GetStatus"}

\* The state has its types; a descriptor is there whenever the server reads or
\* writes, and the mode has its socket whenever commands are sent on it.
TypeOK ==
  /\ server \in [pc : {"accept", "attach", "hello", "run", "wait", "status", "command", "detach", "aborted"},
                 fd : Debuggers \cup {Nobody}, running : BOOLEAN,
                 request : Requests \cup {"none"}, open : BOOLEAN]
  /\ server.pc \in {"hello", "run", "wait", "status", "command"} => server.fd # Nobody /\ server.open
  /\ call.todo \in Seq(Commands)
  /\ call.at \in {"idle", "send", "sequence", "packet", "more", "status", "data", "closing"}
  /\ (call.at = "idle") = (call.todo = <<>>)
  /\ down \in Seq([name : Commands, offset : Nat])
  /\ machine \in [running : BOOLEAN, owes : BOOLEAN]
  /\ connection \in [Debuggers -> [end : {"none", "open", "closed", "reset"},
                                   inbox : Requests \cup {"nothing", "Hello", "Other", "several"}, spoke : BOOLEAN]]
  /\ backlog \in Seq(Debuggers) /\ messages \in 0..MaxMessages
  /\ trouble \subseteq {"crossed", "failed", "reset"}

\* As long as no status has crossed a command, no USB call failed and no
\* connection was reset, the program does not end; and whenever Run begins a
\* round every answer has been read, by the call that asked for it (nothing is
\* left on the wires), and the server thinks of the machine as running exactly
\* when it runs (targetrunning).
InStep ==
  trouble = {} =>
    /\ server.pc # "aborted"
    /\ (server.pc = "run" /\ call.at = "idle") =>
         down = <<>> /\ up = <<>> /\ server.running = machine.running

Ended == server.pc = "aborted"
Taken == \/ server.pc \in {"run", "wait", "status", "command"}
         \/ server.pc = "hello" /\ Peer.end = "open"

\* The debugger in session has its messages read, unless the machine talks for
\* ever: console messages and statuses given at once keep Run from looking.
\* One that waits to be accepted is, unless the debugger in session never says
\* Dispose, gone or not, or one that is connected says nothing.
Serves ==
  \A d \in Debuggers :
    /\ \/ []<>(server.fd # d \/ server.pc = "accept" \/ connection[d].inbox = "nothing")
       \/ []<><<Talk>>_vars
       \/ <>Ended
    /\ []<>~Waits(d) \/ <>[]Taken \/ <>Ended
=============================================================================
