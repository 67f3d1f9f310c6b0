------------------------------ MODULE JavaLoader ------------------------------
(***************************************************************************)
(* The JavaLoader mode (m_javaloader.cc) on its socket, composed with      *)
(* SocketZero: both use the same wire and the same m_hideSequencePacket,   *)
(* and what the last answer of a session says decides how SocketZero       *)
(* closes.  An operation is the list of JLPackets it sends; a step of the  *)
(* list is Socket::Packet(JLPacket) and what the operation reads after it. *)
(*                                                                         *)
(* Contents of modules, tables, log entries and screens are left out, and  *)
(* so are the answers the code only tells apart in the text it throws.     *)
(* The device is external.  A read does not time out in this module.       *)
(***************************************************************************)
EXTENDS SocketZero

CONSTANTS
  Loader,         \* the Mode object that is a JavaLoader
  MaxEntries,     \* bound: entries of a table or log, siblings of a module
  MaxPackets      \* bound: packets a COD file is sent in

ASSUME LoaderAssumption == Loader \in Modes \ DesktopModes
ASSUME EntriesAssumption == MaxEntries \in Nat \ {0} /\ MaxPackets \in Nat \ {0}

VARIABLES
  loader,    \* the JavaLoader: started is m_StreamStarted; op, the operation
             \* in progress, todo, its packets to send, and at, its place
  machine    \* the loader in the device: does it owe the READY packet, its
             \* stream, does it want a reset, the command that waits for data

loaderVars == <<vars, loader, machine>>

NewLoader == [started |-> FALSE, op |-> "none", todo |-> <<>>, at |-> "idle"]
NewMachine == [ready |-> FALSE, stream |-> "none", mustReset |-> FALSE, announced |-> "none"]

\* The commands JLPacket builds with a data packet of their own (HasData).
HasData == {"SET_UNKNOWN1", "SET_COD_FILENAME", "SET_COD_SIZE", "SET_TIME", "GET_SUBDIR",
            "GET_DATA_ENTRY", "GET_SUBDIR_ENTRY", "GET_SCREENSHOT", "ERASE", "FORCE_ERASE",
            "GET_LOG_ENTRY", "SAVE_MODULE", "PUT_DATA"}

\* Those that are a command only (SimpleCmd).
SimpleCmd == {"HELLO", "GOODBYE", "GET_DATA", "DEVICE_INFO", "OS_METRICS", "BOOTROM_METRICS",
              "GET_DIRECTORY", "GET_LOG", "CLEAR_LOG", "WIPE_APPS", "WIPE_FS", "LOG_STRACES",
              "RESET_FACTORY"}

LoaderCommands == HasData \cup SimpleCmd \cup {"DATA"}
LoaderAnswers == {"READY", "HELLO_ACK", "ACK", "GET_DATA_ENTRY", "RESET_REQUIRED",
                  "NOT_SUPPORTED", "DATA"}

ASSUME CommandsAssumption == LoaderCommands \subseteq ModeCommands /\ LoaderAnswers \subseteq ModeAnswers

LoaderInit == Init /\ loader = NewLoader /\ machine = NewMachine

-----------------------------------------------------------------------------
(***************************************************************************)
(* The operations, each the list of packets it starts with.                *)
(***************************************************************************)
StartStream == <<"HELLO", "SET_UNKNOWN1">>
StopStream == <<"GOODBYE">>

SendStream(packets) == <<"SET_COD_SIZE">> \o [i \in 1..packets |-> "PUT_DATA"]
LoadApp(first, others) == IF others = <<>> THEN SendStream(first) ELSE SendStream(first) \o SendStream(Head(others))

SetTime == <<"SET_TIME">>
GetDirectory == <<"GET_DIRECTORY">>
GetScreenshot == <<"GET_SCREENSHOT", "GET_DATA">>
DoErase(cmd) == <<"SET_COD_FILENAME", cmd>>
GetEventlog == <<"GET_LOG">>
ClearEventlog == <<"CLEAR_LOG">>
Save == <<"SET_COD_FILENAME", "GET_SUBDIR">>
DeviceInfo == <<"DEVICE_INFO", "OS_METRICS", "BOOTROM_METRICS">>
Wipe(apps, fs) == (IF apps THEN <<"WIPE_APPS">> ELSE <<>>) \o (IF fs THEN <<"WIPE_FS">> ELSE <<>>)
LogStackTraces == <<"LOG_STRACES">>
ResetToFactory == <<"RESET_FACTORY">>

\* The modules of a COD file: one, or one and another, by the packets they are sent in.
CodFiles == (1..MaxPackets) \X ({<<>>} \cup {<<packets>> : packets \in 1..MaxPackets})

\* What a started JavaLoader may be asked; "subdirs" is include_subdirs.
Operations ==
  {[op |-> "LoadApp", todo |-> LoadApp(file[1], file[2])] : file \in CodFiles}
  \cup {[op |-> "Erase", todo |-> DoErase(cmd)] : cmd \in {"ERASE", "FORCE_ERASE"}}
  \cup {[op |-> "Wipe", todo |-> todo] : todo \in {Wipe(TRUE, TRUE), Wipe(TRUE, FALSE), Wipe(FALSE, TRUE)}}
  \cup {[op |-> op, todo |-> GetDirectory] : op \in {"GetDirectory", "subdirs"}}
  \cup {[op |-> "Simple", todo |-> todo] :
          todo \in {SetTime, ClearEventlog, LogStackTraces, ResetToFactory}}
  \cup {[op |-> "GetScreenshot", todo |-> GetScreenshot], [op |-> "GetEventlog", todo |-> GetEventlog],
        [op |-> "Save", todo |-> Save], [op |-> "DeviceInfo", todo |-> DeviceInfo]}

\* One packet, or two, for each id of a table.
Pairs(first, second, n) == [i \in 1..2 * n |-> IF i % 2 = 1 THEN first ELSE second]
GetDirectoryEntries(entry_cmd, n, include_subdirs) ==
  IF include_subdirs THEN Pairs(entry_cmd, "GET_SUBDIR", n) ELSE [i \in 1..n |-> entry_cmd]

\* The siblings of the module that is saved.
SaveData(n) == Pairs("SAVE_MODULE", "GET_DATA", n)

\* What the data read after a command, n items, adds to the list.
Further(command, n) ==
  CASE command = "GET_DIRECTORY" -> GetDirectoryEntries("GET_DATA_ENTRY", n, loader.op = "subdirs")
    [] command = "GET_SUBDIR" /\ loader.op # "Save" -> GetDirectoryEntries("GET_SUBDIR_ENTRY", n, FALSE)
    [] command = "GET_SUBDIR" /\ loader.op = "Save" -> SaveData(n)
    [] command = "GET_LOG" -> [i \in 1..n |-> "GET_LOG_ENTRY"]
    [] OTHER -> <<>>

-----------------------------------------------------------------------------
(***************************************************************************)
(* Socket::Packet(JLPacket): a command with data is answered by its        *)
(* handshake, which is shown for that; handshakes are hidden again before  *)
(* the data is sent.                                                       *)
(***************************************************************************)
Command == Head(loader.todo)
Put(command) == down' = Append(down, [command |-> command, socket |-> mode[Loader].socket,
                                      hash |-> NoHash, sequence |-> 0])
LoaderReads(at) == loader.at = at /\ up # <<>> /\ ~Hidden /\ up' = Tail(up)

PacketSimple ==
  /\ loader.at = "send" /\ Command \in SimpleCmd
  /\ Put(Command)
  /\ loader' = [loader EXCEPT !.at = "answer"]
  /\ UNCHANGED <<zero, mode, call, up, device, calls, timeouts, machine>>

PacketCommand ==
  /\ loader.at = "send" /\ Command \in HasData
  /\ zero' = [zero EXCEPT !.hide = FALSE]
  /\ Put(Command)
  /\ loader' = [loader EXCEPT !.at = "announced"]
  /\ UNCHANGED <<mode, call, up, device, calls, timeouts, machine>>

\* Variant: handshakes stay visible.
PacketDataPart_visible ==
  /\ LoaderReads("announced")
  /\ Put("DATA")
  /\ loader' = [loader EXCEPT !.at = "answer"]
  /\ UNCHANGED <<zero, mode, call, device, calls, timeouts, machine>>

PacketDataPart ==
  /\ LoaderReads("announced")
  /\ zero' = [zero EXCEPT !.hide = TRUE]
  /\ Put("DATA")
  /\ loader' = [loader EXCEPT !.at = "answer"]
  /\ UNCHANGED <<mode, call, device, calls, timeouts, machine>>

LoaderSequencePacket ==
  /\ loader.at \in {"ready", "answer", "data"} /\ up # <<>> /\ Hidden
  /\ up' = Tail(up)
  /\ UNCHANGED <<zero, mode, call, down, device, calls, timeouts, loader, machine>>

-----------------------------------------------------------------------------
(***************************************************************************)
(* What the operations do with the answer.                                 *)
(***************************************************************************)
\* The answer an operation goes on after; SetCodFilename's must announce an ID.
Expected ==
  /\ Reply.command = (IF Command = "HELLO" THEN "HELLO_ACK" ELSE "ACK")
  /\ Command = "SET_COD_FILENAME" => Reply.size = 2

\* The commands whose acknowledgement is followed by a read of data. A table
\* is only read when its announced size is not 0, except by Save.
DataFollows ==
  \/ Command \in {"SET_COD_FILENAME", "GET_DATA_ENTRY", "GET_SUBDIR_ENTRY", "GET_SCREENSHOT",
                  "GET_LOG", "GET_LOG_ENTRY", "SAVE_MODULE", "DEVICE_INFO", "OS_METRICS",
                  "BOOTROM_METRICS"}
  \/ Command = "GET_DIRECTORY" /\ Reply.size > 0
  \/ Command = "GET_SUBDIR" /\ (Reply.size > 0 \/ loader.op = "Save")

Continue(todo) ==
  loader' = IF todo = <<>> THEN [NewLoader EXCEPT !.started = loader.started \/ loader.op = "StartStream"]
                           ELSE [loader EXCEPT !.todo = todo, !.at = "send"]

\* ThrowJLError and the other errors leave the operation where it is.
ThrowJLError == loader' = [NewLoader EXCEPT !.started = loader.started]

acknowledged ==
  /\ LoaderReads("answer") /\ Command # "GOODBYE"
  /\ Expected
  /\ IF DataFollows THEN loader' = [loader EXCEPT !.at = "data"] ELSE Continue(Tail(loader.todo))
  /\ UNCHANGED <<zero, mode, call, down, device, calls, timeouts, machine>>

\* GetData goes on until it is acknowledged without an entry.
stream_entry ==
  /\ LoaderReads("answer") /\ Command = "GET_DATA" /\ Reply.command = "GET_DATA_ENTRY"
  /\ loader' = [loader EXCEPT !.at = "data"]
  /\ UNCHANGED <<zero, mode, call, down, device, calls, timeouts, machine>>

unexpected ==
  /\ LoaderReads("answer") /\ Command # "GOODBYE"
  /\ ~Expected /\ ~(Command = "GET_DATA" /\ Reply.command = "GET_DATA_ENTRY")
  /\ ThrowJLError
  /\ UNCHANGED <<zero, mode, call, down, device, calls, timeouts, machine>>

\* What Receive finds is taken for the data, whatever command it has.
receive_data ==
  /\ LoaderReads("data")
  /\ Continue(IF Command = "GET_DATA" THEN loader.todo
              ELSE Further(Command, Reply.size) \o Tail(loader.todo))
  /\ UNCHANGED <<zero, mode, call, down, device, calls, timeouts, machine>>

\* The input of SendStream may end before the module does.
input_failed ==
  /\ loader.at = "send" /\ Command = "PUT_DATA"
  /\ ThrowJLError
  /\ UNCHANGED <<zero, mode, call, down, up, device, calls, timeouts, machine>>

\* StopStream's answer. An error that leaves ~JavaLoader ends the program, or
\* with an old compiler the members are destroyed all the same.
Stopped == loader' = [NewLoader EXCEPT !.at = IF loader.op = "destroy" THEN "destroyed" ELSE "idle"]

goodbye_answered ==
  /\ LoaderReads("answer") /\ Command = "GOODBYE"
  /\ zero' = [zero EXCEPT !.resetOnClose = @ \/ Reply.command = "RESET_REQUIRED"]
  /\ Stopped
  /\ \/ UNCHANGED call
     \/ /\ Reply.command \notin {"RESET_REQUIRED", "ACK", "NOT_SUPPORTED"}
        /\ loader.op = "destroy"
        /\ call' = [call EXCEPT !.pc = "crashed"]
  /\ UNCHANGED <<mode, down, device, calls, timeouts, machine>>

\* OnOpen reads the packet the device greets with.
OnOpen ==
  /\ LoaderReads("ready")
  /\ loader' = NewLoader
  /\ UNCHANGED <<zero, mode, call, down, device, calls, timeouts, machine>>

-----------------------------------------------------------------------------
(***************************************************************************)
(* The application: the stream is started after Open and stopped "at the   *)
(* end of a JavaLoader session", by ~JavaLoader if by nothing else.        *)
(***************************************************************************)
Resting == call.pc = "idle" /\ loader.at = "idle"
IsOpen == mode[Loader].handle /\ mode[Loader].socket # 0

Begins(op, todo) ==
  /\ Resting /\ IsOpen /\ Begin
  /\ loader' = [loader EXCEPT !.op = op, !.todo = todo, !.at = "send"]
  /\ UNCHANGED <<zero, mode, call, down, up, device, timeouts, machine>>

start_stream == ~loader.started /\ Begins("StartStream", StartStream)
operation == loader.started /\ \E o \in Operations : Begins(o.op, o.todo)
stop_stream == loader.started /\ Begins("StopStream", StopStream)

\* Mode's own operations, between the loader's; the stream is stopped first.
mode_call ==
  /\ Resting
  /\ \E m \in Modes :
       /\ m = Loader => ~loader.started
       /\ \/ \E p \in Passwords : Open(m, p) \/ RetryPassword(m, p)
          \/ Destroy(m)
  /\ UNCHANGED <<loader, machine>>

\* Variant: ~JavaLoader leaves the stream alone.
DestroyLoader_streaming ==
  /\ Resting /\ loader.started /\ IsOpen
  /\ Destroy(Loader)
  /\ loader' = NewLoader
  /\ UNCHANGED machine

\* ~JavaLoader, with its stream started.
DestroyLoader ==
  /\ Resting /\ loader.started /\ IsOpen /\ calls < MaxCalls
  /\ loader' = [loader EXCEPT !.op = "destroy", !.todo = StopStream, !.at = "send"]
  /\ UNCHANGED <<vars, machine>>

\* Then its members, the socket among them, are destroyed.
DestroyMembers ==
  /\ loader.at = "destroyed" /\ call.pc = "idle"
  /\ Destroy(Loader)
  /\ loader' = NewLoader
  /\ UNCHANGED machine

loader_at_rest == at_rest /\ (Resting \/ call.pc = "crashed") /\ UNCHANGED <<loader, machine>>

\* A Mode's calls of SocketZero; RetryPassword goes on with OnOpen.
mode_step ==
  /\ Host
  /\ loader' = IF ~mode[Loader].handle /\ mode'[Loader].handle THEN [loader EXCEPT !.at = "ready"]
                                                              ELSE loader
  /\ UNCHANGED machine

-----------------------------------------------------------------------------
(***************************************************************************)
(* The device: every packet of a socket gets a handshake and a command or  *)
(* its data an answer.  A table, a log and an ID come in a packet after    *)
(* their size.  Operations need a stream, and any of them may be refused.  *)
(***************************************************************************)
JLPacket(command, size) ==
  [command |-> command, socket |-> mode[Loader].number, sequence |-> 0,
   tries |-> 0, seed |-> 0, size |-> size]
LoaderHandshake == JLPacket("SEQUENCE_HANDSHAKE", 0)

opened ==
  /\ answer_open \/ answer_password
  /\ machine' = [machine EXCEPT !.ready = @ \/ (call.mode = Loader /\ device'.open # device.open)]
  /\ UNCHANGED loader

closed ==
  /\ answer_close
  /\ machine' = IF Request.socket = mode[Loader].socket
                  THEN [NewMachine EXCEPT !.mustReset = machine.mustReset] ELSE machine
  /\ UNCHANGED loader

restarted == answer_reset /\ machine' = [machine EXCEPT !.mustReset = FALSE] /\ UNCHANGED loader
answered == (answer_select \/ refuse) /\ UNCHANGED <<loader, machine>>

\* The READY packet is behind the answer to the opening, and reads wait for their
\* packets: that it is sent once that answer is read makes no difference to the host.
greet ==
  /\ machine.ready /\ up = <<>>
  /\ \E before \in {<<>>, <<LoaderHandshake>>} : up' = before \o <<JLPacket("READY", 0)>>
  /\ machine' = [machine EXCEPT !.ready = FALSE]
  /\ UNCHANGED <<zero, mode, call, down, device, calls, timeouts, loader>>

announce ==
  /\ down # <<>> /\ Request.command \in HasData
  /\ machine' = [machine EXCEPT !.announced = Request.command]
  /\ down' = Tail(down) /\ up' = Append(up, LoaderHandshake)
  /\ UNCHANGED <<zero, mode, call, device, calls, timeouts, loader>>

\* What comes back for a command, with n items or bytes of data.
Data(n) == <<JLPacket("ACK", n), JLPacket("DATA", n)>>
Ack == <<JLPacket("ACK", 0)>>
Tables == {Data(n) : n \in 1..MaxEntries}

Replies(command) ==
  CASE command = "HELLO" -> {<<JLPacket("HELLO_ACK", 0)>>}
    [] command = "SET_COD_FILENAME" -> {Data(2), Ack}
    [] command = "GET_LOG" -> Tables \cup {Data(0)}
    [] command = "GET_SUBDIR" /\ loader.op = "Save" -> Tables
    [] command = "GET_DIRECTORY" \/ (command = "GET_SUBDIR" /\ loader.op # "Save") -> Tables \cup {Ack}
    [] command = "GET_DATA" -> {<<JLPacket("GET_DATA_ENTRY", 1), JLPacket("DATA", 1)>>, Ack}
    [] command \in {"GET_DATA_ENTRY", "GET_SUBDIR_ENTRY", "GET_SCREENSHOT", "GET_LOG_ENTRY",
                    "SAVE_MODULE", "DEVICE_INFO", "OS_METRICS", "BOOTROM_METRICS"} -> {Data(1)}
    [] command = "GOODBYE" -> {<<JLPacket(a, 0)>> : a \in {"ACK", "RESET_REQUIRED", "NOT_SUPPORTED"}}
    [] OTHER -> {Ack}

Willing(command) ==
  CASE command = "HELLO" -> TRUE
    [] command = "SET_UNKNOWN1" -> machine.stream = "greeted"
    [] OTHER -> machine.stream = "open"

\* The stream after a command: "kept" when the device refused to stop it.
StreamAfter(command, refused) ==
  CASE command = "HELLO" /\ ~refused -> "greeted"
    [] command = "SET_UNKNOWN1" /\ ~refused -> "open"
    [] command = "GOODBYE" -> IF refused THEN "kept" ELSE "none"
    [] OTHER -> machine.stream

reply ==
  /\ down # <<>> /\ Request.command \in SimpleCmd \cup {"DATA"}
  /\ LET command == IF Request.command = "DATA" THEN machine.announced ELSE Request.command
         refusal == <<JLPacket("REFUSED", 0)>>
     IN \E r \in {refusal} \cup (IF Willing(command) THEN Replies(command) ELSE {}) :
          /\ up' = (up \o <<LoaderHandshake>>) \o r
          /\ machine' = [machine EXCEPT !.announced = "none", !.stream = StreamAfter(command, r = refusal),
                                        !.mustReset = @ \/ r[1].command = "RESET_REQUIRED"]
  /\ down' = Tail(down)
  /\ UNCHANGED <<zero, mode, call, device, calls, timeouts, loader>>

-----------------------------------------------------------------------------
Packets == \/ PacketSimple \/ PacketCommand \/ PacketDataPart \/ LoaderSequencePacket
           \/ acknowledged \/ stream_entry \/ unexpected \/ receive_data \/ input_failed
           \/ goodbye_answered \/ OnOpen

LoaderApplication == \/ start_stream \/ operation \/ stop_stream \/ mode_call
                     \/ DestroyLoader \/ DestroyMembers \/ loader_at_rest

Machine == opened \/ closed \/ restarted \/ answered \/ greet \/ announce \/ reply

LoaderNext == mode_step \/ Packets \/ LoaderApplication \/ Machine

LoaderSpec == LoaderInit /\ [][LoaderNext]_loaderVars

-----------------------------------------------------------------------------
LoaderTypeOK ==
  /\ TypeOK
  /\ loader \in [started : BOOLEAN,
                 op : {"none", "StartStream", "StopStream", "destroy"} \cup {o.op : o \in Operations},
                 todo : Seq(LoaderCommands),
                 at : {"idle", "ready", "send", "announced", "answer", "data", "destroyed"}]
  /\ machine \in [ready : BOOLEAN, stream : {"none", "greeted", "open", "kept"},
                  mustReset : BOOLEAN, announced : HasData \cup {"none"}]

\* Between calls the loader and the device agree, whatever operation was left
\* by an error: nothing is under way that the next command could take for its
\* answer and handshakes are hidden; m_StreamStarted says whether the device has
\* a stream; a device that answered RESET_REQUIRED is reset before its socket
\* is gone ("the device reset command will be sent when the socket is closed").
\* No socket is closed while its stream is open, and SocketZero's own agreement
\* (HostAndDeviceAgree) holds throughout.
LoaderAndDeviceAgree ==
  /\ HostAndDeviceAgree
  /\ Resting => up = <<>> /\ down = <<>> /\ zero.hide
  /\ Resting => (loader.started <=> machine.stream = "open")
  /\ (Resting /\ machine.mustReset) => (zero.resetOnClose /\ IsOpen)
  /\ \A i \in OnTheWay("CLOSE_SOCKET") :
       down[i].socket = mode[Loader].socket => machine.stream # "open"
=============================================================================
