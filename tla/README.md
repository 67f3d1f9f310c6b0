# A formal model of the linberry device library

linberry is a desktop front end for BlackBerry handhelds. Its core is the C++
library in `src/linberrylibs` (a fork of Barry): it talks to a handheld over
USB, opens password-protected *sockets* on it, and runs modes over them
(database access, serial modem, application loader, debugger). Around it are a
backup program and plug-ins that let OpenSync synchronise the handheld with
other data. This directory keeps TLA+ models of the parts of this code where concurrency, time-outs and
protocol state make mistakes easy, TLC configurations that check them, and
TLAPS proofs of what holds for every instance.

Paths below are relative to `src/linberrylibs/src` unless they begin otherwise.

## Contents

1. Inventory of the system
2. Modules, and how they correspond to the code
3. Runs: what each checks, its bounds, what it shows
4. Fairness
5. Proofs
6. Disagreements between the code and its comments
7. What is not modelled, and the plan

## 1. Inventory of the system

| component | state it keeps | operations | interacts with | what makes it hard | what makes it correct |
|---|---|---|---|---|---|
| **DataQueue** (`dataqueue.cc`) | a `std::queue` of `Data*`, `m_accessMutex`, `m_waitMutex`, `m_waitCond` | `push`, `pop`, `wait_pop`, `append_from`, destructor | every queue in the router | any number of threads; condition waits; two mutexes at once in `append_from`; exceptions in the middle | each `Data` has one owner; FIFO; a reader finds what is there |
| **SocketRoutingQueue** (`router.cc`) | `m_dev`, `m_interest`, the map `m_socketQueues`, `m_free`, `m_default`, `m_continue_reading`, the read thread | `RegisterInterest`, `UnregisterInterest`, `SocketRead`, `DefaultRead`, `DoRead`, `AllocateBuffers`, `SetUsbDevice`, `ClearUsbDevice`, `SpinoffSimpleReadThread`, destructor; `DataHandle` gives a buffer back | USB device, Controller, Socket, Serial, IpModem | the read runs unlocked between two critical sections; clients register, unregister and close meanwhile | buffers and packets conserved; the right queue; order; no read of a closed device; destructors return |
| **SocketZero** (`socket.cc`) | `m_zeroSocketSequence`, `m_halfOpen`, `m_challengeSeed`, `m_remainingTries`, `m_hideSequencePacket`, `m_resetOnClose` | `Open`, `Close`, `Send`, the password exchange | Controller, every Mode, the handheld | answers later than their time-out; exceptions between two steps; state shared by all sockets | no password on too few tries; host and device agree on the sockets |
| **Controller** (`controller.cc`) | USB interface, `m_zero`, router pointer | `SelectMode`, constructor, destructor | SocketZero, router | an extra packet in Desktop mode; order of destruction | the number the device selected is the one opened |
| **Mode** (`m_mode_base.cc`) | `m_ModeSocket`, `m_socket` | `Open`, `RetryPassword`, destructor | Controller, SocketZero | Open after a failed Open | a Mode holds a Socket iff it is open at the device |
| **Socket packet layer** (`socket.cc`) | `m_sequenceId` and `m_hideSequencePacket` (both in SocketZero, so shared by all sockets), the locals of a call | `Packet`, `PacketData`, `PacketJVM`, `ReceiveData`, `InitSequence`, `NextRecord` | SocketZero, router | fragments both ways, hand-shakes in between, blank packets, time-outs | commands and answers whole, an answer belongs to its command, a call ends |
| **Packet builders** (`packet.cc`, `protocol.cc`) | packets being filled in | `DBPacket`, `JLPacket`, `JVMPacket` | Desktop, JavaLoader, packet layer | layout | bytes |
| **Desktop** (`m_desktop.cc`) | command table, database list | `LoadDatabase`, `SaveDatabase`, `GetRecord`, `SetRecord` | packet layer, parsers | `SaveDatabase` clears before it writes | what is written is what the builder gave |
| **RecordStateTable** (`r_recordstate.cc`) | index to (record id, dirty) | `GetIndex`, `MakeNewRecordId` | Desktop, OpenSync | ids are 32 bits and wrap | ids are unique |
| **JavaLoader** (`m_javaloader.cc`) | `m_StreamStarted`; the reset it leaves to SocketZero in `m_resetOnClose` | `StartStream`, `StopStream`, `LoadApp`, `Erase`, `Save`, `GetDirectory` and the like, destructor | Mode, SocketZero, packet layer | answers in one, two or more packets; errors in the middle; a goodbye in the destructor and a reset in another class | nothing is left to read when a call ends; the stream is stopped before its socket closes; a reset asked for takes place |
| **JVMDebug**, **JDWP server** (`m_jvmdebug.cc`, `j_*.cc`) | accepted descriptor, `targetrunning`, `loop`, lists of modules and classes | accept thread: attach, greeting, the loop over console, status and requests, detach | packet layer, TCP, the virtual machine of the handheld | the machine answers a request for its status late; debuggers that go away; errors nobody catches | every answer is read by the call that asked; debuggers are served, one after the other |
| **Serial** (`m_serial.cc`) | two sockets, callback | `Open`, `Write`, handler callbacks | router handlers | callback during destruction | no callback after destruction |
| **IpModem** (`m_ipmodem.cc`), **PppFilter** (`pppfilter.cc`) | `m_continue_reading`, the data thread, the session key, framing state | `Open`, `Write`, `Close`, destructor | USB end points of its own, the callback, pppd | up to three password prompts; answers that may be null; `Close` and the thread read the same end point | data heard once and in order; no callback after `Close`; tries are spared; frames stay whole |
| **Data**, **USB wrapper**, **Probe**, **records and parsers**, **cod** | buffers, descriptors | memory, I/O, field parsing | everything | little control | bytes |
| **Backup GUI** (`src/linberrylibs/gui/src`) | `m_AppComm`, the flags of `Thread`, the tar file being read | `StartBackup`, `StartRestore`, `Connect`, `Disconnect`, `UnsetActive`, worker threads | Desktop, tar file | the worker and the main loop share the connection; errors in the middle; signals handled late | a backup is complete or an error is shown; a restore touches only what it replaces; operations end |
| **OpenSync plug-ins** (`src/linberrylibs/opensync-plugin*`) | `DatabaseSyncState`: cache, id map, record state table; two files | `initialize`, `get_changeinfo`, `commit_change`, `sync_done`, `disconnect`, `finalize` | Desktop, the sync engine | failure and restart between any two steps; edits on the device during a session | no edit is lost; an item keeps its record; both sides agree after a good session |
| **Tools**, **RealBasic front end**, **bbtether** | - | callers | - | - | - |

The interactions that matter most: a Controller hands its USB device to a router
(`SetUsbDevice`); the router's read thread fills buffers and pushes them to
DataQueues that client threads pop; `~Controller` waits for the cycle to finish
before it closes the device. Every Mode opens its Socket through the one
SocketZero of its Controller, whose state (half open, tries, sequence) is
therefore shared by all of them.

`PROJECT.json` lists the hazards found while reading, each at its line, and the
property that watches it or the reason there is none yet.

## 2. Modules, and how they correspond to the code

| module | models | checked by |
|---|---|---|
| `FifoQueue` | the promise of `dataqueue.h`: an atomic fifo that owns what is in it | refinement, proofs |
| `DataQueue` | `dataqueue.cc` with its threads, mutexes and waits | `queue_*`, proofs |
| `RoutingQueue` | `router.cc`, with `~Controller` as the caller of `ClearUsbDevice` | `router_*`, proofs |
| `SocketZero` | `socket.cc` (socket 0), `Controller::SelectMode`, `Mode::Open` | `zero_late`, `zero_tries`, proofs; under `JavaLoader` also `zero_session` |
| `JavaLoader` | `m_javaloader.cc` with `Packet(JLPacket &)` of `socket.cc`, composed with `SocketZero` | `zero_session`, proofs in `SocketZero_proof` |
| `RequestReply` | the promise of `Socket::Packet`: a call is carried out once and answered, or fails | refinement |
| `SocketPacket` | `socket.cc` (calls on an open socket): `Packet`, `PacketData`, fragments, `CheckSequence` | `packet_session`, proofs |
| `DebugServer` | `j_server.cc`, `m_jvmdebug.cc`, and under them `PacketJVM`, `ReceiveData` and `InitSequence` of `socket.cc` | `debug_session`, proofs |
| `OpenSync` | `opensync-plugin/src`: `linberry_sync.cc`, `environment.cc`, `idmap.cc`, with `r_recordstate.cc` | `sync_session`, proofs |
| `Backup` | `gui/src`: `DeviceIface.cc`, `Thread.cc`, `BackupWindow.cc`; `LoadDatabase` and `SaveDatabase` of `m_desktop.cc` | `backup_ops`, proofs |
| `PppFilter` | `pppfilter.cc`, as a function | through `IpModem` |
| `IpModem` | `m_ipmodem.cc` with its thread and its caller `pppob` | `modem_session`, proofs |
| `DataQueue_proof`, `RoutingQueue_proof`, `SocketZero_proof`, `SocketPacket_proof`, `DebugServer_proof`, `OpenSync_proof`, `Backup_proof`, `IpModem_proof` | theorems about the modules they are named after; `DataQueue_proof` also about `FifoQueue` | TLAPS |
| `MCDataQueue`, `MCRoutingQueue`, `MCSocketZero`, `MCJavaLoader`, `MCSocketPacket`, `MCOpenSync`, `MCBackup`, `MCIpModem`, `MCDebugServer` | instances for TLC | - |

A definition introduced in a module as a *variant* is a copy of the definition
after it with one plausible slip. Nothing uses the variants; they are there to
show that the property named with them in `PROJECT.json` would notice the slip.

### DataQueue

`items[q]` is `m_queue`. `accessMutex[q]` is the holder of `m_accessMutex`, but
only *between* steps: a critical section that waits for nothing is one action
with the guard `Unlocked(q)`, and only `append_from`, which takes the second
mutex inside the first, keeps its mutex from `append_from` to `append_moves`.
`m_waitMutex` has no variable. It protects only the broadcast and the
condition wait, which releases it atomically.

| action | code |
|---|---|
| `push`, `broadcast` | append under `m_accessMutex`; then the broadcast under `m_waitMutex` |
| `push_throws` | the catch clause of `push` deletes the object |
| `pop` | also the successful first look of `wait_pop` |
| `wait_pop`, `cond_wait` | the first look finds nothing; the thread goes to sleep *without another look* |
| `wait_expires`, `spurious_wakeup`, `broadcast` | the three ends of a wait |
| `recheck` | the second look: an object, or null with a time-out, or the loop without one |
| `append_from`, `append_moves` | the two mutexes; moves everything, or the `k` objects copied before an exception |
| `destroy` | the destructor, run when no thread is inside |

`fresh`, `taken` and `freed` say who owns an object that is in no queue, `log`
is the history that FIFO is stated over.

### RoutingQueue

Every critical section of `m_mutex` is one action, because nothing inside one
blocks. The DataQueues inside the router are sequences here, which the
refinement of `FifoQueue` by `DataQueue` justifies (a `wait_pop` with a time-out
appears as "something is there or the time-out came first"). `DoRead` is split
where it unlocks: `DoRead_begins` (device and buffer), `BulkRead` or
`BulkRead_nothing` (unlocked), the routing step (locked), then the handler call
or the push to `m_default` (unlocked again), and `signal`, the destructor of
`ReadWaitSignal` that ends each cycle. Client operations are one action each but
for `SocketRead` (take a share of the entry, wait, give it back) and
`~Controller` (`ClearUsbDevice`, `readwait`, `close_device`). `fate` and
`entry.since` are history.

Not distinguished: which free buffer is reused, contents beyond the socket
number, error strings, `UsbDeviceReady` and `IsAvailable`, which only read.

### SocketZero

One host thread *without* a router: the direct mode, in which a read of the
device has a finite time-out and an answer given up on is what the next read
finds. `down` and `up` are the packets on their way. `call` is the program
counter of the public call in progress with its locals (password, `closeFlag`,
whether the hand-shake that may precede an answer has been seen). `zero` holds
SocketZero's members, `mode[m]` those of a Mode and of the Socket it owns.

| action | code |
|---|---|
| `Open`, `RetryPassword`, `Destroy` | `Mode::Open`, `Mode::RetryPassword`, `~Mode`; `RetryPassword` is called only after a `BadPassword`, as its comment asks |
| `SelectMode`, `mode_selected`, `extra_packet` | `Controller::SelectMode`; `extra_packet` is the second read in Desktop mode with hand-shakes not hidden |
| `SendOpen`, `still_half_open` | `SocketZero::Open` when the host is not, or is, half open |
| `password_challenge`, `refuse_password`, `SendPasswordHash`, `password_failed` | the password exchange and the tries guard |
| `opened_socket`, `password_accepted` | the success check at the end of `Open` |
| `Close`, `closed_socket`, `bad_closed`, `reset_reply`, `missing_reset_reply`, `CloseThrows` | `SocketZero::Close` and the paths out of it, `ForceClosed` or not |
| `SequencePacket`, `check_sequence` | hidden hand-shakes; the one hand-shake a caller expects |
| `timeout` | a read that times out, in each state, with the exception path of that state |

The handheld is external: it answers its oldest command, may send a hand-shake
first, counts tries, makes a new seed for each challenge and refuses what makes
no sense to it. Where the code says it does not know what the bytes are (the
second packet in Desktop mode) the model leaves them open: the number selected,
or another.

Sequence *ids* of hand-shakes are left out, since on socket 0 `CheckSequence`
only logs a mismatch; the `sequence` byte of the packet, which is compared with
the close flag, keeps its eight bits.

### JavaLoader

`JavaLoader` extends `SocketZero`: one of the Modes is a JavaLoader, and its packets
travel on the same two wires, under the same `m_hideSequencePacket`. `loader` holds `m_StreamStarted` and the
operation in progress as the list of packets it has still to send (`todo`); `Further`
adds to the list what depends on an answer: an entry for each id of a table, a log entry
for each of its count, two packets for each sibling of a module. So each operation of the class is a
definition of one line, and the loop of `Socket::Packet` and of what the operations do with answers
is written once.

| action | code |
|---|---|
| `start_stream`, `operation`, `stop_stream` | the calls an application may make on an open mode; operations only between start and stop, as the comments ask |
| `PacketSimple`; `PacketCommand`, `PacketDataPart` | `Socket::Packet(JLPacket &)`: a command alone; a command with hand-shakes visible, then its data with them hidden |
| `acknowledged`, `stream_entry`, `receive_data` | the answer an operation goes on after, `GET_DATA_ENTRY` in the loops over `GetData`, and the `Receive` that follows some answers |
| `unexpected`, `input_failed` | `ThrowJLError`, `BadPacket` and the other exceptions: the operation is left where it is |
| `goodbye_answered` | `StopStream`: `RESET_REQUIRED` sets `m_resetOnClose`, `NOT_SUPPORTED` is no error, anything else throws |
| `OnOpen` | the packet that the device greets with, read at the end of `Open` and `RetryPassword` (`mode_step`) |
| `DestroyLoader`, `DestroyMembers` | `~JavaLoader`, and then the socket it owns |
| `mode_call`, `mode_step` | `Open`, `RetryPassword`, `~Mode` and `SocketZero` below them, as in SocketZero |

The handheld is external: it shakes hands for every packet, may refuse every command, needs a
stream for operations, announces exactly the data it sends, and may answer a goodbye with a request
to be reset. Its READY packet is sent once the answer to the opening has been read: it is behind that answer on the
wire, which a read would wait for, so the host cannot tell. COD files have one module, or one and
another. Read time-outs are left out here, and so is `SetResetOnClose` as an action of its own: the
goodbye decides.

### SocketPacket

One open socket and one host thread, again in direct mode. `call` is the program
counter of the call in progress with its locals (`offset`, `receive`, `frag`,
`blankCount`), and between calls what the last one returned. A command or an
answer is a sequence of units numbered by the message they belong to, so that
pieces of two messages can be told apart; headers are left out. `Full` is the
number of units in a full packet, which is also the size that `RawSend` must
announce (`MAX_PACKET_SIZE` is a multiple of 0x40).

| action | code |
|---|---|
| `Packet(length)` | `Socket::Packet` up to the loop: one packet, or hand-shakes made visible and fragments to come |
| `MakeNextFragment`, `fragment_sent` | the loop over the fragments; what is read after a fragment that is not the last is not looked at |
| `db_fragment`, `db_data`, `db_done`, `unhandled_packet` | the read loop of `Packet` |
| `JLCommand`, `JLCommandWithData`, `SendData` | `Packet(JLPacket &)`: a command alone, or the announcement with hand-shakes visible and then the data with them hidden |
| `command_answer`, `data_answer`, `not_supported` | the read loop of `PacketData` |
| `handshake`, `out_of_sequence` | `CheckSequence` for a hand-shake that is not hidden |
| `SequencePacket` | a hidden one, counted as one of socket 0 |
| `blank`, `timeout` | an empty packet; a read without any |

The handheld is external: it puts fragments together, answers each with a
hand-shake, and a whole command with an answer of one or more packets (or
`JL_NOT_SUPPORTED`), with or without a hand-shake first. Hand-shakes carry socket
number 0, as in the traces of `src/linberrylibs/doc/jdwp/usb-protocol.txt`. A
packet of a confusing size that was not announced loses its contents.

`Requests == INSTANCE RequestReply WITH ...` maps a call in progress to `busy`, its
trouble to `failed` and what it returns to `result`; `sent`, `executed` and `answers`
are the histories of both. `RequestReply` knows no packets: `Ask`, `Execute` by the
device, and `Return` or `Fail`.

### OpenSync

One database of the device and one plug-in, with the device's user, the sync
engine and the other side's user around it. A record's data is a *version*, the
number of the edit that wrote it. `phase` says where the plug-in is in the
sequence of calls that OpenSync makes; each call of the engine is one action,
or, where an edit on the device or a failure can come in between, several.

| state | code |
|---|---|
| `table`, `lastNew` | `m_Table`: the record state table as it was last read, and `m_LastNewRecordId` |
| `cache`, `idmap` | `m_Cache` and `m_IdMap` of `DatabaseSyncState`; `cacheFile`, `mapFile` are what is on disk |
| `device` | external: index to record id, version and dirty flag |
| `host`, `pending`, `reports`, `needSlow` | external: the items of the other side, the changes it has for the device, the changes reported to it, whether it will ask for a slow sync |

| action | code |
|---|---|
| `initialize`, `finalize` | `LoadCache`, `LoadMap`; the environment goes and only the files stay |
| `get_changeinfo`, `GetChanges`, `GetChangesFails` | connect and read the table; read the data of what has changed, report and map it, overwrite the cache; or fail on the way |
| `CommitAdded`, `CommitModified`, `CommitDeleted` | `commit_change` and `CommitRecordData`, which may take a second new id |
| `CommitRefused`, `CommitUnparsable`, `CommitFails`, `CommitHangs` | its ways out: an id that is not in the table, data that cannot be parsed (the only one that unmaps the uid), the device's error, a blank uid |
| `sync_done`, `SaveCache`, `SaveMap`, `ClearDirty`, `sync_ends` | `Reconnect` and `FinishSync`, one record's flag at a time; `SaveMap` begins with `CleanupMap` |
| `SaveIsCut`, `Fails` | a file that is only partly written; an error between any two steps |
| `DeviceAdd`, `DeviceModify`, `DeviceDelete`, `HostAdd`, ... | the two users |
| `Apply`, `HostWins` | the engine brings a report to the other side, or finds that the other side's change wins |

The engine may begin a session with a plug-in whose last session failed, and with a
new one. `told`, `link`, `settled`, `raced`, `torn` and `lapses` are history: what
the other side has seen, which item a record was last known by, which of them a
good session has made known to both sides, which records were edited during a
session, whether a file write was cut, and which of three things have happened that the
plug-in does not cope with (section 6): a session has begun with what a failed one left
in memory (`memory`), a record was reported under a made-up uid that is another record's
(`clash`), a commit has given an item a second id (`renumbered`).

### Backup

One handheld. `worker` is the thread of `BackupThread` or `RestoreThread` with its
program counter, `tar` the reader of the restore file, `gui` the members of `Thread`
and of the window, `comm` `m_AppComm`, and `signals` the dispatchers, whose pipes and
the one main loop behind them make one queue.

| action | code |
|---|---|
| `on_backup`, `on_restore`, `select_connects` | the user's commands down to the new thread; `Connect` starts a backup itself |
| `restore_throws` | the first `Retrieve`, which is the main loop's, throws |
| `select`, `UnsetActive`, `on_disconnect` | `on_device_change` to and from the handheld; disconnecting, also from one that works if the user insists |
| `backup_next`, `Store`, `loaded`, `backup_fails` | the loop of `BackupThread` over `LoadDatabase`, which ends when the handheld says so |
| `restore_next`, `ClearDatabase`, `SetRecord`, `saved`, `*_fails` | the loop of `RestoreThread` over `SaveDatabase`, which clears first |
| `Retrieve`, `SkipCurrentDB` | the builder that reads the tar file |
| `close_tar`, `close_throws`, `emit_error`, `emit_done`, `Invalidate`, `invalidated` | the common end of a thread; `Invalidate` is two steps because its writes have no lock |
| `crashes` | the worker goes through `m_desktop` or a dispatcher that is not there |
| `on_thread_progress`, `on_thread_error`, `on_thread_done`, `message_closed`, `treeview_update` | the main loop |

Left out: `RestoreAndBackup`, which `Thread` refuses, `QuitThread`, which nobody
calls, and the totals behind the percentage shown.

### IpModem and PppFilter

`call` is the public call in progress with the locals that outlive a read, `reader`
the data thread, `down` and `up` the two end points. The handheld's packets are told
apart by what the code looks at: null, password request (seed and tries), verdict,
acknowledgement, "protected", data.

| action | code |
|---|---|
| `Open`, `SendCommand`, `ignored_response`, `start_response`, `restart_response`, `at_response` | `Open` step by step: every write and every read is one |
| `SendPassword`, `password_response` | `SendPassword`, called from three places |
| `SendSessionKey` | the session key and the look at the answer read *before* it |
| `spawn`, `reader_tests`, `reader_reads`, `reader_gets_nothing`, `callback` | `pthread_create` and `DataReadThread` |
| `Write` | `PppFilter::Write` and the `BulkWrite`, which may throw after the filter has moved on |
| `Close`, `close_response`, `join`, `Destroy` | `Close` and the destructor, which swallows its exceptions |
| `timeout`, `usb_error` | the two kinds of exception, with what each read does about them |

`PppFilter` is the function from (state, bytes) to (state, bytes); a byte is a
flag or not. `receiver` is what the handheld makes of the bytes.

Assumed: an object is opened once (again only after a failed `Open`), as `pppob` does; PPP
begins with a buffer of its own (`Dialling`), because the filter looks for it only at
the first byte of a buffer.

### DebugServer

`server` is the accept thread with `acceptfd`, `targetrunning` and whether the mode has
its socket; `call` the commands of the handheld it has yet to run and where it is in the
first of them. `down` and `up` carry commands and the three packets of an answer: hand-shake,
size, data. The machine is external and follows the traces in
`src/linberrylibs/doc/jdwp/usb-protocol.txt`; it may answer a request for its status
with size 0 and *owe* the status. So are the debuggers: messages that arrive together
are one read of the server.

| action | code |
|---|---|
| `Send`, `sequence_handshake`, `expect_size`, `ReceiveData` | `PacketJVM` and `ReceiveData` as the members of `JVMDebug` call them; `Go` and `Stop` read on after a size of 0 |
| `closed_socket`, `bad_packet`, `usb_error` | `Close`; an answer to something else; a failed or timed-out read. What is thrown ends the program, since the accept thread catches nothing |
| `AcceptConnection`, `InitVisibleClassList`, `Hello` | accepting, `AttachToDevice`, and the greeting; `Mode::Open` first closes what the last session left open |
| `GetConsoleMessage`, `WaitStatus`, `status_timeout`, `receive_request`, `receive_error` | the loop of `Run` |
| `CommandsetProcess`, `send_response`, `DetachFromDevice` | a request, its answer and the end of a session |

`trouble` is history: a status that crossed a command, a USB error, a connection reset.

## 3. Runs: what each checks, its bounds, what it shows

Runs that pass:

* **queue_safety** - 2 threads, 3 messages, 2 queues with one append direction,
  timed and untimed waits, spurious wakeups. `TypeOK`, `Ownership`, `FifoOrder`, and
  `ImplementsFifo`, the refinement; and `TimedWaitReturns`: a timed `wait_pop` returns
  although the other thread keeps taking what it was woken for. Three messages are the
  fewest for a partial move (an exception inside `append_from`) that leaves something
  behind and keeps an order; two threads are the fewest for a race, and the theorems
  cover the rest.
* **router_safety** - the read thread, 2 clients, 2 sockets, 2 buffers, 2
  entries, 2 packets, spurious wakeups. `BufferInOnePlace`, `EveryPacketOnce`, `RightQueue`,
  `RegisteredNotDefault`, `ArrivalOrder`. Two packets and two sockets are the
  fewest for order and for a packet that meets the wrong queue; two entries let
  a socket be registered again while a reader still waits on its old entry.
* **router_live** - 2 clients and 2 devices made one after the other:
  `NoReadAfterClose`, `DestructorsReturn` (both `~SocketRoutingQueue` and, while the
  read thread runs, `~Controller`). Without a read thread
  `ClearUsbDevice` waits for a signal nobody sends, so the system may stop and
  deadlock is not reported.
* **zero_session** - one Mode, which is a JavaLoader, no time-outs, 7 calls, 4 tries, sequence
  starting at 254 so that the byte wraps, up to 2 entries in a table or log, one or two COD files of one
  or two packets (123 thousand states). `TriesGuard`, and `LoaderAndDeviceAgree`: its part
  `HostAndDeviceAgree` is about the
  challenge and its tries, which sockets are open, which a
  Mode holds, and that none is closed twice; the rest says that between calls nothing is
  left to read, whichever packet of whichever operation was refused, that
  `m_StreamStarted` is true to the device, that no socket closes under an open stream, and that a
  reset the device asked for has taken place when its socket is gone. Four tries and seven calls
  let wrong passwords take the count across the minimum of three, and a session start, do
  something, stop, close and open again. Entries and packets only repeat what two of them do.
* **zero_late** - 2 Modes, one of them Desktop, 4 calls, 2 time-outs, a device
  that may refuse a reset: `OpenedAtDevice`, a Socket is made only for a socket
  that the device has open, even though late answers are taken for new ones.

* **packet_session** - two calls, full packets of 2 units, commands of 1, 2, 4 and
  5 (one packet, exactly one, exactly two, and three), answers of up to 2
  packets, 3 blank packets as the limit instead of 10; any read may time out, also
  in the middle of an answer whose rest is still on its way.
  `ImplementsRequestReply` (while no call has failed a command is carried out whole
  and once, and its call returns the whole answer; after a failure it may return an
  earlier answer or the rest of one, but never a mixture), `SequenceKept` (the count of hand-shakes lags by exactly
  those that were not looked at), `CallReturns`. Two calls are the fewest for a
  late answer to meet the next call; the limit of 3 is reached, passed over by a
  packet in between, and started again.
* **sync_session** - two slots on the device, up to 3 edits by the two users, record ids up
  to 4, host uids that are foreign, a number, and blank; any number of sessions and
  restarts, slow or fast, with a failure between any two steps and files cut short, also
  sessions that begin with the memory of a failed one
  (3.7 million states). `IdMapOneToOne`, `NoLostEdit`, `UidKept`, `OneRecordPerId`, and `Converges` (after a session
  that ends well both sides hold the same data). Three edits are the fewest for an item added
  by one side, changed by the other and then deleted; the ids are more than three
  edits and their commits can use up. All three lapses happen in the run, and each exemption
  is one the code needs: without `memory` `UidKept` is violated within these bounds; without
  `renumbered` both `OneRecordPerId` and `UidKept` are with three slots, four edits and host
  uids that are the numbers 1 and 2; without `clash` `UidKept` is with two slots and the
  same edits and uids, at the end of 34 steps and several failed sessions.
* **backup_ops** - two operations one after the other, databases `a` and `b` on the handheld and
  `x` only in the file, whose records come as a, x, b, b; the selections name a
  database that only one side has; any exchange may fail, with its effect or
  without, and the handheld may end the load of a database at any record (1.4 million states).
  `RestoredWhole`, `BackupWhole` (what a backup without an error has in its file), `NotUnderWorker`, `Released`, and `OperationEnds`.
  One operation shows nothing of what is left behind by the one before; a third
  starts from the same states as the second. The system properly stops when the program
  does, so deadlock is not reported.
* **modem_session** - up to three prompts, the right password, a wrong one and none, two attempts at
  `Open`, a limit of 3 tries on a device with 3, one late answer, one USB error, two packets of
  data, all buffers of one or two bytes and one that ends a frame and begins the next (1.7
  million states). `SerialData` (what the handheld sends is heard once and in order, but for what `Open` and
  `Close` read themselves - in a first `Open` at most one packet, and none from there to
  `Close` - and by nobody once `Close` has returned), `TriesSpared` (unless an answer was
  late, one `Open` costs at most one try whichever requests it obeys, and none below the limit
  until it obeys a later request that says too few are left), `Framed`. A device at the limit is the one that the guard is for.
* **debug_session** - two debuggers, four messages between them, any connection closed
  or reset at any time, two modules, at most one thread, a USB error anywhere (0.99
  million states). `InStep` (unless a status has crossed a command, USB failed or a
  connection was reset, the program goes on and every round of `Run` begins with nothing on the wires
  and `targetrunning` true to the machine), `Serves` (messages are read unless the machine talks
  for ever; a debugger that waits is accepted unless the one in session never says
  Dispose). Four messages are a greeting, Resume, a request while the status is
  owed, and Dispose; the second debugger finds what the first left behind. One crossing
  status is the bound, as each puts the host one more answer ahead. The program ends
  with an exception, and debuggers may come to an end, so deadlock is not reported.

Runs that end in a violation (section 6): **queue_wakeup** and **zero_tries**.

Bounds have names: `Data`, `Buffers`, `Entries`, `Devices`, `MaxPackets`,
`MaxCalls`, `MaxTimeouts`, `Lengths`, `MaxAnswer`, `MaxVersion`, `MaxRecordId`, `MaxOps`,
`MaxSignals`, `MaxOpens`, `MaxFaults`, `MaxData`, `MaxMessages`, `MaxThreads`,
`MaxModules`, `MaxEntries`. In `queue_wakeup` and `router_safety`
interchangeable model values are symmetric (threads, messages,
clients, sockets, buffers, entries); no run with a temporal property uses
symmetry.

`at_rest` (SocketZero, SocketPacket) and `finished` (RoutingQueue, IpModem) are stuttering steps of
states where the program may properly stay for ever, so that TLC's deadlock
check still speaks about all others.

## 4. Fairness

* DataQueue: weak fairness of `Continue(t)` and `wait_expires(t)` for each
  thread: a thread inside a member function is scheduled, and timed waits end.
  Nobody has to call anything, and nothing is assumed of mutexes, which
  POSIX does not promise to be fair: `TimedWaitReturns` exempts a wait whose mutex another
  thread keeps taking.
* RoutingQueue: weak fairness of the read thread (`DoRead`), of a client inside a
  member function, and of the join. `DoRead` under fairness assumes that a
  `BulkRead` returns, which its time-out ensures, and that handlers return.
* SocketZero has no liveness property: reads end by time-out or answer, and the
  number of steps of a call is bounded by the packets sent.
* SocketPacket: weak fairness of the host, and of the device together with
  `send_blank`: a read that waits comes back with something, if only an empty
  packet. Time-outs are possible and never assumed, so `CallReturns` rests on the
  count of blank packets where no answer comes.
* Backup: weak fairness of the worker thread and of the main loop's handlers of signals. Every
  exchange with the handheld returns, with an error if need be, because its reads
  have time-outs; GLib's main loop handles what is in its pipes. The user owes
  nothing: not even to close a message, which runs a main loop of its own.
* DebugServer: weak fairness of the accept thread and of the machine's answer to a command.
  Neither the status it owes nor any word of a debugger has to come.
* OpenSync and IpModem have no liveness property. The engine may stop calling at any
  time, and `CommitHangs` shows a call that never returns; the modem's calls are bounded
  chains of reads that time out.

## 5. Proofs

`DataQueue_proof` first proves of the atomic queue, for any sets of objects and
queues, `FifoTypeCorrect`, `FifoOneOwner` (`Ownership`) and `FifoInOrder`
(`FifoOrder`). They rest on lemmas about what concatenation, appending and cutting do to
the suffixes of a sequence and to its elements. Then, of the threads:

1. `Inductive`: `Spec => []IInv`, where `IInv` is the type of the control state
   and `Inside`. `Inside` is what makes the rest inductive: a thread at
   `appending` works on a pair of `AppendPairs` (so two *different* queues) and
   its mutex is held by nobody else, and a thread past the first look has a
   queue to look into. Without it, `recheck` and `append_moves` are not steps of
   the atomic queue.
2. `Refinement`: `Spec => Fifo!Spec`. Each action is a `Put`, `FailPut`, `Take`,
   `Move` or `Discard`, or leaves the five data variables alone.
3. `TypeCorrect`, `OwnershipAlways`, `FifoOrderAlways`, `InsideAlways`: for
   any number of threads, objects and queues. The first three are invariants of the run
   `queue_safety` and carry the theorems about the atomic queue across the
   refinement, so no proof about sequences is done twice.

Assumptions used: `AppendPairsAssumption` (no queue is appended to itself: that
would lock a mutex twice), `NoneAssumption` (the markers for "nobody" are not
threads or queues), `ModesAssumption`.

`RoutingQueue_proof` proves the safety of the router for any number of clients,
sockets, entries, buffers, packets and devices, in layers, each inductive
given the ones before:

1. `ControlAlways`: `CInv`, that is `TypeOK` with `Control` (the read thread holds a
   buffer exactly at the points of `DoRead` where it should, a client waiting in
   `SocketRead` has an entry and no handle, `m_interest` says whether the map is
   empty) and `Filled` (what is on its way holds a packet that has arrived).
   Hence `TypeCorrect`.
2. `BuffersAlways`: `BInv`, that is `OnePlace` (each buffer is in exactly one of the
   places: not made, free, default queue, an entry, the read thread, a client's
   handle), `NoRepeats` in the queues, and `RightQueue`. The lemma `Moving` says
   once that taking a buffer from one place to another while all others keep
   theirs (`Frame`) preserves `OnePlace`; each action names its two places. Hence
   `BufferAlways` and `RightQueueAlways`.
3. `OrderAlways`: `OInv`, that is `ArrivalOrder` and `RegisteredNotDefault` with
   `ReaderLast` (the packet in the read thread's hands is younger than all that
   are queued) and `DefaultingUnwanted` (a packet on its way to `m_default` is
   older than any registration of its socket). Without `ReaderLast` a push would not keep
   the order. Hence `ArrivalOrderAlways` and `RegisteredNotDefaultAlways`.
4. `NoReadAfterCloseAlways`: with `DInv` (who is clearing the device, and that it
   stays open until they are through), under the hypothesis that condition waits
   have no spurious wakeups. With one, `ClearUsbDevice` returns early (section 6),
   so the hypothesis cannot be dropped.

On top of these stands `EveryPacketOnceAlways`. The count in `EveryPacketOnce` is no
good for an induction, so its invariant `PInv` says the same without cardinalities:
`Once` holds of the buffers on their way and of the packets with a fate (no number
twice, no number in both, none of `1..arrived` missing). A step either keeps the set
`Travelling`, adds the buffer just filled (`OnceArrived`), or takes buffers out of
it and gives their packets a fate (`OnceTaken`). That a buffer taken out is in no
other queue is `OnePlace` after the step (`GivenUp`), so the four consumers (`call_handler`,
`wait_pop`, `DefaultRead`, `UnregisterInterest`) need no argument of their own.

Assumptions used: `NoneAssumption`, `PacketsAssumption`; `~SpuriousWakeups` only in
`NoReadAfterCloseAlways`.

`OpenSync_proof` proves, for any number of slots, record ids, uids and edits:

1. `TypeCorrect`, with two facts that its induction needs (`TInv`): a change that waits to be
   committed is of an item the other side has, and a report that is no deletion
   carries data.
2. `IdMapOneToOneAlways`: inductive as it stands, because `CanMap` guards every new pair and
   an id from `MakeNewRecordId` is not in the map. A file that was cut is a subset of
   a one-to-one map.
3. `NoLostEditAlways`: no edit made outside a session is lost, whatever fails and wherever,
   also by sessions that begin with what a failed one left in memory. `NoLostEdit`
   speaks of the time between sessions; `EInv` says for each part of a session why
   it will hold at its end: `HostTold` (the other side has seen what it holds),
   `Core` (at every moment a record is dirty, its data has been seen, or a slow sync is
   due and the file does not have it), `Snapshot` (the table read is older than the
   records but for those edited since), `CacheIs` (a slow sync begins with an empty
   cache), `Covered` (from the
   reports on, every record is known to the other side or about to be) and
   `Handled` (nothing is saved while a report is open). What a failed session leaves in
   memory does no harm here: until a session ends well a dirty flag stays set, and a slow
   sync stays due, which empties the cache.
4. `OneRecordPerIdAlways`, until an item is given a second id (`renumbered`). `RecInv` adds
   `SameIndexes` (where the table has a record the device has no other, all session
   long, because no index is used twice in one) and `Known` (a record that the table does not
   have was added since: by the device's user, who is excused, or by a commit that left its id in the
   map of an item no longer pending). A new id is in neither table nor map, so it is nobody's.
5. `UidKeptAlways`, until one of the three lapses. `UInv` follows a linked and settled item through a session:
   on disk it is mapped and in the cache or the device (`FileMapped`, `FileKept`); `Loaded`
   until the reports are made; after that `CacheMapped`, `ReportsMapped` and
   `MemoryKept` say which of map, cache, table and reports still has it; `Unlisted`,
   `Present` and `Written` carry it over commits and the two files to the end. `LinkOne` and
   `DoomedGone` are what links may be while this goes on.
6. `ConvergesAlways`, until one of the three lapses. `Converges` is a promise about the last
   step of a session; `AInv` says of each record how the promise comes about. `Filed`: between sessions the
   item that the file has for a clean and cached record has the record's data or a
   change pending. `Matched`: from the reports on, the map in memory has an item for
   every record, which has its data or for which a report or a commit is still to come. To carry
   that through a report or a commit takes `ReportsAgree` (a report has the data its record
   has, and the uid the file has for it), `MapsAgree` (memory and file give a
   record the same uid), `TableIs` (a record is at the index the table has it at), and
   `Listed` (the cache has the records of the device, and at the end no others); the last
   and `SettledLinked` (a settled item is linked) give the other direction, from items to records.
   All of them exempt a record edited in the session and a torn file, as `Converges` does.

The lapses are in the properties themselves, so the theorems have no hypothesis but the assumptions
on constants. Each is an event of the plug-in that section 6 describes, and none excludes a
failure, an order of calls or an edit before it. TLC has
checked `UInv`, `AInv` and `SettledLinked` at the run's bounds. The proof of
`SettledLinked` found a slip in the history of the model: an item whose record a commit gives
to another item stayed settled, which made `Converges` false in states beyond the run's bounds;
`KeepSettled` now says it once for every action.

Assumptions used: `SlotsAssumption`, `BoundsAssumption`.

`Backup_proof` proves, for any handheld, selections, files and number of operations:

1. `TypeCorrect`: `TInv` is the type of each variable with `AtWork` (a worker that
   loads has a name left to load, one that writes is at a database of the handheld)
   and with the fact that a reader with a record in hand has one.
2. `NotUnderWorkerAlways`: `NInv`, that is `Safe` unless the user has insisted on
   disconnecting (`confirmed`) or an operation began before the last one was through
   (`hasty`). `Safe` says what worker, signals on their way and window know of each
   other: a worker before its end finds the thread not idle, the connection there and
   no *done* under way; after *done* is emitted there is one, as the last signal.
3. `ReleasedAlways`: `RInv` with `Pending`: a handheld that is connected though it
   is not selected has an end of the operation before it.
4. `RestoredOnlyAlways`: `OInv` with `Known`, what the reader of the tar file knows:
   what is left to read is of the file, the current database is selected and in the
   file, the record in hand is one of its records.
5. `BackupWholeAlways`, if no selection names a database twice: `WInv` follows the
   databases already stored and the records of the one being loaded; `Stored` is
   what holds as long as no error has been seen: a database that the worker is through with is
   `BackedUp`, all of it or, if the handheld ended its load early (`short`), what came of it.
6. `RestoredWholeAlways`, if no selection names a database twice and each file has its
   databases in one piece (`Grouped`). The second is needed: a restore clears a database at
   its first record, and would clear it again where its records go on after those of
   another; TLC shows it. Backups made by the program are `Grouped`, which `MInv` proves on the
   way. `Underway` says of a selected database without an error that the reader has not
   come to it yet, or that it has some of its records and the rest is `Ahead`, or that it is
   `Whole`; when the reader is at the end, nothing is ahead.

Assumptions used: `BoundsAssumption` and what Backup assumes of its lists and files.

`SocketZero_proof` proves, for any number of Modes of either kind, sockets, calls and tries:

1. `TypeCorrect`, time-outs included: the sequence stays a byte, and the tries the host
   takes from a packet are within those of the device.
2. `TriesGuardAlways`, where `MaxTimeouts = 0` (with time-outs `zero_tries` refutes it). `EnoughTries` looks
   at `m_remainingTries` when the password is sent, so the invariant has to say that the
   host knows the tries of the device then. `InTurn`: host and device take turns. A call that waits has its
   request on the way or the answer to it, after a hand-shake or not, one more hand-shake
   behind it in Desktop mode, and nothing is left when the call ends. `TriesKnown`: a
   half open host has the tries and the seed of the device, but for the time between
   the answer to a password and its arrival, in which no password is under way; and a
   packet with a challenge on its way tells them truly.
3. `HostAndDeviceAgreeAlways`, the part of `LoaderAndDeviceAgree` that `SocketZero` alone
   owes, for one Mode, no time-outs, and a device that takes a RESET (without any of these it
   fails, see section 6). `OpenAgrees` adds to the above: a Mode with a socket is between
   calls or in the one that closes it, and its flag is the sequence the next `Send` will use
   (`HasSocket`), which is why the close is accepted; an answer under way is the one asked for
   and says what the device has open (`Done`).
4. `OpenedAtDeviceAlways`, time-outs included and for any number of them. Here answers that earlier calls gave up
   on are still on the wires, and may be taken by a later call. What tells them apart is their
   sequence, so `Late` follows ages: the Send a sequence was for (`Nth`). Requests wait in the
   order of their ages, a CLOSE_SOCKET is older than the sequence in use (`Waiting`), an answer is no younger
   than what is still to be answered, and an OPENED_SOCKET that carries the sequence in use names
   a socket that no close has reached since (`Brought`); an `Open` compares with the sequence in use (`Flagged`).
   The sequence is a byte, so this holds until it comes round: the hypothesis is `3 * MaxCalls <= 255`,
   as a call sends at most three times (`Few`) - 85 calls of one connection. Beyond that
   an answer left from 256 Sends before has the same sequence again.
5. `LoaderTypeCorrect`, for `JavaLoader`, time-outs included and for tables, logs and COD packets
   of any number: on top of SocketZero's types, `Further` and `Continue` keep the script of an
   operation a sequence of the loader's commands.
6. `LoaderAndDeviceAgreeAlways`, for a JavaLoader that is the one Mode, no time-outs, and a
   device that takes a RESET, as in 3. The property speaks of the times between calls, but an operation may be
   left after any of its packets, so `LInv` has to say at each of them what is on the wires. While the
   loader is `AtWork`, SocketZero is between calls with the socket open and its close flag true
   (`Between`), and the script is one that fits the stream (`Scripted`); its own command or its announcement is on the way
   (`Commanded`, `AtAnnounced`), or the answer to it, after a hand-shake or not, and with the
   data that the host will read for this answer and for no other (`Answering`, `Carries`): this is why
   nothing is left when the answer is a refusal, and why `machine.stream` and the pending
   reset are those the answer on its way tells (`Says`). While it is `Aside`, SocketZero has the
   wires to itself and its `Lockstep` and `OpenAgrees` hold, so the lemmas of 2 and 3 are used
   for its steps; what is added is that a device that greets has just opened the socket (`Greeted`), and
   that a pending reset is one that this close will send (`WillReset`). The only way out of both is the crash of
   `m_javaloader.cc:346` (`Crashed`).

Assumptions used: all those of SocketZero but `DeviceAssumption`, and for the loader
`LoaderAssumption`, `EntriesAssumption` and `CommandsAssumption`. The proof found that two cases of the device's
`Replies` overlapped (`GET_SUBDIR` in a `Save`), of which TLA+ may choose
either and TLC takes the first; they are disjoint now.

`SocketPacket_proof` proves, for packets of any size, commands and answers of any length, and
any number of calls:

1. `TypeCorrect`: `TInv` adds to the types that a command in progress is that of the last call
   (`Called`), and that the packets that make commands whole are on their way in the order of the
   commands, each of one that the device has not answered (`Counted`).
2. `SequenceKeptAlways`: the hand-shakes on their way are numbered from the count
   of the host, with those it skipped, up to that of the device, in this order (`Kept`).
   This is inductive: the first of them is the one the host waits for.
3. `Refinement`: `Spec => ImplementsRequestReply`. A `Return` needs to know that what the call has put
   together is the answer the device gave to this very command. Three things hold
   whatever fails: a packet of a confusing size has its size before it (`Sized`), every unit on its
   way up is one of an answer and a fragment is followed by the next (`Numerals`, `Linked`), and what the
   host has put together is a part of one answer, whose rest comes first (`Held`). Until the first call fails
   (`Unfailed`), a call is either `Pending` - the fragments on the way bring what
   the device has put together to where the host is in the command (`Underway`) - or
   `Answered` - the device has carried out all that was asked, and the first packet that is no noise goes on
   from what the host has. Afterwards late answers may be taken for others,
   but `RequestReply` allows for that once a call has failed.

Assumptions used: `FullAssumption`, `LengthsAssumption`, `BoundsAssumption`.

`IpModem_proof` proves, for any number of tries, prompts, data packets and calls:

1. `TypeCorrect`: `TInv` adds when the thread may run and when the object is gone (`Control`), and
   that the numbers heard, in hand and on their way have been sent (`Numbered`).
2. `SerialDataAlways`: what the callback has heard, what the thread has in hand
   and what is ahead is one rising sequence, and with what was dropped it is all that was
   sent (`Stream`). What was dropped is what `Open` and `Close` have read themselves. That the first
   `Open` drops at most the first packet, the answer to AT, and nobody any more before
   `Close`, needs `Started`: the
   device sends nothing before it is asked for the modem. Nothing is said of the thread after a
   call that was left by an exception: the code leaves it running (section 6).
3. `TriesSparedAlways`, as long as no answer was late. `Open` reads until something it knows comes, so
   the invariant follows the dialogue: while the device has a prompt left, each
   step of `Open` finds on the wires its own command or the answer to it (`Lockstep`);
   when it has none, no request and no password is under way (`Content`). `Counted` is what that is good for: at most
   one password is on its way, and it left with as many tries as there were when `Open` began, and
   with enough of them unless the request it answers said otherwise (`sloppy`). That one
   `Open` costs one try at most does not need this exemption, the limit does.
4. `FramedAlways`, for texts of any length over any bytes, cut into buffers anyhow. `Filter`,
   `HearAll` and `Plain` are recursive functions over the beginnings of a sequence.
   `FoldExists` shows that such a function exists, `FoldAppend` what one element more does to it;
   then `FilterFaithful` finds, by induction over the bytes that the filter has read, that
   its output is the same text, that it fits (twice its length is at most three times the
   bytes read, and one more inside a frame), and that a receiver in step with the filter
   stays so. The induction theorems of the library take an operator, so `Inductive` takes a
   set, and finds the least counterexample with `WFMin`. The invariant `Frame` says that
   receiver and filter are in step as long as no `Write` has failed; after one that has,
   nothing is written until the object is gone.

Assumption used: `IpModemAssumption`.

`DebugServer_proof` proves, for any debuggers, messages, threads and modules:

1. `TypeCorrect`: a server that runs has a debugger and an open socket. A command on a closed
   socket is what could go wrong, so `TInv` says which commands each part of the server
   may still have before it (`Form`): in an attachment each `Close` comes before an `Open`
   (`Attaching`), a Resume ends in `Go` and a Suspend in `Stop` (`Leading`), a list of threads has pairs of questions
   (`Threading`). `Place` says in which command a call may be where.
2. `InStepAlways`: as long as nothing went wrong outside the server, the program does
   not end and every answer is read by the call that asked for it. `Wires` says for each
   place of a call what is on the wires: its own command, or the answer with or without
   its hand-shake, or what is left of it; between calls nothing, but for a late status while one is
   waited for. `Full` describes the answers. `Agree` says that the server knows whether the
   machine runs, except between asking for a change and answering the debugger, where it is
   what was asked for that decides once the last command has been answered
   (`Decided`).

Assumptions used: `DebuggersAssumption`, `BoundsAssumption`. The proof found that two cases of the
device's `Answers` overlapped (`Unknown11` and the commands about a thread), of which
TLA+ may choose either and TLC takes the first; they are disjoint now.

Only model-checked:

* liveness (`TimedWaitReturns`, `DestructorsReturn`, `CallReturns`, `OperationEnds`, `Serves`)
  and `ENABLED`, which are outside the prover's reach;
* `OpenedAtDevice` of SocketZero after more than 85 calls (see there).

## 6. Disagreements between the code and its comments

Each has a run in which TLC finds the behaviour.

* **queue_wakeup** - `dataqueue.cc:130`. `wait_pop` without a time-out releases
  `m_accessMutex` after finding nothing and then waits without looking again. A
  `push` in between broadcasts to nobody; the caller sleeps beside the message
  until another `push`. The comment says it "waits until one exists if empty".
* **zero_tries** - `socket.cc:478`. When the answer to a password times out,
  `m_halfOpen` and `m_remainingTries` stay as they were. The next attempt passes
  the guard on the old count, though the device has fewer than three tries left.

Met while modelling, without a run of their own (most have no comment or test to
hold them against):

Router, sockets and queues:

* `router.cc:118`: `ClearUsbDevice` waits on a condition variable with no predicate,
  so a spurious wakeup lets it return during a read of the device that is then
  closed. `NoReadAfterClose` is checked and proved without spurious wakeups.
* `socket.cc:542`: `Close` fills in the close flag, and `Send` overwrites it with the
  running sequence. They agree as long as one Mode was selected; with two open, the
  first is closed with the wrong flag.
* `controller.cc:233`: a number that the handheld has handed out but not opened yet (after a wrong
  password) may be handed to a second Mode as well, as the model's handheld may do; opened by
  one and closed by the other, it is gone for both. `zero_session` therefore has one Mode.
* `socket.cc:579`: if the reset reply (or the answer after the hand-shake) never
  comes, `Close` is left by an exception without `ForceClosed`, and a later `Close`
  closes a socket that is closed already. `zero_session`, which has no time-outs, shows that
  there is no other way to close one twice.
* `dataqueue.cc:154`: woken by a broadcast, but beaten to the message, a timed
  `wait_pop` returns null with time left, although the comment at line 102 keeps
  null for "still no data on timeout".
* `controller.cc:223`: in Desktop mode `modepack` points into the buffer that the
  extra read overwrites, so the number returned is taken from the second packet.
  The model lets it be right or wrong.
* `m_mode_base.cc:70`: `Open` keeps `m_ModeSocket` when it fails after
  `SelectMode`, and the next `Open` calls `Close` through a null `m_socket`. The
  model ends such a call in the state `crashed`.
* `socket.cc:935`: hand-shakes read after a fragment that is not the last are not
  shown to `CheckSequence`, so the host's count lags behind the device's from the
  first fragmented command on. Hidden hand-shakes hide it, because on socket 0 a
  mismatch is only logged; the next visible one, in the middle of an innocent
  call with data, ends that call as "out of sequence". `SequenceKept` says that
  there is no other cause.
* `socket.cc:1036`: an exception in a call that made hand-shakes visible leaves
  them so for the calls after it.
* `socket.cc:1022`: a call after one that timed out may be given its late answer
  (`RequestReply` excludes that only while no call has failed).

JavaLoader (`m_javaloader.cc`):

* `m_mode_base.cc:69`: opening a loader that is open closes its socket without a goodbye and
  leaves `m_StreamStarted` true, so that `~JavaLoader` later says goodbye on a stream the device does not
  have. The model opens again only when the stream is stopped, as the comment at `:464` asks.
* `m_javaloader.cc:368-380`: a device that accepts the hello and refuses the command after it leaves
  `m_StreamStarted` false, so that nobody says goodbye.
* `m_javaloader.cc:346`: an exception of `StopStream` leaves the destructor: the program
  ends, or with an old compiler the socket is closed all the same. The model has both.
* `socket.cc:574`: nothing clears `m_resetOnClose`; every later close of the Controller
  resets the device again. So does the model.
* `m_javaloader.cc:884-889`: `Save` reads the list of siblings even if its announced size is 0. The
  device of the model always names one, the module itself.

OpenSync (`opensync-plugin/src`). The model has all of these behaviours; where a property
has to exempt one, it says so.

* `linberry_sync.cc:234`: a record edited between `GetChanges` and `FinishSync` has its dirty
  flag cleared unreported. `NoLostEdit`, `UidKept`, `OneRecordPerId` and `Converges` exempt
  records edited in that window (`raced`), and nothing else.
* `environment.cc:109`: a record deleted in the window loses its mapping in `CleanupMap`, but
  stays in the saved cache: the deletion is reported next time under a made-up uid.
* `environment.cc:104-111`: `CleanupMap` erases an iterator and then steps it. The model lets
  any non-empty part of the stale pairs be removed.
* `linberry_sync.cc:219-227`: the cache is saved before the map; a write cut short between or in
  them (`torn`) leaves files that do not fit each other. `IdMapOneToOne` and `NoLostEdit` hold even then.
* `linberry_sync.cc:180-185`: the cache in memory is overwritten before the changes are
  committed. A session that follows a failed one in the same process no longer knows of the
  deletions that the failed one was to report (`memory`). Edits are not lost: their flags are still set.
* A record that the host added in a session that failed later is reported as new in the
  next one, under a uid of its own if the map was not saved; and if it was deleted on
  the device meanwhile, the deletion is never reported.
* `linberry_sync.cc:413-417`: an item with a blank uid makes the search for a free id loop
  for ever, because `Map` refuses the uid whatever the id (`CommitHangs`).
* `vevent.cc:536-547`, `vcard.cc:655`, `linberry_sync.cc:452`: an item added under an id that is in the table is
  written under another new id, but cache and map keep the first one. The table is that of the
  begin of the session, so this happens to an item whose uid is the number of a record just deleted by
  `commit_change`: from then on it is known under an id its record does not have, and the next
  new id may be that of its record (`renumbered`).
* `environment.cc:120`, `linberry_sync.cc:135`: after a slow session, which empties the map, the item with uid
  "calendar-7" may be mapped to another record than 7. Where id 7 is then used again by
  an item whose mapping was not saved, `Map2Uid` makes up the same uid for it; `Map` refuses
  the pair and nobody looks, so that two records are reported under one uid (`clash`).

Backup (`src/linberrylibs/gui/src`):

* `DeviceIface.cc:105`: `Close` of the tar file is outside of every try block; an exception
  in the worker ends the program.
* `m_desktop.cc:403-412`, `BackupWindow.cc:417-423`: `LoadDatabase` ends at whatever `DB_DONE`
  comes, with records missing or not, and the backup ends as if it were whole. The comment says
  "in some cases, not all records are backed up" and "here we need to warn the user that not all
  data was included in the backup", but the comparison of `finished` with `total` above it is
  commented out and nobody is warned (the same at `:435-441` for a restore). In the model
  `loaded` may come at any record; `short` has the databases of which it came early, and
  `BackupWhole` asks of those only that what is in the file is theirs, each record once. Without
  that exemption TLC finds a short backup that nobody is told of.
* `DeviceIface.cc:133-140`: errors of a restore are not shown, the emission is commented out.
  A restore that failed for a database ends like one that did not; `RestoredWhole`
  therefore asks for the databases without an error only.
* A name that the handheld does not know aborts a whole backup, but is only skipped in
  a restore. `SkipCurrentDB` takes an error of the tar file for its end.
* A tar file in which the records of a database are not together would have that
  database cleared a second time, and what was just restored lost. Files written by this
  program are grouped.
* `on_thread_error` makes the Thread idle before the worker is through, and `Invalidate`
  writes its four fields without a lock, so that an operation may begin while the last
  one is ending (`hasty`): its dispatchers can be taken away, its progress be
  counted wrongly.
* A handheld that works is disconnected when the user insists (`confirmed`), which
  deletes `m_desktop` under the worker.
* The first `Retrieve` of a restore is made by the main loop; its exception ends the
  program.

IpModem:

* `m_ipmodem.cc:286-291` and `:320-330`: a password is sent in answer to a second or third
  prompt without a look at the tries left, which the first prompt gets with the message "Refusing to
  proceed, to avoid device zapping itself" (`:256`). `TriesSpared` exempts answers that came too
  late (`late`), and from its limit, not from the one try that an `Open` may cost, requests that say too few
  are left and are obeyed all the same (`sloppy`). That is just what the code does there.
* `:281`: the switch looks at the answer to start, read before the session key was written.
* A null answer followed by a time-out in `SendPassword` is reported as an unknown packet.
  The second packet of the answer to AT is dropped, whatever it is.
* `:416`: `Close` reads while the thread reads (`:169`); each may take what was meant for
  the other. `SerialData` counts as lost what `Close` or `Open` takes.
* An exception in `Close` leaves the thread running, and the destructor swallows its
  own: the thread goes on with a destroyed object. `SerialData` speaks of calls that
  returned.
* A `Write` that throws has advanced the filter; neither `m_filter` nor `m_session_key`
  is ever reset, so that an object opened a second time would begin within a frame and with the old
  key.
* A data packet that ends in the special flag is dropped by the thread.

Debug server:

* `j_server.cc:172-193`: the accept thread has no try block: one read that fails or times out, on
  either side, ends the program.
* `j_server.cc:313-345`: requests are carried out while the machine owes a status. If the
  status arrives in between it is taken for an answer, and every answer after it for the
  next one's, until one is too short or `Close` finds it. Suspend alone ends the wait.
* `j_server.cc:303-312`: while there is output on the console, or the status is given at once, `Run`
  does not look at the debugger.
* `j_jdwp.cc:77-105`: the end of a connection reads like no message. A debugger that goes
  away without Dispose leaves the server polling its descriptor for ever, and the next is never
  accepted. A write to one that has gone raises SIGPIPE.
* `j_server.cc:260-290`: a greeting that fails leaks the descriptor and leaves the
  handheld open; the next session closes it.
* Messages that arrive together are dropped without an answer (`j_server.cc:323-329`, `:348-354`),
  and Dispose leaves a running machine running.
* `j_server.cc:390-431`: the lists of modules and classes are never emptied. From the second session on
  the comment at `:618`, "Should be equal to visibleClassList[i].index", does not hold. The
  lists are not in the model.

## 7. What is not modelled, and the plan

Not modelled, and not worth a model: the USB wrapper and the probe (I/O; they appear as packet,
time-out, error), the Data buffer, the packet builders and the record parsers, `vformat.c` (bytes without
control), command line tools, the RealBasic program (a binary project) and the
vendored `bbtether`.

Not modelled yet: `NextRecord` of the packet
layer and its reads through the router; Serial mode; time-outs in a session of the JavaLoader, and `cod.cc`, which cuts COD files (layout); of the
JDWP server the lists of modules and classes, a refused password, `Start` and `Stop`; passwords, device scanning and configuration in the backup
GUI; several databases at once in an OpenSync session. `SocketZero` stands for the direct
mode without a router.

How much of the code the models stand for: `src/linberrylibs/linberry` is a byte-identical copy of
`src/linberrylibs/src`, and the models are mapped to the latter; `opensync-plugin-0.4x`
repeats the parsers of `opensync-plugin`, and its `linberry_sync.cc` leaves cache and
uids to a hash table of OpenSync's. Together with the parsers, `vformat.c` and the tools
that is by far the larger part of the lines.

Done, in the order in which it was built: `FifoQueue`, `DataQueue`, `RoutingQueue` and their
proofs, `SocketZero` and its proof, `SocketPacket`, `OpenSync` and its proof, `Backup` and its proof, `PppFilter` and `IpModem`,
`DebugServer`, `RequestReply`, `JavaLoader`; the proofs of `IpModem`, `SocketPacket` and `DebugServer`,
that of `RestoredWhole` in `Backup_proof`, those of `UidKept` and `Converges` in `OpenSync_proof`, and those of `OpenedAtDevice` and of `JavaLoader` in `SocketZero_proof`.

What would add most next:

1. `SerialMode` - handlers, unregistering and destruction over RoutingQueue: no
   callback into a destroyed object.
2. Time-outs in a session of the JavaLoader: `SequenceKept` and `ImplementsRequestReply` say what they do to a single call.
3. SocketZero *over* the router, where another thread clears the device.
