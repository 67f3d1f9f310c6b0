------------------------------- MODULE Backup -------------------------------
(***************************************************************************)
(* Backup and restore of one handheld in the GUI (gui/src): the worker     *)
(* threads of DeviceIface.cc, which run LoadDatabase and SaveDatabase of   *)
(* m_desktop.cc against a tar file, and the main loop with Thread.cc and   *)
(* the handlers of BackupWindow.cc.  The two sides share m_AppComm and the *)
(* connection, and the worker talks to the main loop through dispatchers,  *)
(* which are one queue of signals.                                         *)
(*                                                                         *)
(* A record is a number, a file a sequence of records with the database    *)
(* they belong to.  RestoreAndBackup, which Thread refuses, and QuitThread,*)
(* which nobody calls, are left out.  before, failed, short, hasty and     *)
(* confirmed are history.                                                  *)
(***************************************************************************)
EXTENDS Naturals, Sequences, FiniteSets

CONSTANTS
  Databases,    \* names of databases
  OnDevice,     \* those in the database database of the handheld
  RecordIds,
  Contents,     \* what the handheld may hold in the beginning
  Lists,        \* the selections the user makes: sequences of names
  Files,        \* the tar files at hand in the beginning
  NoDatabase,   \* m_current_dbname before the first record
  MaxOps,       \* bound on the operations started
  MaxSignals    \* bound on the signals emitted and not handled

ASSUME DatabasesAssumption == OnDevice \subseteq Databases /\ NoDatabase \notin Databases
ASSUME RecordsAssumption == IsFiniteSet(RecordIds) /\ Contents \subseteq [OnDevice -> SUBSET RecordIds]
ASSUME ListsAssumption == Lists \subseteq Seq(Databases)
ASSUME FilesAssumption == Files \subseteq Seq([db : Databases, id : RecordIds])
ASSUME BoundsAssumption == MaxOps \in Nat /\ MaxSignals \in Nat \ {0}

VARIABLES
  device,     \* the databases of the handheld
  file,       \* the tar file: its records, and is it torn in one after them
  worker,     \* the thread: where it is, names left of m_dbList, records left
              \* of LoadDatabase, error
  tar,        \* the reader: m_dbList, m_current_dbname, rest of m_tar, the
              \* record in hand, m_tar_record_loaded, m_end_of_tar
  comm,       \* m_AppComm
  zeroing,    \* a thread that is through is still writing to m_AppComm
  signals,    \* emitted and not handled
  gui,        \* Thread: m_thread_state as idle and op, m_connected, m_active,
              \* m_recordFinished, m_finished_marker; is the handheld selected
              \* in the window, is the message of an error still open
  program,    \* running, over, aborted by an exception, or crashed
  before,     \* the handheld when the operation began
  chosen,     \* the databases it was for
  failed,     \* those of them with an error in a restore
  short,      \* those whose load ended with records left
  told,       \* it has signalled an error
  hasty,      \* an operation began before the last one was through
  confirmed,  \* the user disconnected from a working handheld
  ops

operation == <<before, chosen, short, hasty, confirmed, ops>>
vars == <<device, file, worker, tar, comm, zeroing, signals, gui, program, failed, told, operation>>

Record == [db : Databases, id : RecordIds]
Entry(d, r) == [db |-> d, id |-> r]
Elements(s) == {s[i] : i \in 1..Len(s)}
InFile(d) == {e.id : e \in {f \in Elements(file.records) : f.db = d}}

NoTar == [list |-> {}, current |-> NoDatabase, rest |-> << >>, hand |-> 0, loaded |-> FALSE, end |-> FALSE]
NoWorker == [pc |-> "none", op |-> "none", list |-> << >>, todo |-> {}, error |-> FALSE]

Init ==
  /\ device \in Contents
  /\ file \in [records : Files, torn : {FALSE}]
  /\ worker = NoWorker /\ tar = NoTar
  /\ comm = "invalid" /\ zeroing = FALSE
  /\ signals = << >>
  /\ gui \in [idle : {TRUE}, op : {"none"}, connected : {FALSE}, selected : {FALSE},
              active : BOOLEAN, finished : {0}, marker : {FALSE}, message : {FALSE}]
  /\ program = "running"
  /\ before = device /\ chosen = {} /\ failed = {} /\ short = {} /\ told = FALSE /\ ops = 0
  /\ hasty = FALSE /\ confirmed = FALSE

Working == ~gui.idle
Goto(pc) == worker' = [worker EXCEPT !.pc = pc]

-----------------------------------------------------------------------------
(* Reading the tar file.                                                   *)

Wanted(t, i) == t.rest[i].db = t.current \/ t.rest[i].db \in t.list

Reached(t, i) ==
  [t EXCEPT !.rest = SubSeq(t.rest, i + 1, Len(t.rest)), !.hand = t.rest[i].id,
            !.loaded = TRUE, !.current = t.rest[i].db]

AtEnd(t) == [t EXCEPT !.rest = << >>, !.end = TRUE]

FirstOf(S, i) == i \in S /\ \A j \in S : i <= j

WantedPlaces(t) == {i \in 1..Len(t.rest) : Wanted(t, i)}

\* The first wanted record, and ok if it is of the current database; a record
\* of another one makes that the current database and stays loaded.
Reads(t, ok, t2) ==
  \/ \E i \in 1..Len(t.rest) :
       /\ FirstOf(WantedPlaces(t), i)
       /\ ok = (t.current \in {NoDatabase, t.rest[i].db})
       /\ t2 = Reached(t, i)
  \/ WantedPlaces(t) = {} /\ ~ok /\ t2 = AtEnd(t)

\* Retrieve: is there one more record of the current database?
Retrieve_reads_on(t, ok, t2) ==
  \/ t.end /\ ~ok /\ t2 = t
  \/ ~t.end /\ Reads(t, ok, t2)

Retrieve(t, ok, t2) ==
  \/ t.end /\ ~ok /\ t2 = t
  \/ ~t.end /\ t.loaded /\ ok /\ t2 = t
  \/ ~t.end /\ ~t.loaded /\ Reads(t, ok, t2)

\* A TarError out of Retrieve: the file ends within a record.
TarError(t) == file.torn /\ ~t.end /\ ~t.loaded /\ WantedPlaces(t) = {}

\* SkipCurrentDB drops what is left of the current database; it takes a
\* TarError for the end of the file.
OtherPlaces(t) == {i \in WantedPlaces(t) : t.rest[i].db # t.current}

SkipCurrentDB_keeps_hand(t, t2) ==
  \/ t.loaded /\ t2 = t
  \/ ~t.loaded /\ OtherPlaces(t) = {} /\ t2 = AtEnd(t)
  \/ ~t.loaded /\ \E i \in OtherPlaces(t) : FirstOf(OtherPlaces(t), i) /\ t2 = Reached(t, i)

SkipCurrentDB(t, t2) ==
  \/ OtherPlaces(t) = {} /\ t2 = AtEnd([t EXCEPT !.loaded = FALSE])
  \/ \E i \in OtherPlaces(t) : FirstOf(OtherPlaces(t), i) /\ t2 = Reached(t, i)

-----------------------------------------------------------------------------
(* The worker: what BackupThread and RestoreThread share.                  *)

Runs(pc, op) == program = "running" /\ worker.pc = pc /\ worker.op \in op
Either == {"backup", "restore"}

Stop(why) == program' = why /\ UNCHANGED <<device, file, worker, tar, comm, zeroing, signals, gui, failed, told, operation>>

\* m_desktop has been deleted under the worker, or a dispatcher is null.
crashes ==
  /\ program = "running"
  /\ \/ worker.pc \in {"loading", "clearing", "saving"} /\ ~gui.connected
     \/ worker.pc = "next" /\ ~gui.connected /\ (worker.list # << >> \/ (worker.op = "restore" /\ ~tar.end))
     \/ worker.pc \in {"loading", "clearing", "saving", "error", "done"} /\ comm # "valid"
  /\ Stop("crashed")

Sound(pc, op) == Runs(pc, op) /\ gui.connected /\ comm = "valid"

Emit(signal) == Len(signals) < MaxSignals /\ signals' = Append(signals, signal)

\* An exception out of Close is outside of every try block and ends the
\* program.  Reading, it can only be that the file is torn.
close_throws ==
  /\ Runs("closing", Either)
  /\ worker.op = "restore" => file.torn
  /\ Stop("aborted")

Closed_forgets_error == Goto("done")

Closed == Goto(IF worker.error THEN "error" ELSE "done")

close_tar ==
  /\ Runs("closing", Either)
  /\ Closed
  /\ UNCHANGED <<device, file, tar, comm, zeroing, signals, gui, program, failed, told, operation>>

emit_error ==
  /\ Runs("error", Either) /\ comm = "valid"
  /\ Emit("error") /\ Goto("done")
  /\ told' = TRUE
  /\ UNCHANGED <<device, file, tar, comm, zeroing, gui, program, failed, operation>>

emit_done ==
  /\ Runs("done", Either) /\ comm = "valid"
  /\ Emit("done") /\ Goto("invalidate")
  /\ UNCHANGED <<device, file, tar, comm, zeroing, gui, program, failed, told, operation>>

\* AppComm::Invalidate writes four fields without a lock; IsValid is false
\* from the first one on.
Invalidate ==
  /\ Runs("invalidate", Either)
  /\ comm' = "invalid" /\ zeroing' = TRUE
  /\ worker' = NoWorker
  /\ UNCHANGED <<device, file, tar, signals, gui, program, failed, told, operation>>

invalidated ==
  /\ program = "running" /\ zeroing
  /\ zeroing' = FALSE
  /\ \E lost \in BOOLEAN : comm' = IF lost THEN "invalid" ELSE comm
  /\ UNCHANGED <<device, file, worker, tar, signals, gui, program, failed, told, operation>>

-----------------------------------------------------------------------------
(* BackupThread.                                                           *)

\* The name goes to GetDBID, which throws for one the handheld does not have.
backup_next ==
  /\ Runs("next", {"backup"})
  /\ IF worker.list = << >> THEN Goto("closing")
     ELSE gui.connected /\ IF Head(worker.list) \notin OnDevice
       THEN worker' = [worker EXCEPT !.pc = "closing", !.error = TRUE]
     ELSE worker' = [worker EXCEPT !.pc = "loading", !.todo = device[Head(worker.list)]]
  /\ UNCHANGED <<device, file, tar, comm, zeroing, signals, gui, program, failed, told, operation>>

Store(r) ==
  /\ Sound("loading", {"backup"}) /\ r \in worker.todo
  /\ file' = [file EXCEPT !.records = Append(@, Entry(Head(worker.list), r))]
  /\ worker' = [worker EXCEPT !.todo = @ \ {r}]
  /\ Emit("progress")
  /\ UNCHANGED <<device, tar, comm, zeroing, gui, program, failed, told, operation>>

\* LoadDatabase is through at whatever DB_DONE comes, and passes over an answer
\* that is not DB_DATA: the records left are missing, which nobody notices.
loaded ==
  /\ Sound("loading", {"backup"})
  /\ worker' = [worker EXCEPT !.pc = "next", !.list = Tail(@), !.todo = {}]
  /\ short' = short \cup {d \in {Head(worker.list)} : worker.todo # {}}
  /\ UNCHANGED <<device, file, tar, comm, zeroing, signals, gui, program, failed, told, before, chosen, hasty, confirmed, ops>>

\* The protocol fails, or the file cannot be written.
backup_fails ==
  /\ Sound("loading", {"backup"})
  /\ \E torn \in BOOLEAN : file' = [file EXCEPT !.torn = torn]
  /\ worker' = [worker EXCEPT !.pc = "closing", !.error = TRUE]
  /\ UNCHANGED <<device, tar, comm, zeroing, signals, gui, program, failed, told, operation>>

-----------------------------------------------------------------------------
(* RestoreThread and SaveDatabase.                                         *)

Skip ==
  /\ Goto("next")
  /\ SkipCurrentDB(tar, tar')
  /\ failed' = failed \cup {tar.current}

restore_next ==
  /\ Runs("next", {"restore"})
  /\ IF tar.end THEN Goto("closing") /\ UNCHANGED <<tar, failed>>
     ELSE gui.connected /\ IF tar.current \notin OnDevice THEN Skip
     ELSE Goto("clearing") /\ UNCHANGED <<tar, failed>>
  /\ UNCHANGED <<device, file, comm, zeroing, signals, gui, program, told, operation>>

ClearDatabase ==
  /\ Sound("clearing", {"restore"})
  /\ device' = [device EXCEPT ![tar.current] = {}]
  /\ Goto("saving")
  /\ UNCHANGED <<file, tar, comm, zeroing, signals, gui, program, failed, told, operation>>

\* An error or a time-out; the handheld may have done it all the same.
ClearDatabase_fails ==
  /\ Sound("clearing", {"restore"})
  /\ \E kept \in SUBSET device[tar.current] :
       /\ kept \in {{}, device[tar.current]}
       /\ device' = [device EXCEPT ![tar.current] = kept]
  /\ Skip
  /\ UNCHANGED <<file, comm, zeroing, signals, gui, program, told, operation>>

\* Retrieve, BuildFields and the exchange with the handheld.
SetRecord ==
  /\ Sound("saving", {"restore"}) /\ UNCHANGED worker
  /\ \E t \in {tar} \cup {Reached(tar, i) : i \in 1..Len(tar.rest)} :
       /\ Retrieve(tar, TRUE, t)
       /\ tar' = [t EXCEPT !.loaded = FALSE]
       /\ device' = [device EXCEPT ![t.current] = @ \cup {t.hand}]
  /\ Emit("progress")
  /\ UNCHANGED <<file, comm, zeroing, gui, program, failed, told, operation>>

SetRecord_fails ==
  /\ Sound("saving", {"restore"}) /\ Goto("next")
  /\ \E t \in {tar} \cup {Reached(tar, i) : i \in 1..Len(tar.rest)}, done \in BOOLEAN :
       /\ Retrieve(tar, TRUE, t)
       /\ SkipCurrentDB([t EXCEPT !.loaded = FALSE], tar')
       /\ device' = IF done THEN [device EXCEPT ![t.current] = @ \cup {t.hand}] ELSE device
       /\ failed' = failed \cup {t.current}
  /\ Emit("progress")
  /\ UNCHANGED <<file, comm, zeroing, gui, program, told, operation>>

saved ==
  /\ Sound("saving", {"restore"}) /\ Goto("next")
  /\ \E t \in {tar, AtEnd(tar)} \cup {Reached(tar, i) : i \in 1..Len(tar.rest)} :
       Retrieve(tar, FALSE, t) /\ tar' = t
  /\ UNCHANGED <<device, file, comm, zeroing, signals, gui, program, failed, told, operation>>

\* A TarError is no Linberry::Error: it ends the restore.
restore_fails ==
  /\ Sound("saving", {"restore"}) /\ Goto("closing")
  /\ TarError(tar)
  /\ failed' = failed \cup {tar.current}
  /\ Emit("error")
  /\ told' = TRUE
  /\ UNCHANGED <<device, file, tar, comm, zeroing, gui, program, operation>>

Worker ==
  \/ crashes \/ close_throws \/ close_tar \/ emit_error \/ emit_done \/ Invalidate \/ invalidated
  \/ backup_next \/ (\E r \in RecordIds : Store(r)) \/ loaded \/ backup_fails
  \/ restore_next \/ ClearDatabase \/ ClearDatabase_fails \/ SetRecord \/ SetRecord_fails
  \/ saved \/ restore_fails

-----------------------------------------------------------------------------
(* The main loop: Thread's handlers of the signals.                        *)

Handles(signal) ==
  /\ program = "running" /\ signals # << >> /\ Head(signals) = signal
  /\ signals' = Tail(signals)

on_thread_progress ==
  /\ Handles("progress")
  /\ gui' = [gui EXCEPT !.finished = @ + 1]
  /\ UNCHANGED <<device, file, worker, tar, comm, zeroing, program, failed, told, operation>>

\* The message runs a main loop of its own, in which the window is dead but
\* signals are handled.
on_thread_error ==
  /\ Handles("error")
  /\ gui' = [gui EXCEPT !.idle = TRUE, !.message = TRUE]
  /\ UNCHANGED <<device, file, worker, tar, comm, zeroing, program, failed, told, operation>>

message_closed ==
  /\ program = "running" /\ gui.message
  /\ gui' = [gui EXCEPT !.message = FALSE]
  /\ UNCHANGED <<device, file, worker, tar, comm, zeroing, signals, program, failed, told, operation>>

on_thread_done_stays ==
  /\ Handles("done")
  /\ gui' = [gui EXCEPT !.idle = TRUE, !.marker = TRUE]
  /\ UNCHANGED <<device, file, worker, tar, comm, zeroing, program, failed, told, operation>>

on_thread_done ==
  /\ Handles("done")
  /\ gui' = [gui EXCEPT !.idle = TRUE, !.marker = TRUE, !.connected = @ /\ gui.active]
  /\ UNCHANGED <<device, file, worker, tar, comm, zeroing, program, failed, told, operation>>

\* After an operation the program closes, unless another handheld is working.
treeview_update ==
  /\ program = "running" /\ gui.marker
  /\ gui' = [gui EXCEPT !.marker = FALSE]
  /\ program' = "running" \/ (~Working /\ gui.op # "none" /\ program' = "over")
  /\ UNCHANGED <<device, file, worker, tar, comm, zeroing, signals, failed, told, operation>>

-----------------------------------------------------------------------------
(* The user.                                                               *)

User == program = "running" /\ ~gui.message

Started(op, g) == [g EXCEPT !.idle = FALSE, !.op = op, !.finished = 0]

\* Thread::Backup and Restore up to the new thread; g is the Thread so far.
Start(op, list, g) ==
  /\ ~Working /\ comm = "invalid" /\ ops < MaxOps
  /\ gui' = Started(op, g)
  /\ comm' = "valid"
  /\ before' = device /\ chosen' = Elements(list) /\ failed' = {} /\ short' = {} /\ told' = FALSE
  /\ hasty' = (hasty \/ zeroing \/ "done" \in Elements(signals))
  /\ ops' = ops + 1
  /\ UNCHANGED <<device, zeroing, signals, program, confirmed>>

StartBackup(list, g) ==
  /\ Start("backup", list, g)
  /\ file' = [records |-> << >>, torn |-> FALSE]
  /\ worker' = [NoWorker EXCEPT !.pc = "next", !.op = "backup", !.list = list]
  /\ UNCHANGED tar

StartRestore_reads_late(list, g) ==
  /\ Start("restore", list, g)
  /\ worker' = [NoWorker EXCEPT !.pc = "next", !.op = "restore"]
  /\ tar' = [NoTar EXCEPT !.list = Elements(list), !.rest = file.records]
  /\ UNCHANGED file

\* The first Retrieve is the main loop's.
StartRestore(list, g) ==
  /\ Start("restore", list, g)
  /\ worker' = [NoWorker EXCEPT !.pc = "next", !.op = "restore"]
  /\ LET t == [NoTar EXCEPT !.list = Elements(list), !.rest = file.records]
     IN  \E t2 \in {AtEnd(t)} \cup {Reached(t, i) : i \in 1..Len(t.rest)}, ok \in BOOLEAN :
           Retrieve(t, ok, t2) /\ tar' = t2
  /\ UNCHANGED file

\* Connect begins a backup of its own when it was not connected, and on_restore
\* then finds the handheld working.
on_backup(list) ==
  /\ User /\ gui.selected
  /\ StartBackup(list, [gui EXCEPT !.connected = TRUE])

on_restore(list) ==
  /\ User /\ gui.selected /\ gui.connected
  /\ StartRestore(list, gui)

\* The first Retrieve throws, and the exception goes through to main.
restore_throws(list) ==
  /\ User /\ gui.selected /\ gui.connected
  /\ ~Working /\ comm = "invalid" /\ file.torn
  /\ \A i \in 1..Len(file.records) : file.records[i].db \notin Elements(list)
  /\ Stop("aborted")

\* on_device_change to this handheld.
select_connects(list) ==
  /\ User /\ ~gui.selected /\ ~gui.connected
  /\ StartBackup(list, [gui EXCEPT !.selected = TRUE, !.connected = TRUE, !.active = TRUE])

select ==
  /\ User /\ ~gui.selected
  /\ \E connected \in BOOLEAN :
       /\ gui.connected => connected
       /\ gui' = [gui EXCEPT !.selected = TRUE, !.connected = connected, !.active = @ \/ connected]
  /\ UNCHANGED <<device, file, worker, tar, comm, zeroing, signals, program, failed, told, operation>>

\* on_device_change to another one: UnsetActive.
UnsetActive_disconnects ==
  /\ User /\ gui.selected
  /\ gui' = [gui EXCEPT !.selected = FALSE, !.active = FALSE, !.connected = FALSE]
  /\ UNCHANGED <<device, file, worker, tar, comm, zeroing, signals, program, failed, told, operation>>

UnsetActive ==
  /\ User /\ gui.selected
  /\ gui' = [gui EXCEPT !.selected = FALSE, !.active = FALSE, !.connected = @ /\ Working]
  /\ UNCHANGED <<device, file, worker, tar, comm, zeroing, signals, program, failed, told, operation>>

\* A handheld that works is disconnected when the user insists.
on_disconnect ==
  /\ User /\ gui.selected /\ gui.connected
  /\ gui' = [gui EXCEPT !.connected = FALSE]
  /\ confirmed' = (confirmed \/ Working)
  /\ UNCHANGED <<device, file, worker, tar, comm, zeroing, signals, program, failed, told, before, chosen, short, hasty, ops>>

MainLoop == on_thread_progress \/ on_thread_error \/ on_thread_done

Next ==
  \/ Worker \/ MainLoop \/ message_closed \/ treeview_update
  \/ \E list \in Lists : on_backup(list) \/ on_restore(list) \/ restore_throws(list) \/ select_connects(list)
  \/ select \/ UnsetActive \/ on_disconnect

Spec == Init /\ [][Next]_vars

FairSpec == Spec /\ WF_vars(Worker) /\ WF_vars(MainLoop)

-----------------------------------------------------------------------------
(* Properties.                                                             *)

\* Types of the state.
TypeOK ==
  /\ device \in [OnDevice -> SUBSET RecordIds]
  /\ file \in [records : Seq(Record), torn : BOOLEAN]
  /\ worker \in [pc : {"none", "next", "loading", "clearing", "saving", "closing", "error", "done", "invalidate"},
                 op : {"none", "backup", "restore"}, list : Seq(Databases), todo : SUBSET RecordIds, error : BOOLEAN]
  /\ tar \in [list : SUBSET Databases, current : Databases \cup {NoDatabase}, rest : Seq(Record),
              hand : RecordIds \cup {0}, loaded : BOOLEAN, end : BOOLEAN]
  /\ comm \in {"valid", "invalid"} /\ zeroing \in BOOLEAN
  /\ signals \in Seq({"progress", "error", "done"})
  /\ gui \in [idle : BOOLEAN, op : {"none", "backup", "restore"}, connected : BOOLEAN, selected : BOOLEAN,
              active : BOOLEAN, finished : Nat, marker : BOOLEAN, message : BOOLEAN]
  /\ program \in {"running", "over", "aborted", "crashed"}
  /\ before \in [OnDevice -> SUBSET RecordIds] /\ chosen \subseteq Databases /\ failed \subseteq Databases
  /\ short \subseteq Databases /\ told \in BOOLEAN /\ hasty \in BOOLEAN /\ confirmed \in BOOLEAN /\ ops \in 0..MaxOps

Through(op) == worker.op = op /\ worker.pc \in {"done", "invalidate"}

\* A restore touches no database but those that are selected and in the file, and
\* what it writes to them is from the file.
RestoredOnly ==
  worker.op = "restore" =>
    \A d \in OnDevice :
      /\ d \notin chosen \/ InFile(d) = {} => device[d] = before[d]
      /\ device[d] = before[d] \/ device[d] \subseteq InFile(d)

\* It replaces each of them by all its records: also those that come after a
\* database with an error, which SkipCurrentDB has to find.
RestoredWhole ==
  /\ RestoredOnly
  /\ Through("restore") =>
       \A d \in OnDevice \cap (chosen \ failed) : InFile(d) # {} => device[d] = InFile(d)

\* A backup that has signalled no error has the databases it was for in its file,
\* no record twice and none of another database: every record, but where the
\* handheld ended the load with records left, which the comment in treeview_update
\* has seen, and of which the user is to be warned but is not.
BackupWhole ==
  Through("backup") /\ ~told =>
    /\ \A d \in chosen :
         d \in OnDevice /\ InFile(d) \subseteq device[d] /\ (d \in short \/ InFile(d) = device[d])
    /\ \A i, j \in 1..Len(file.records) : file.records[i] = file.records[j] => i = j
    /\ ~file.torn

\* The connection is not deleted under a worker, and no signal goes through a
\* dispatcher that has been taken away, as long as the user does not insist on
\* disconnecting and nothing begins before the last operation is through.
NotUnderWorker == program = "crashed" => hasty \/ confirmed

\* A handheld that is no longer selected does not stay connected once its
\* operation is over: done disconnects it if UnsetActive did not.
Released ==
  ~gui.selected /\ worker.pc = "none" /\ signals = << >> => ~gui.connected

\* Every operation ends, unless the program does.
OperationEnds == Working ~> (~Working \/ program # "running")
=============================================================================
