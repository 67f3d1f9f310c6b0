---------------------------- MODULE Backup_proof ----------------------------
\* Theorems about Backup, for any handheld, selections and files: types, that no
\* connection is deleted under a worker and none is kept too long, and what a
\* restore and a backup leave in the databases and in the file.
EXTENDS Backup, SequenceTheorems, TLAPS

Signals == {"progress", "error", "done"}
Pcs == {"none", "next", "loading", "clearing", "saving", "closing", "error", "done", "invalidate"}

\* The parts of TypeOK.
Ops == {"none", "backup", "restore"}
TarFiles == [records : Seq(Record), torn : BOOLEAN]
Workers == [pc : Pcs, op : Ops, list : Seq(Databases), todo : SUBSET RecordIds, error : BOOLEAN]
Readers == [list : SUBSET Databases, current : Databases \cup {NoDatabase}, rest : Seq(Record),
            hand : RecordIds \cup {0}, loaded : BOOLEAN, end : BOOLEAN]
Guis == [idle : BOOLEAN, op : Ops, connected : BOOLEAN, selected : BOOLEAN,
         active : BOOLEAN, finished : Nat, marker : BOOLEAN, message : BOOLEAN]
Devices == [OnDevice -> SUBSET RecordIds]

\* A reader with a record in hand has one.
Reader(t) == t \in Readers /\ (t.loaded => t.hand \in RecordIds)

\* What the types rest on: a worker that loads has a name to load, and one that
\* writes has a database of the handheld.
AtWork ==
  /\ worker.pc = "loading" => worker.list # << >>
  /\ worker.pc \in {"clearing", "saving"} => tar.current \in OnDevice
  /\ worker.op = "restore" /\ worker.pc = "next" => tar.end \/ tar.current \in Databases

Plain ==
  /\ comm \in {"valid", "invalid"} /\ zeroing \in BOOLEAN
  /\ program \in {"running", "over", "aborted", "crashed"}
  /\ told \in BOOLEAN

Operation ==
  /\ before \in Devices /\ chosen \subseteq Databases /\ short \subseteq Databases
  /\ hasty \in BOOLEAN /\ confirmed \in BOOLEAN /\ ops \in 0..MaxOps

TInv ==
  /\ device \in Devices /\ file \in TarFiles /\ worker \in Workers /\ Reader(tar)
  /\ signals \in Seq(Signals) /\ gui \in Guis /\ failed \subseteq Databases
  /\ Plain /\ Operation /\ AtWork

\* The parts make up the type invariant.
LEMMA TypeParts == TInv => TypeOK
  BY DEF TInv, Ops, TarFiles, Workers, Readers, Guis, Devices, Reader, Plain, Operation, TypeOK, Signals, Pcs

-----------------------------------------------------------------------------
\* Sequences: what appending and taking the head do to the elements.
LEMMA ElementsAppend ==
  ASSUME NEW S, NEW s \in Seq(S), NEW e \in S
  PROVE  Append(s, e) \in Seq(S) /\ Elements(Append(s, e)) = Elements(s) \cup {e}
         /\ Append(s, e) # << >> /\ Append(s, e)[Len(Append(s, e))] = e
  BY DEF Elements

\* What the first record wanted is, and what is left after it.
LEMMA TailElements ==
  ASSUME NEW S, NEW s \in Seq(S), s # << >>
  PROVE  /\ Tail(s) \in Seq(S) /\ Head(s) \in S
         /\ Elements(s) = Elements(Tail(s)) \cup {Head(s)}
         /\ Tail(s) # << >> => Tail(s)[Len(Tail(s))] = s[Len(s)]
<1>1. Tail(s) \in Seq(S) /\ Head(s) \in S /\ Len(Tail(s)) = Len(s) - 1 /\ Head(s) = s[1] /\ Len(s) \in Nat \ {0}
  BY HeadTailProperties, EmptySeq
<1>2. \A i \in 1..Len(s) - 1 : Tail(s)[i] = s[i + 1]
  BY <1>1, HeadTailProperties
<1>3. Elements(s) = Elements(Tail(s)) \cup {Head(s)}
  <2>1. ASSUME NEW i \in 1..Len(s)  PROVE  s[i] \in Elements(Tail(s)) \cup {Head(s)}
    <3>1. CASE i = 1  BY <3>1, <1>1
    <3>2. CASE i # 1
      <4>1. i - 1 \in 1..Len(s) - 1 /\ Tail(s)[i - 1] = s[i]  BY <3>2, <1>1, <1>2
      <4>. QED  BY <4>1, <1>1 DEF Elements
    <3>. QED  BY <3>1, <3>2
  <2>2. ASSUME NEW i \in 1..Len(Tail(s))  PROVE  Tail(s)[i] \in Elements(s)
    <3>1. i + 1 \in 1..Len(s) /\ Tail(s)[i] = s[i + 1]  BY <1>1, <1>2
    <3>. QED  BY <3>1 DEF Elements
  <2>3. Head(s) \in Elements(s)  BY <1>1 DEF Elements
  <2>. QED  BY <2>1, <2>2, <2>3 DEF Elements
<1>4. ASSUME Tail(s) # << >>  PROVE  Tail(s)[Len(Tail(s))] = s[Len(s)]
  <2>1. Len(Tail(s)) # 0  BY <1>1, <1>4, EmptySeq
  <2>. QED  BY <2>1, <1>1, <1>2
<1>. QED  BY <1>1, <1>3, <1>4
-----------------------------------------------------------------------------
\* Reading the tar file keeps the reader's type.
LEMMA ReachedReads ==
  ASSUME NEW t, Reader(t), NEW i \in 1..Len(t.rest)
  PROVE  Reader(Reached(t, i)) /\ Reached(t, i).current = t.rest[i].db /\ t.rest[i].db \in Databases
         /\ Reached(t, i).hand \in RecordIds
<1>1. t.rest \in Seq(Record)  BY DEF Reader, Readers
<1>2. t.rest[i] \in Record  BY <1>1
<1>3. SubSeq(t.rest, i + 1, Len(t.rest)) \in Seq(Record)  BY <1>1
<1>. QED  BY <1>2, <1>3 DEF Reader, Readers, Reached, Record

\* Retrieve that reaches the end of the file keeps the reader's type.
LEMMA EndReads ==
  ASSUME NEW t, Reader(t)
  PROVE  Reader(AtEnd(t)) /\ AtEnd(t).end
<1>1. << >> \in Seq(Record)  OBVIOUS
<1>2. AtEnd(t) \in Readers  BY <1>1 DEF Reader, Readers, AtEnd
<1>3. AtEnd(t).end /\ AtEnd(t).loaded = t.loaded /\ AtEnd(t).hand = t.hand
  BY DEF Reader, Readers, AtEnd
<1>. QED  BY <1>2, <1>3 DEF Reader

\* So does taking or dropping the record in hand.
LEMMA LoadedReads ==
  ASSUME NEW t, Reader(t)
  PROVE  Reader([t EXCEPT !.loaded = FALSE]) /\ [t EXCEPT !.loaded = FALSE].rest = t.rest
         /\ [t EXCEPT !.loaded = FALSE].current = t.current /\ [t EXCEPT !.loaded = FALSE].hand = t.hand
  BY DEF Reader, Readers

\* Retrieve that says yes stays in the current database and has a record in hand;
\* whatever it says, the file is at its end or a database is current.
LEMMA RetrieveReads ==
  ASSUME NEW t, Reader(t), NEW ok \in BOOLEAN, NEW t2, Retrieve(t, ok, t2)
  PROVE  /\ Reader(t2)
         /\ ok => t2.hand \in RecordIds /\ (t.current # NoDatabase => t2.current = t.current)
         /\ t2.end \/ t2.current \in Databases \/ (t2.current = t.current)
<1>1. CASE t.end /\ ~ok /\ t2 = t  BY <1>1
<1>2. CASE ~t.end /\ t.loaded /\ ok /\ t2 = t  BY <1>2 DEF Reader
<1>3. CASE ~t.end /\ ~t.loaded /\ Reads(t, ok, t2)
  <2>1. CASE WantedPlaces(t) = {} /\ ~ok /\ t2 = AtEnd(t)  BY <2>1, EndReads
  <2>2. CASE \E i \in 1..Len(t.rest) : (ok = (t.current \in {NoDatabase, t.rest[i].db})) /\ t2 = Reached(t, i)
    <3>1. PICK i \in 1..Len(t.rest) : (ok = (t.current \in {NoDatabase, t.rest[i].db})) /\ t2 = Reached(t, i)
      BY <2>2
    <3>2. Reader(t2) /\ t2.current = t.rest[i].db /\ t.rest[i].db \in Databases /\ t2.hand \in RecordIds
      BY <3>1, ReachedReads
    <3>. QED  BY <3>1, <3>2
  <2>. QED  BY <1>3, <2>1, <2>2 DEF Reads
<1>. QED  BY <1>1, <1>2, <1>3 DEF Retrieve

\* SkipCurrentDB leaves a reader that has a database, or is at the end.
LEMMA SkipReads ==
  ASSUME NEW t, Reader(t), NEW t2, SkipCurrentDB(t, t2)
  PROVE  Reader(t2) /\ (t2.end \/ t2.current \in Databases)
<1>1. CASE t2 = AtEnd([t EXCEPT !.loaded = FALSE])  BY <1>1, LoadedReads, EndReads
<1>2. CASE \E i \in OtherPlaces(t) : t2 = Reached(t, i)
  BY <1>2, ReachedReads DEF OtherPlaces, WantedPlaces
<1>. QED  BY <1>1, <1>2 DEF SkipCurrentDB

-----------------------------------------------------------------------------
\* Changes of one field.
LEMMA WorkerFields ==
  ASSUME NEW pc \in Pcs, worker \in Workers
  PROVE  /\ [worker EXCEPT !.pc = pc] \in Workers
         /\ [worker EXCEPT !.pc = pc].pc = pc
         /\ [worker EXCEPT !.pc = pc].op = worker.op
         /\ [worker EXCEPT !.pc = pc].list = worker.list
  BY DEF Workers

\* A step that only moves the worker, to a point without a claim of AtWork.
LEMMA GotoType ==
  ASSUME TInv, NEW pc \in Pcs \ {"next", "loading", "clearing", "saving"}, Goto(pc), tar' = tar
  PROVE  worker' \in Workers /\ AtWork'
<1>1. worker' = [worker EXCEPT !.pc = pc]  BY DEF Goto
<1>2. worker' \in Workers /\ worker'.pc = pc  BY <1>1, WorkerFields DEF TInv
<1>. QED  BY <1>2 DEF AtWork

\* Emitting a signal keeps the queue of signals typed.
LEMMA EmitType ==
  ASSUME TInv, NEW signal \in Signals, Emit(signal)
  PROVE  signals' \in Seq(Signals)
  BY ElementsAppend DEF TInv, Emit

-----------------------------------------------------------------------------
\* The worker's own steps keep the types: those of both threads first.
LEMMA TypeCommon ==
  ASSUME TInv,
         crashes \/ close_throws \/ close_tar \/ emit_error \/ emit_done \/ Invalidate \/ invalidated
  PROVE  TInv'
<1>1. ASSUME NEW why \in {"aborted", "crashed"}, Stop(why)  PROVE TInv'
  <2>1. program' = why /\ UNCHANGED <<device, file, worker, tar, comm, zeroing, signals, gui, failed, told,
                                     before, chosen, short, hasty, confirmed, ops>>
    BY <1>1 DEF Stop, operation
  <2>. QED  BY <2>1 DEF TInv, Plain, Operation, AtWork, Reader
<1>2. CASE crashes
  BY <1>1, <1>2 DEF crashes
<1>3. CASE close_throws
  BY <1>1, <1>3 DEF close_throws
<1>4. CASE close_tar
  <2>1. UNCHANGED <<device, file, tar, comm, zeroing, signals, gui, program, failed, told,
                    before, chosen, short, hasty, confirmed, ops>>
    BY <1>4 DEF close_tar, operation
  <2>2. worker' \in Workers /\ AtWork'
    BY <1>4, <2>1, GotoType DEF close_tar, Closed, Pcs
  <2>. QED  BY <2>1, <2>2 DEF TInv, Plain, Operation, Reader
<1>5. CASE emit_error
  <2>1. UNCHANGED <<device, file, tar, comm, zeroing, gui, program, failed, before, chosen, short, hasty, confirmed, ops>>
        /\ told' = TRUE
    BY <1>5 DEF emit_error, operation
  <2>2. worker' \in Workers /\ AtWork'
    BY <1>5, <2>1, GotoType DEF emit_error, Pcs
  <2>3. signals' \in Seq(Signals)
    BY <1>5, EmitType DEF emit_error, Signals
  <2>. QED  BY <2>1, <2>2, <2>3 DEF TInv, Plain, Operation, Reader
<1>6. CASE emit_done
  <2>1. UNCHANGED <<device, file, tar, comm, zeroing, gui, program, failed, told,
                    before, chosen, short, hasty, confirmed, ops>>
    BY <1>6 DEF emit_done, operation
  <2>2. worker' \in Workers /\ AtWork'
    BY <1>6, <2>1, GotoType DEF emit_done, Pcs
  <2>3. signals' \in Seq(Signals)
    BY <1>6, EmitType DEF emit_done, Signals
  <2>. QED  BY <2>1, <2>2, <2>3 DEF TInv, Plain, Operation, Reader
<1>7. CASE Invalidate
  <2>1. UNCHANGED <<device, file, tar, signals, gui, program, failed, told, before, chosen, short, hasty, confirmed, ops>>
        /\ comm' = "invalid" /\ zeroing' = TRUE /\ worker' = NoWorker
    BY <1>7 DEF Invalidate, operation
  <2>2. NoWorker \in Workers /\ NoWorker.pc = "none" /\ NoWorker.op = "none"
    <3>1. << >> \in Seq(Databases)  OBVIOUS
    <3>. QED  BY <3>1 DEF NoWorker, Workers, Pcs, Ops
  <2>. QED  BY <2>1, <2>2 DEF TInv, Plain, Operation, AtWork, Reader
<1>8. CASE invalidated
  <2>1. UNCHANGED <<device, file, worker, tar, signals, gui, program, failed, told,
                    before, chosen, short, hasty, confirmed, ops>>
        /\ zeroing' = FALSE /\ comm' \in {"invalid", comm}
    BY <1>8 DEF invalidated, operation
  <2>. QED  BY <2>1 DEF TInv, Plain, Operation, AtWork, Reader
<1>. QED  BY <1>2, <1>3, <1>4, <1>5, <1>6, <1>7, <1>8

\* BackupThread.
LEMMA TypeBackup ==
  ASSUME TInv, backup_next \/ (\E r \in RecordIds : Store(r)) \/ loaded \/ backup_fails
  PROVE  TInv'
<1>1. CASE backup_next
  <2>1. UNCHANGED <<device, file, tar, comm, zeroing, signals, gui, program, failed, told,
                    before, chosen, short, hasty, confirmed, ops>>
    BY <1>1 DEF backup_next, operation
  <2>2. CASE Goto("closing")
    <3>1. worker' \in Workers /\ AtWork'  BY <2>1, <2>2, GotoType DEF Pcs
    <3>. QED  BY <2>1, <3>1 DEF TInv, Plain, Operation, Reader
  <2>3. CASE worker' = [worker EXCEPT !.pc = "closing", !.error = TRUE]
    <3>1. worker' \in Workers /\ worker'.pc = "closing"  BY <2>3 DEF TInv, Workers, Pcs
    <3>. QED  BY <2>1, <3>1 DEF TInv, Plain, Operation, Reader, AtWork
  <2>4. CASE worker.list # << >> /\ Head(worker.list) \in OnDevice
             /\ worker' = [worker EXCEPT !.pc = "loading", !.todo = device[Head(worker.list)]]
    <3>1. device[Head(worker.list)] \in SUBSET RecordIds  BY <2>4 DEF TInv, Devices
    <3>2. worker' \in Workers /\ worker'.pc = "loading" /\ worker'.list = worker.list /\ worker'.op = worker.op
      BY <2>4, <3>1 DEF TInv, Workers, Pcs
    <3>. QED  BY <2>1, <2>4, <3>2 DEF TInv, Plain, Operation, Reader, AtWork
  <2>. QED  BY <1>1, <2>2, <2>3, <2>4 DEF backup_next
<1>2. ASSUME NEW r \in RecordIds, Store(r)  PROVE TInv'
  <2>1. UNCHANGED <<device, tar, comm, zeroing, gui, program, failed, told, before, chosen, short, hasty, confirmed, ops>>
        /\ worker' = [worker EXCEPT !.todo = @ \ {r}] /\ Emit("progress")
        /\ file' = [file EXCEPT !.records = Append(@, Entry(Head(worker.list), r))]
    BY <1>2 DEF Store, operation
  <2>2. worker.pc = "loading" /\ worker.op = "backup"  BY <1>2 DEF Store, Sound, Runs
  <2>3. worker.list \in Seq(Databases) /\ worker.list # << >>  BY <2>2 DEF TInv, AtWork, Workers
  <2>4. Head(worker.list) \in Databases  BY <2>3, TailElements
  <2>5. Entry(Head(worker.list), r) \in Record  BY <2>4 DEF Entry, Record
  <2>6. file.records \in Seq(Record)  BY DEF TInv, TarFiles
  <2>7. Append(file.records, Entry(Head(worker.list), r)) \in Seq(Record)  BY <2>5, <2>6
  <2>8. file' \in TarFiles  BY <2>1, <2>7 DEF TInv, TarFiles
  <2>9. worker' \in Workers /\ worker'.pc = worker.pc /\ worker'.op = worker.op /\ worker'.list = worker.list
    BY <2>1 DEF TInv, Workers
  <2>10. signals' \in Seq(Signals)  BY <2>1, EmitType DEF Signals
  <2>. QED  BY <2>1, <2>8, <2>9, <2>10 DEF TInv, Plain, Operation, Reader, AtWork
<1>3. CASE loaded
  <2>1. UNCHANGED <<device, file, tar, comm, zeroing, signals, gui, program, failed, told,
                    before, chosen, hasty, confirmed, ops>>
        /\ worker' = [worker EXCEPT !.pc = "next", !.list = Tail(@), !.todo = {}]
        /\ short' = short \cup {d \in {Head(worker.list)} : worker.todo # {}}
    BY <1>3 DEF loaded
  <2>2. worker.pc = "loading" /\ worker.op = "backup"  BY <1>3 DEF loaded, Sound, Runs
  <2>3. worker.list \in Seq(Databases) /\ worker.list # << >>  BY <2>2 DEF TInv, AtWork, Workers
  <2>4. Tail(worker.list) \in Seq(Databases) /\ Head(worker.list) \in Databases  BY <2>3, TailElements
  <2>5. worker' \in Workers /\ worker'.pc = "next" /\ worker'.op = worker.op
    BY <2>1, <2>4 DEF TInv, Workers, Pcs
  <2>6. short' \subseteq Databases  BY <2>1, <2>4 DEF TInv, Operation
  <2>. QED  BY <2>1, <2>2, <2>5, <2>6 DEF TInv, Plain, Operation, Reader, AtWork
<1>4. CASE backup_fails
  <2>1. UNCHANGED <<device, tar, comm, zeroing, signals, gui, program, failed, told,
                    before, chosen, short, hasty, confirmed, ops>>
        /\ worker' = [worker EXCEPT !.pc = "closing", !.error = TRUE]
    BY <1>4 DEF backup_fails, operation
  <2>2. worker' \in Workers /\ worker'.pc = "closing"  BY <2>1 DEF TInv, Workers, Pcs
  <2>3. file' \in TarFiles
    <3>1. PICK torn \in BOOLEAN : file' = [file EXCEPT !.torn = torn]  BY <1>4 DEF backup_fails
    <3>. QED  BY <3>1 DEF TInv, TarFiles
  <2>. QED  BY <2>1, <2>2, <2>3 DEF TInv, Plain, Operation, Reader, AtWork
<1>. QED  BY <1>1, <1>2, <1>3, <1>4

\* RestoreThread. A reader that skips what is left of a database has another one.
LEMMA SkipType ==
  ASSUME TInv, NEW t, Reader(t), SkipCurrentDB(t, tar'), Goto("next")
  PROVE  Reader(tar') /\ worker' \in Workers /\ AtWork'
<1>1. Reader(tar') /\ (tar'.end \/ tar'.current \in Databases)
  BY SkipReads
<1>2. worker' \in Workers /\ worker'.pc = "next"
  BY WorkerFields DEF TInv, Goto, Pcs
<1>. QED  BY <1>1, <1>2 DEF AtWork

\* Every other step of the restore keeps the types.
LEMMA TypeRestore ==
  ASSUME TInv, restore_next \/ ClearDatabase \/ ClearDatabase_fails \/ SetRecord \/ SetRecord_fails
               \/ saved \/ restore_fails
  PROVE  TInv'
<1>a. Reader(tar)
  BY DEF TInv
<1>b. ASSUME worker.pc \in {"clearing", "saving"}
      PROVE  tar.current \in OnDevice /\ tar.current \in Databases /\ tar.current # NoDatabase
  BY <1>b, DatabasesAssumption DEF TInv, AtWork
<1>1. CASE restore_next
  <2>1. UNCHANGED <<device, file, comm, zeroing, signals, gui, program, told,
                    before, chosen, short, hasty, confirmed, ops>>
        /\ worker.pc = "next" /\ worker.op = "restore"
    BY <1>1 DEF restore_next, Runs, operation
  <2>2. CASE Goto("closing") /\ UNCHANGED <<tar, failed>>
    <3>1. worker' \in Workers /\ AtWork'  BY <2>2, GotoType DEF Pcs
    <3>. QED  BY <2>1, <2>2, <3>1 DEF TInv, Plain, Operation, Reader
  <2>3. CASE ~tar.end /\ Skip
    <3>1. Reader(tar') /\ worker' \in Workers /\ AtWork'
      BY <1>a, <2>3, SkipType DEF Skip
    <3>2. tar.current \in Databases  BY <2>1, <2>3 DEF TInv, AtWork
    <3>3. failed' \subseteq Databases  BY <2>3, <3>2 DEF Skip, TInv
    <3>. QED  BY <2>1, <3>1, <3>3 DEF TInv, Plain, Operation
  <2>4. CASE tar.current \in OnDevice /\ Goto("clearing") /\ UNCHANGED <<tar, failed>>
    <3>1. worker' \in Workers /\ worker'.pc = "clearing"
      BY <2>4, WorkerFields DEF TInv, Goto, Pcs
    <3>. QED  BY <2>1, <2>4, <3>1 DEF TInv, Plain, Operation, Reader, AtWork
  <2>. QED  BY <1>1, <2>2, <2>3, <2>4 DEF restore_next
<1>2. CASE ClearDatabase
  <2>1. UNCHANGED <<file, tar, comm, zeroing, signals, gui, program, failed, told,
                    before, chosen, short, hasty, confirmed, ops>>
        /\ worker.pc = "clearing" /\ Goto("saving") /\ device' = [device EXCEPT ![tar.current] = {}]
    BY <1>2 DEF ClearDatabase, Sound, Runs, operation
  <2>2. device' \in Devices  BY <2>1 DEF TInv, Devices
  <2>3. worker' \in Workers /\ worker'.pc = "saving"
    BY <2>1, WorkerFields DEF TInv, Goto, Pcs
  <2>. QED  BY <1>b, <2>1, <2>2, <2>3 DEF TInv, Plain, Operation, Reader, AtWork
<1>3. CASE ClearDatabase_fails
  <2>1. UNCHANGED <<file, comm, zeroing, signals, gui, program, told, before, chosen, short, hasty, confirmed, ops>>
        /\ worker.pc = "clearing" /\ Skip
    BY <1>3 DEF ClearDatabase_fails, Sound, Runs, operation
  <2>2. PICK kept \in SUBSET device[tar.current] : device' = [device EXCEPT ![tar.current] = kept]
    BY <1>3 DEF ClearDatabase_fails
  <2>3. device[tar.current] \in SUBSET RecordIds  BY <1>b, <2>1 DEF TInv, Devices
  <2>4. device' \in Devices  BY <2>2, <2>3 DEF TInv, Devices
  <2>5. Reader(tar') /\ worker' \in Workers /\ AtWork'
    BY <1>a, <2>1, SkipType DEF Skip
  <2>6. failed' \subseteq Databases  BY <1>b, <2>1 DEF Skip, TInv
  <2>. QED  BY <2>1, <2>4, <2>5, <2>6 DEF TInv, Plain, Operation
<1>4. CASE SetRecord
  <2>1. UNCHANGED <<file, comm, zeroing, gui, program, failed, told, before, chosen, short, hasty, confirmed, ops, worker>>
        /\ worker.pc = "saving" /\ worker.op = "restore" /\ Emit("progress")
    BY <1>4 DEF SetRecord, Sound, Runs, operation
  <2>2. PICK t : /\ Retrieve(tar, TRUE, t) /\ tar' = [t EXCEPT !.loaded = FALSE]
                 /\ device' = [device EXCEPT ![t.current] = @ \cup {t.hand}]
    BY <1>4 DEF SetRecord
  <2>3. Reader(t) /\ t.hand \in RecordIds /\ t.current = tar.current
    BY <1>a, <1>b, <2>1, <2>2, RetrieveReads
  <2>4. Reader(tar') /\ tar'.current = tar.current
    BY <2>2, <2>3, LoadedReads
  <2>5. device' \in Devices  BY <1>b, <2>1, <2>2, <2>3 DEF TInv, Devices
  <2>6. signals' \in Seq(Signals)  BY <2>1, EmitType DEF Signals
  <2>7. AtWork'  BY <1>b, <2>1, <2>4 DEF AtWork
  <2>. QED  BY <2>1, <2>4, <2>5, <2>6, <2>7 DEF TInv, Plain, Operation
<1>5. CASE SetRecord_fails
  <2>1. UNCHANGED <<file, comm, zeroing, gui, program, told, before, chosen, short, hasty, confirmed, ops>>
        /\ worker.pc = "saving" /\ Emit("progress") /\ Goto("next")
    BY <1>5 DEF SetRecord_fails, Sound, Runs, operation
  <2>2. PICK t \in {tar} \cup {Reached(tar, i) : i \in 1..Len(tar.rest)}, done \in BOOLEAN :
          /\ Retrieve(tar, TRUE, t) /\ SkipCurrentDB([t EXCEPT !.loaded = FALSE], tar')
          /\ device' = (IF done THEN [device EXCEPT ![t.current] = @ \cup {t.hand}] ELSE device)
          /\ failed' = failed \cup {t.current}
    BY <1>5 DEF SetRecord_fails
  <2>3. Reader(t) /\ t.hand \in RecordIds /\ t.current = tar.current
    BY <1>a, <1>b, <2>1, <2>2, RetrieveReads
  <2>4. Reader([t EXCEPT !.loaded = FALSE])  BY <2>3, LoadedReads
  <2>5. Reader(tar') /\ worker' \in Workers /\ AtWork'
    BY <2>1, <2>2, <2>4, SkipType
  <2>6. device' \in Devices
    <3>1. CASE done  BY <1>b, <2>1, <2>2, <2>3, <3>1 DEF TInv, Devices
    <3>2. CASE ~done  BY <2>2, <3>2 DEF TInv
    <3>. QED  BY <3>1, <3>2
  <2>7. failed' \subseteq Databases  BY <1>b, <2>1, <2>2, <2>3 DEF TInv
  <2>8. signals' \in Seq(Signals)  BY <2>1, EmitType DEF Signals
  <2>. QED  BY <2>1, <2>5, <2>6, <2>7, <2>8 DEF TInv, Plain, Operation
<1>6. CASE saved
  <2>1. UNCHANGED <<device, file, comm, zeroing, signals, gui, program, failed, told,
                    before, chosen, short, hasty, confirmed, ops>>
        /\ worker.pc = "saving" /\ Goto("next") /\ Retrieve(tar, FALSE, tar')
    BY <1>6 DEF saved, Sound, Runs, operation
  <2>2. Reader(tar') /\ (tar'.end \/ tar'.current \in Databases)
    BY <1>a, <1>b, <2>1, RetrieveReads
  <2>3. worker' \in Workers /\ worker'.pc = "next"
    BY <2>1, WorkerFields DEF TInv, Goto, Pcs
  <2>. QED  BY <2>1, <2>2, <2>3 DEF TInv, Plain, Operation, AtWork
<1>7. CASE restore_fails
  <2>1. UNCHANGED <<device, file, tar, comm, zeroing, gui, program, before, chosen, short, hasty, confirmed, ops>>
        /\ worker.pc = "saving" /\ Goto("closing") /\ failed' = failed \cup {tar.current}
        /\ Emit("error") /\ told' = TRUE
    BY <1>7 DEF restore_fails, Sound, Runs, operation
  <2>2. signals' \in Seq(Signals)  BY <2>1, EmitType DEF Signals
  <2>3. worker' \in Workers /\ AtWork'  BY <2>1, GotoType DEF Pcs
  <2>4. failed' \subseteq Databases  BY <1>b, <2>1 DEF TInv
  <2>. QED  BY <2>1, <2>2, <2>3, <2>4 DEF TInv, Plain, Operation, Reader
<1>. QED  BY <1>1, <1>2, <1>3, <1>4, <1>5, <1>6, <1>7

\* The main loop and the switches of the user, which start nothing.
LEMMA TypeWindow ==
  ASSUME TInv, MainLoop \/ message_closed \/ treeview_update \/ select \/ UnsetActive \/ on_disconnect
  PROVE  TInv'
<1>1. CASE MainLoop
  <2>1. UNCHANGED <<device, file, worker, tar, comm, zeroing, program, failed, told,
                    before, chosen, short, hasty, confirmed, ops>>
        /\ signals # << >> /\ signals' = Tail(signals)
    BY <1>1 DEF MainLoop, on_thread_progress, on_thread_error, on_thread_done, Handles, operation
  <2>2. signals' \in Seq(Signals)  BY <2>1, TailElements DEF TInv
  <2>3. gui' \in Guis
    <3>1. CASE on_thread_progress  BY <3>1 DEF on_thread_progress, TInv, Guis
    <3>2. CASE on_thread_error  BY <3>2 DEF on_thread_error, TInv, Guis
    <3>3. CASE on_thread_done
      <4>1. (gui.connected /\ gui.active) \in BOOLEAN  OBVIOUS
      <4>. QED  BY <3>3, <4>1 DEF on_thread_done, TInv, Guis
    <3>. QED  BY <1>1, <3>1, <3>2, <3>3 DEF MainLoop
  <2>. QED  BY <2>1, <2>2, <2>3 DEF TInv, Plain, Operation, Reader, AtWork
<1>2. ASSUME gui' \in Guis, program' \in {"running", "over"}, confirmed' \in BOOLEAN,
             UNCHANGED <<device, file, worker, tar, comm, zeroing, signals, failed, told,
                         before, chosen, short, hasty, ops>>
      PROVE  TInv'
  BY <1>2 DEF TInv, Plain, Operation, Reader, AtWork
<1>3. CASE message_closed
  <2>1. gui' \in Guis  BY <1>3 DEF message_closed, TInv, Guis
  <2>. QED  BY <1>2, <1>3, <2>1 DEF message_closed, operation, TInv, Operation
<1>4. CASE treeview_update
  <2>1. gui' \in Guis  BY <1>4 DEF treeview_update, TInv, Guis
  <2>. QED  BY <1>2, <1>4, <2>1 DEF treeview_update, operation, TInv, Operation
<1>5. CASE select
  <2>1. PICK connected \in BOOLEAN :
          gui' = [gui EXCEPT !.selected = TRUE, !.connected = connected, !.active = @ \/ connected]
    BY <1>5 DEF select
  <2>2. (gui.active \/ connected) \in BOOLEAN  OBVIOUS
  <2>3. gui' \in Guis  BY <2>1, <2>2 DEF TInv, Guis
  <2>. QED  BY <1>2, <1>5, <2>3 DEF select, User, operation, TInv, Operation
<1>6. CASE UnsetActive
  <2>1. (gui.connected /\ Working) \in BOOLEAN  OBVIOUS
  <2>2. gui' \in Guis  BY <1>6, <2>1 DEF UnsetActive, TInv, Guis
  <2>. QED  BY <1>2, <1>6, <2>2 DEF UnsetActive, User, operation, TInv, Operation
<1>7. CASE on_disconnect
  <2>1. gui' \in Guis  BY <1>7 DEF on_disconnect, TInv, Guis
  <2>2. confirmed' \in BOOLEAN  BY <1>7 DEF on_disconnect
  <2>. QED  BY <1>2, <1>7, <2>1, <2>2 DEF on_disconnect, User
<1>. QED  BY <1>1, <1>3, <1>4, <1>5, <1>6, <1>7

\* The user starts an operation.
LEMMA TypeStart ==
  ASSUME TInv, NEW list \in Lists, NEW op \in {"backup", "restore"}, NEW g \in Guis, Start(op, list, g),
         worker' \in Workers, worker'.pc = "next", worker'.op = op,
         file' \in TarFiles, Reader(tar'), op = "restore" => tar'.end \/ tar'.current \in Databases
  PROVE  TInv'
<1>1. gui' \in Guis
  BY DEF Start, Started, Guis, Ops
<1>2. list \in Seq(Databases)
  BY ListsAssumption
<1>3. Elements(list) \subseteq Databases
  BY <1>2 DEF Elements
<1>4. /\ comm' = "valid" /\ before' = device /\ chosen' = Elements(list) /\ failed' = {} /\ short' = {}
      /\ told' = FALSE /\ ops' = ops + 1 /\ ops < MaxOps /\ hasty' \in BOOLEAN
      /\ UNCHANGED <<device, zeroing, signals, program, confirmed>>
  BY DEF Start
<1>5. ops' \in 0..MaxOps
  BY <1>4, BoundsAssumption DEF TInv, Operation
<1>. QED  BY <1>1, <1>3, <1>4, <1>5 DEF TInv, Plain, Operation, AtWork

\* So do the handlers that start an operation, and those that connect.
LEMMA TypeUser ==
  ASSUME TInv, NEW list \in Lists,
         on_backup(list) \/ on_restore(list) \/ restore_throws(list) \/ select_connects(list)
  PROVE  TInv'
<1>1. << >> \in Seq(Databases) /\ << >> \in Seq(Record) /\ list \in Seq(Databases)
  BY ListsAssumption
<1>2. ASSUME NEW g \in Guis, StartBackup(list, g)  PROVE TInv'
  <2>1. worker' \in Workers /\ worker'.pc = "next" /\ worker'.op = "backup"
    BY <1>1, <1>2 DEF StartBackup, NoWorker, Workers, Pcs, Ops
  <2>2. file' \in TarFiles  BY <1>1, <1>2 DEF StartBackup, TarFiles
  <2>3. Reader(tar')  BY <1>2 DEF StartBackup, TInv, Reader
  <2>. QED  BY <1>2, <2>1, <2>2, <2>3, TypeStart DEF StartBackup
<1>3. ASSUME StartRestore(list, gui)  PROVE TInv'
  <2>1. worker' \in Workers /\ worker'.pc = "next" /\ worker'.op = "restore"
    BY <1>1, <1>3 DEF StartRestore, NoWorker, Workers, Pcs, Ops
  <2>2. file' \in TarFiles  BY <1>3 DEF StartRestore, TInv
  <2>3. PICK t : t = [NoTar EXCEPT !.list = Elements(list), !.rest = file.records]
    OBVIOUS
  <2>4. Reader(t) /\ t.current = NoDatabase /\ ~t.end /\ ~t.loaded
    <3>1. Elements(list) \subseteq Databases  BY <1>1 DEF Elements
    <3>2. file.records \in Seq(Record)  BY DEF TInv, TarFiles
    <3>. QED  BY <2>3, <3>1, <3>2 DEF NoTar, Reader, Readers
  <2>5. PICK ok \in BOOLEAN : Retrieve(t, ok, tar')
    BY <1>3, <2>3 DEF StartRestore
  <2>6. Reader(tar')  BY <2>4, <2>5, RetrieveReads
  <2>7. tar'.end \/ tar'.current \in Databases
    BY <2>4, <2>5, EndReads, ReachedReads DEF Retrieve, Reads
  <2>8. gui \in Guis  BY DEF TInv
  <2>. QED  BY <1>3, <2>1, <2>2, <2>6, <2>7, <2>8, TypeStart DEF StartRestore
<1>4. CASE on_backup(list)
  <2>1. [gui EXCEPT !.connected = TRUE] \in Guis  BY DEF TInv, Guis
  <2>. QED  BY <1>2, <1>4, <2>1 DEF on_backup
<1>5. CASE on_restore(list)
  BY <1>3, <1>5 DEF on_restore
<1>6. CASE restore_throws(list)
  <2>1. program' = "aborted" /\ UNCHANGED <<device, file, worker, tar, comm, zeroing, signals, gui, failed, told,
                                           before, chosen, short, hasty, confirmed, ops>>
    BY <1>6 DEF restore_throws, Stop, operation
  <2>. QED  BY <2>1 DEF TInv, Plain, Operation, AtWork, Reader
<1>7. CASE select_connects(list)
  <2>1. [gui EXCEPT !.selected = TRUE, !.connected = TRUE, !.active = TRUE] \in Guis  BY DEF TInv, Guis
  <2>. QED  BY <1>2, <1>7, <2>1 DEF select_connects
<1>. QED  BY <1>4, <1>5, <1>6, <1>7

\* The types hold at first.
LEMMA TypeInit == Init => TInv
<1>. SUFFICES ASSUME Init  PROVE TInv
  OBVIOUS
<1>1. << >> \in Seq(Databases) /\ << >> \in Seq(Record) /\ << >> \in Seq(Signals)
  OBVIOUS
<1>2. device \in Devices /\ before \in Devices
  <2>1. device \in Contents /\ before = device  BY DEF Init
  <2>. QED  BY <2>1, RecordsAssumption DEF Devices
<1>3. file \in TarFiles
  <2>1. file \in [records : Files, torn : {FALSE}]  BY DEF Init
  <2>2. file.records \in Seq(Record)  BY <2>1, FilesAssumption DEF Record
  <2>. QED  BY <2>1, <2>2 DEF TarFiles
<1>4. worker \in Workers /\ worker.pc = "none" /\ worker.op = "none"
  <2>1. worker = NoWorker  BY DEF Init
  <2>. QED  BY <1>1, <2>1 DEF NoWorker, Workers, Pcs, Ops
<1>5. Reader(tar)
  <2>1. tar = NoTar  BY DEF Init
  <2>. QED  BY <1>1, <2>1 DEF NoTar, Reader, Readers
<1>6. gui \in Guis
  <2>1. gui \in [idle : {TRUE}, op : {"none"}, connected : {FALSE}, selected : {FALSE},
                 active : BOOLEAN, finished : {0}, marker : {FALSE}, message : {FALSE}]
    BY DEF Init
  <2>2. PICK active \in BOOLEAN :
          gui = [idle |-> TRUE, op |-> "none", connected |-> FALSE, selected |-> FALSE,
                 active |-> active, finished |-> 0, marker |-> FALSE, message |-> FALSE]
    BY <2>1
  <2>. QED  BY <2>2 DEF Guis, Ops
<1>7. /\ comm = "invalid" /\ zeroing = FALSE /\ signals = << >> /\ program = "running"
      /\ chosen = {} /\ failed = {} /\ short = {}
      /\ told = FALSE /\ ops = 0 /\ hasty = FALSE /\ confirmed = FALSE
  BY DEF Init
<1>8. Plain /\ AtWork
  BY <1>4, <1>7 DEF Plain, AtWork
<1>9. Operation
  <2>1. 0 \in 0..MaxOps  BY BoundsAssumption
  <2>. QED  BY <1>2, <1>7, <2>1 DEF Operation
<1>. QED  BY <1>1, <1>2, <1>3, <1>4, <1>5, <1>6, <1>7, <1>8, <1>9 DEF TInv

\* The types are kept by every step.
LEMMA TypeStep == TInv /\ [Next]_vars => TInv'
<1>. SUFFICES ASSUME TInv, [Next]_vars  PROVE TInv'
  OBVIOUS
<1>1. CASE Worker
  BY <1>1, TypeCommon, TypeBackup, TypeRestore DEF Worker
<1>2. CASE UNCHANGED vars
  BY <1>2 DEF vars, operation, TInv, Plain, Operation, Reader, AtWork
<1>3. CASE MainLoop \/ message_closed \/ treeview_update \/ select \/ UnsetActive \/ on_disconnect
  BY <1>3, TypeWindow
<1>4. CASE \E list \in Lists : on_backup(list) \/ on_restore(list) \/ restore_throws(list) \/ select_connects(list)
  BY <1>4, TypeUser
<1>. QED  BY <1>1, <1>2, <1>3, <1>4 DEF Next

\* The types of Backup hold for any handheld, selections and files.
THEOREM TypeCorrect == Spec => []TypeOK
<1>1. Init => TInv  BY TypeInit
<1>2. TInv /\ [Next]_vars => TInv'  BY TypeStep
<1>3. TInv => TypeOK  BY TypeParts
<1>. QED  BY <1>1, <1>2, <1>3, PTL DEF Spec
-----------------------------------------------------------------------------
\* What the steps of the worker do to its place and to the signals.
Busy == {"next", "loading", "clearing", "saving"}
Ending == {"closing", "error", "done"}

Same == UNCHANGED <<comm, zeroing, program>>

Aborts == program' = "aborted" /\ UNCHANGED <<worker, comm, zeroing, signals>>

Proceeds ==
  /\ worker.pc \in Busy /\ worker'.pc \in Busy \cup {"closing"}
  /\ signals' \in {signals, Append(signals, "progress")} /\ Same

Ends ==
  /\ worker.pc \in Busy \cup {"closing", "error"} /\ worker'.pc \in Ending
  /\ signals' \in {signals, Append(signals, "error")} /\ Same

Announces ==
  /\ worker.pc = "done" /\ worker'.pc = "invalidate"
  /\ signals' = Append(signals, "done") /\ Same

Vanishes ==
  /\ worker.pc = "invalidate" /\ worker'.pc = "none" /\ comm' = "invalid"
  /\ UNCHANGED <<signals, program>>

\* Every step of the worker that concerns these variables is one of the few above.
LEMMA WorkerSteps ==
  ASSUME TInv, Worker
  PROVE  /\ UNCHANGED <<gui, hasty, confirmed>>
         /\ \/ (crashes /\ UNCHANGED <<worker, signals>>) \/ Aborts \/ Proceeds \/ Ends \/ Announces \/ Vanishes
            \/ (invalidated /\ UNCHANGED <<worker, signals, program>>)
<1>1. ASSUME NEW pc \in Pcs, Goto(pc)  PROVE worker'.pc = pc
  BY <1>1, WorkerFields DEF TInv, Goto
<1>2. worker \in Workers
  BY DEF TInv
<1>3. CASE crashes
  BY <1>3 DEF crashes, Stop, operation
<1>4. CASE close_throws
  BY <1>4 DEF close_throws, Stop, operation, Aborts
<1>5. CASE close_tar
  <2>1. worker'.pc \in {"error", "done"}  BY <1>1, <1>5 DEF close_tar, Closed, Pcs
  <2>. QED  BY <1>5, <2>1 DEF close_tar, Runs, operation, Ends, Ending, Same
<1>6. CASE emit_error
  <2>1. worker'.pc = "done"  BY <1>1, <1>6 DEF emit_error, Pcs
  <2>. QED  BY <1>6, <2>1 DEF emit_error, Emit, Runs, operation, Ends, Ending, Same
<1>7. CASE emit_done
  <2>1. worker'.pc = "invalidate"  BY <1>1, <1>7 DEF emit_done, Pcs
  <2>. QED  BY <1>7, <2>1 DEF emit_done, Emit, Runs, operation, Announces, Same
<1>8. CASE Invalidate
  BY <1>8 DEF Invalidate, Runs, operation, NoWorker, Vanishes
<1>9. CASE invalidated
  BY <1>9 DEF invalidated, operation
<1>10. CASE backup_next
  <2>1. worker'.pc \in {"closing", "loading"}  BY <1>1, <1>2, <1>10 DEF backup_next, Workers, Pcs
  <2>. QED  BY <1>10, <2>1 DEF backup_next, Runs, operation, Proceeds, Busy, Same
<1>11. CASE \E r \in RecordIds : Store(r)
  <2>1. PICK r \in RecordIds : Store(r)  BY <1>11
  <2>2. worker'.pc = worker.pc  BY <1>2, <2>1 DEF Store, Workers
  <2>. QED  BY <2>1, <2>2 DEF Store, Emit, Sound, Runs, operation, Proceeds, Busy, Same
<1>12. CASE loaded
  <2>1. worker'.pc = "next"  BY <1>2, <1>12 DEF loaded, Workers, Pcs
  <2>. QED  BY <1>12, <2>1 DEF loaded, Sound, Runs, Proceeds, Busy, Same
<1>13. CASE backup_fails
  <2>1. worker'.pc = "closing"  BY <1>2, <1>13 DEF backup_fails, Workers, Pcs
  <2>. QED  BY <1>13, <2>1 DEF backup_fails, Sound, Runs, operation, Proceeds, Busy, Same
<1>14. CASE restore_next
  <2>1. worker'.pc \in {"closing", "next", "clearing"}  BY <1>1, <1>14 DEF restore_next, Skip, Pcs
  <2>. QED  BY <1>14, <2>1 DEF restore_next, Runs, operation, Proceeds, Busy, Same
<1>15. CASE ClearDatabase
  <2>1. worker'.pc = "saving"  BY <1>1, <1>15 DEF ClearDatabase, Pcs
  <2>. QED  BY <1>15, <2>1 DEF ClearDatabase, Sound, Runs, operation, Proceeds, Busy, Same
<1>16. CASE ClearDatabase_fails
  <2>1. worker'.pc = "next"  BY <1>1, <1>16 DEF ClearDatabase_fails, Skip, Pcs
  <2>. QED  BY <1>16, <2>1 DEF ClearDatabase_fails, Sound, Runs, operation, Proceeds, Busy, Same
<1>17. CASE SetRecord
  BY <1>17 DEF SetRecord, Emit, Sound, Runs, operation, Proceeds, Busy, Same
<1>18. CASE SetRecord_fails
  <2>1. worker'.pc = "next"  BY <1>1, <1>18 DEF SetRecord_fails, Pcs
  <2>. QED  BY <1>18, <2>1 DEF SetRecord_fails, Emit, Sound, Runs, operation, Proceeds, Busy, Same
<1>19. CASE saved
  <2>1. worker'.pc = "next"  BY <1>1, <1>19 DEF saved, Pcs
  <2>. QED  BY <1>19, <2>1 DEF saved, Sound, Runs, operation, Proceeds, Busy, Same
<1>20. CASE restore_fails
  <2>1. worker'.pc = "closing"  BY <1>1, <1>20 DEF restore_fails, Pcs
  <2>. QED  BY <1>20, <2>1 DEF restore_fails, Emit, Sound, Runs, operation, Ends, Ending, Busy, Same
<1>. QED  BY <1>3, <1>4, <1>5, <1>6, <1>7, <1>8, <1>9, <1>10, <1>11, <1>12, <1>13, <1>14, <1>15, <1>16,
             <1>17, <1>18, <1>19, <1>20 DEF Worker

\* What an operation that starts does to them.
LEMMA StartSteps ==
  ASSUME TInv, NEW list \in Lists, on_backup(list) \/ on_restore(list) \/ select_connects(list)
  PROVE  /\ comm = "invalid" /\ comm' = "valid" /\ worker'.pc = "next"
         /\ ~gui'.idle /\ gui'.connected /\ gui'.selected
         /\ hasty' = (hasty \/ zeroing \/ "done" \in Elements(signals))
         /\ UNCHANGED <<zeroing, signals, program, confirmed>>
<1>1. ASSUME NEW g \in Guis, NEW op, Start(op, list, g)
      PROVE  /\ comm = "invalid" /\ comm' = "valid" /\ ~gui'.idle
             /\ gui'.connected = g.connected /\ gui'.selected = g.selected
             /\ hasty' = (hasty \/ zeroing \/ "done" \in Elements(signals))
             /\ UNCHANGED <<zeroing, signals, program, confirmed>>
  BY <1>1 DEF Start, Started, Guis
<1>2. gui \in Guis
  BY DEF TInv
<1>3. CASE on_backup(list)
  <2>1. PICK g : g = [gui EXCEPT !.connected = TRUE]  OBVIOUS
  <2>2. g \in Guis /\ g.connected /\ g.selected  BY <1>2, <1>3, <2>1 DEF on_backup, Guis
  <2>. QED  BY <1>1, <1>3, <2>1, <2>2 DEF on_backup, StartBackup, NoWorker
<1>4. CASE on_restore(list)
  BY <1>1, <1>2, <1>4 DEF on_restore, StartRestore, NoWorker
<1>5. CASE select_connects(list)
  <2>1. PICK g : g = [gui EXCEPT !.selected = TRUE, !.connected = TRUE, !.active = TRUE]  OBVIOUS
  <2>2. g \in Guis /\ g.connected /\ g.selected  BY <1>2, <2>1 DEF Guis
  <2>. QED  BY <1>1, <1>5, <2>1, <2>2 DEF select_connects, StartBackup, NoWorker
<1>. QED  BY <1>3, <1>4, <1>5
-----------------------------------------------------------------------------
(* The connection and the dispatchers under the worker.                    *)

LastIs(s, signal) == s # << >> /\ s[Len(s)] = signal

\* A worker that talks to the handheld is connected and the window shows it at
\* work, for it has signalled nothing but progress; dispatchers are there as long as
\* a worker is, and when none is the last thing left to handle is its end.
Safe ==
  /\ worker.pc \in Busy => gui.connected /\ ~gui.idle /\ Elements(signals) \subseteq {"progress"}
  /\ worker.pc \in Ending => "done" \notin Elements(signals)
  /\ worker.pc # "none" => comm = "valid" /\ ~zeroing
  /\ worker.pc \in {"none", "invalidate"} => signals = << >> \/ LastIs(signals, "done")
  /\ program # "crashed"

NInv == hasty \/ confirmed \/ Safe

\* Where a worker can be.
LEMMA PcIs == TInv => worker.pc \in {"none", "invalidate"} \cup Busy \cup Ending
  BY DEF TInv, Workers, Pcs, Busy, Ending

\* The worker's steps keep what the three parties know of each other.
LEMMA SafeWorker ==
  ASSUME TInv, Safe, Worker
  PROVE  Safe'
<1>1. UNCHANGED gui
  BY WorkerSteps
<1>2. signals \in Seq(Signals)
  BY DEF TInv
<1>3. ~crashes
  BY DEF crashes, Safe, Busy, Ending
<1>4. ASSUME NEW signal \in Signals, signals' = Append(signals, signal)
      PROVE  Elements(signals)' = Elements(signals) \cup {signal} /\ LastIs(signals', signal)
  <2>1. Elements(Append(signals, signal)) = Elements(signals) \cup {signal} /\ LastIs(Append(signals, signal), signal)
    BY <1>2, ElementsAppend DEF LastIs
  <2>. QED  BY <1>4, <2>1
<1>5. CASE Aborts
  BY <1>1, <1>5 DEF Aborts, Safe
<1>6. CASE Proceeds
  <2>1. Elements(signals)' \subseteq {"progress"}
    BY <1>4, <1>6 DEF Proceeds, Safe, Signals
  <2>. QED  BY <1>1, <1>6, <2>1 DEF Proceeds, Same, Safe, Busy, Ending
<1>7. CASE Ends
  <2>1. "done" \notin Elements(signals)
    BY <1>7 DEF Ends, Safe, Busy, Ending
  <2>2. "done" \notin Elements(signals)'
    BY <1>4, <1>7, <2>1 DEF Ends, Signals
  <2>. QED  BY <1>1, <1>7, <2>2 DEF Ends, Same, Safe, Busy, Ending
<1>8. CASE Announces
  <2>1. LastIs(signals', "done")  BY <1>4, <1>8 DEF Announces, Signals
  <2>. QED  BY <1>1, <1>8, <2>1 DEF Announces, Same, Safe, Busy, Ending
<1>9. CASE Vanishes
  BY <1>1, <1>9 DEF Vanishes, Safe, Busy, Ending
<1>10. CASE invalidated /\ UNCHANGED <<worker, signals, program>>
  <2>1. worker.pc = "none"  BY <1>10 DEF invalidated, Safe
  <2>. QED  BY <1>1, <1>10, <2>1 DEF Safe, Busy, Ending
<1>. QED  BY <1>3, <1>5, <1>6, <1>7, <1>8, <1>9, <1>10, WorkerSteps

\* So do the main loop's, unless the user insists on disconnecting.
LEMMA SafeWindow ==
  ASSUME TInv, Safe, MainLoop \/ message_closed \/ treeview_update \/ select \/ UnsetActive \/ on_disconnect
  PROVE  confirmed' \/ Safe'
<1>1. gui \in Guis /\ signals \in Seq(Signals)
  BY DEF TInv
<1>2. CASE MainLoop
  <2>1. UNCHANGED <<worker, comm, zeroing, program>> /\ signals # << >> /\ signals' = Tail(signals)
    BY <1>2 DEF MainLoop, on_thread_progress, on_thread_error, on_thread_done, Handles
  <2>2. /\ Elements(signals) = Elements(signals') \cup {Head(signals)}
        /\ signals' # << >> => signals'[Len(signals')] = signals[Len(signals)]
    BY <1>1, <2>1, TailElements
  <2>3. worker.pc \in Busy => gui'.connected /\ ~gui'.idle
    <3>1. SUFFICES ASSUME worker.pc \in Busy  PROVE gui'.connected /\ ~gui'.idle
      OBVIOUS
    <3>2. Head(signals) = "progress"  BY <2>2, <3>1 DEF Safe
    <3>3. on_thread_progress
      BY <1>2, <3>2 DEF MainLoop, on_thread_error, on_thread_done, Handles
    <3>. QED  BY <1>1, <3>1, <3>3 DEF on_thread_progress, Guis, Safe
  <2>4. "done" \in Elements(signals') => "done" \in Elements(signals)
    BY <2>2
  <2>5. signals = << >> \/ LastIs(signals, "done") => signals' = << >> \/ LastIs(signals', "done")
    BY <2>1, <2>2 DEF LastIs
  <2>. QED  BY <2>1, <2>2, <2>3, <2>4, <2>5 DEF Safe
<1>3. ASSUME UNCHANGED <<worker, comm, zeroing, signals>>, program' \in {program, "over"},
             worker.pc \in Busy => gui'.connected /\ ~gui'.idle
      PROVE  Safe'
  BY <1>3 DEF Safe
<1>4. CASE message_closed
  BY <1>1, <1>3, <1>4 DEF message_closed, Guis, Safe
<1>5. CASE treeview_update
  BY <1>1, <1>3, <1>5 DEF treeview_update, Guis, Safe
<1>6. CASE select
  <2>1. PICK connected \in BOOLEAN :
          /\ gui.connected => connected
          /\ gui' = [gui EXCEPT !.selected = TRUE, !.connected = connected, !.active = @ \/ connected]
    BY <1>6 DEF select
  <2>2. gui'.connected = connected /\ gui'.idle = gui.idle  BY <1>1, <2>1 DEF Guis
  <2>. QED  BY <1>3, <1>6, <2>1, <2>2 DEF select, Safe
<1>7. CASE UnsetActive
  <2>1. gui'.connected = (gui.connected /\ Working) /\ gui'.idle = gui.idle
    BY <1>1, <1>7 DEF UnsetActive, Guis
  <2>. QED  BY <1>3, <1>7, <2>1 DEF UnsetActive, Working, Safe
<1>8. CASE on_disconnect
  <2>1. CASE worker.pc \in Busy
    BY <1>8, <2>1 DEF on_disconnect, Working, Safe
  <2>2. CASE worker.pc \notin Busy
    BY <1>3, <1>8, <2>2 DEF on_disconnect
  <2>. QED  BY <2>1, <2>2
<1>. QED  BY <1>2, <1>4, <1>5, <1>6, <1>7, <1>8

\* So does the start of an operation that waited for the last one.
LEMMA SafeStart ==
  ASSUME TInv, Safe, NEW list \in Lists, on_backup(list) \/ on_restore(list) \/ select_connects(list)
  PROVE  hasty' \/ Safe'
<1>1. CASE zeroing \/ "done" \in Elements(signals)
  BY <1>1, StartSteps
<1>2. CASE ~zeroing /\ "done" \notin Elements(signals)
  <2>1. worker.pc = "none"  BY StartSteps DEF Safe
  <2>2. signals = << >>
    <3>1. signals \in Seq(Signals)  BY DEF TInv
    <3>2. ASSUME LastIs(signals, "done")  PROVE "done" \in Elements(signals)
      <4>1. Len(signals) \in 1..Len(signals)  BY <3>1, <3>2, EmptySeq DEF LastIs
      <4>. QED  BY <3>2, <4>1 DEF LastIs, Elements
    <3>. QED  BY <1>2, <2>1, <3>2 DEF Safe
  <2>3. Elements(signals) = {}  BY <2>2 DEF Elements
  <2>. QED  BY <1>2, <2>2, <2>3, StartSteps DEF Safe, Busy, Ending
<1>. QED  BY <1>1, <1>2

\* A worker never finds its connection deleted or a dispatcher gone, for any
\* selections and files, unless the user insisted on disconnecting or an operation
\* was begun before the last one was through (DeviceIface.cc, Thread.cc).
THEOREM NotUnderWorkerAlways == Spec => []NotUnderWorker
<1>1. Init => NInv
  <2>. SUFFICES ASSUME Init  PROVE NInv
    OBVIOUS
  <2>1. worker.pc = "none" /\ signals = << >> /\ program = "running"
    BY DEF Init, NoWorker
  <2>. QED  BY <2>1 DEF NInv, Safe, Busy, Ending
<1>2. TInv /\ NInv /\ [Next]_vars => NInv'
  <2>. SUFFICES ASSUME TInv, NInv, [Next]_vars  PROVE NInv'
    OBVIOUS
  <2>1. hasty => hasty'
    <3>1. CASE Worker  BY <3>1, WorkerSteps
    <3>2. CASE \E list \in Lists : on_backup(list) \/ on_restore(list) \/ select_connects(list)
      BY <3>2, StartSteps
    <3>. QED  BY <3>1, <3>2 DEF Next, MainLoop, on_thread_progress, on_thread_error, on_thread_done, message_closed,
                treeview_update, restore_throws, Stop, select, UnsetActive, on_disconnect, operation, vars
  <2>2. confirmed => confirmed'
    <3>1. CASE Worker  BY <3>1, WorkerSteps
    <3>2. CASE \E list \in Lists : on_backup(list) \/ on_restore(list) \/ select_connects(list)
      BY <3>2, StartSteps
    <3>. QED  BY <3>1, <3>2 DEF Next, MainLoop, on_thread_progress, on_thread_error, on_thread_done, message_closed,
                treeview_update, restore_throws, Stop, select, UnsetActive, on_disconnect, operation, vars
  <2>3. ASSUME Safe  PROVE hasty' \/ confirmed' \/ Safe'
    <3>1. CASE Worker  BY <2>3, <3>1, SafeWorker
    <3>2. CASE MainLoop \/ message_closed \/ treeview_update \/ select \/ UnsetActive \/ on_disconnect
      BY <2>3, <3>2, SafeWindow
    <3>3. CASE \E list \in Lists : on_backup(list) \/ on_restore(list) \/ select_connects(list)
      BY <2>3, <3>3, SafeStart
    <3>4. CASE \E list \in Lists : restore_throws(list)
      BY <2>3, <3>4 DEF restore_throws, Stop, operation, Safe
    <3>5. CASE UNCHANGED vars
      BY <2>3, <3>5 DEF vars, operation, Safe
    <3>. QED  BY <3>1, <3>2, <3>3, <3>4, <3>5 DEF Next
  <2>. QED  BY <2>1, <2>2, <2>3 DEF NInv
<1>3. NInv => NotUnderWorker
  BY DEF NInv, Safe, NotUnderWorker
<1>4. Init => TInv  BY TypeInit
<1>5. TInv /\ [Next]_vars => TInv'  BY TypeStep
<1>. QED  BY <1>1, <1>2, <1>3, <1>4, <1>5, PTL DEF Spec

-----------------------------------------------------------------------------
(* The connection after the operation.                                     *)

\* A worker is still to say that it is done, or its word is still to be heard.
Pending == worker.pc \notin {"none", "invalidate"} \/ "done" \in Elements(signals)

RInv ==
  /\ ~gui.idle => Pending
  /\ gui.connected /\ ~gui.selected => ~gui.active /\ Pending

\* No handheld that the user has left stays connected when its operation is over,
\* for any selections and files: the end of the operation disconnects what
\* UnsetActive did not (Thread.cc).
THEOREM ReleasedAlways == Spec => []Released
<1>1. Init => RInv
  <2>. SUFFICES ASSUME Init  PROVE RInv
    OBVIOUS
  <2>1. gui.idle /\ ~gui.connected  BY DEF Init
  <2>. QED  BY <2>1 DEF RInv
<1>2. TInv /\ RInv /\ [Next]_vars => RInv'
  <2>. SUFFICES ASSUME TInv, RInv, [Next]_vars  PROVE RInv'
    OBVIOUS
  <2>0. gui \in Guis /\ signals \in Seq(Signals)
    BY DEF TInv
  <2>1. CASE Worker
    <3>1. UNCHANGED gui  BY <2>1, WorkerSteps
    <3>2. Pending => Pending'
      <4>1. ASSUME NEW signal \in Signals, signals' = Append(signals, signal)
            PROVE  Elements(signals)' = Elements(signals) \cup {signal}
        <5>1. Elements(Append(signals, signal)) = Elements(signals) \cup {signal}
          BY <2>0, ElementsAppend
        <5>. QED  BY <4>1, <5>1
      <4>2. CASE crashes /\ UNCHANGED <<worker, signals>>  BY <4>2 DEF Pending
      <4>3. CASE Aborts  BY <4>3 DEF Aborts, Pending
      <4>4. CASE Proceeds  BY <4>4 DEF Proceeds, Pending, Busy
      <4>5. CASE Ends  BY <4>5 DEF Ends, Pending, Ending
      <4>6. CASE Announces  BY <4>1, <4>6 DEF Announces, Pending, Signals
      <4>7. CASE Vanishes  BY <4>7 DEF Vanishes, Pending
      <4>8. CASE invalidated /\ UNCHANGED <<worker, signals, program>>  BY <4>8 DEF Pending
      <4>. QED  BY <2>1, <4>2, <4>3, <4>4, <4>5, <4>6, <4>7, <4>8, WorkerSteps
    <3>. QED  BY <3>1, <3>2 DEF RInv
  <2>2. CASE MainLoop
    <3>1. UNCHANGED worker /\ signals # << >> /\ signals' = Tail(signals)
      BY <2>2 DEF MainLoop, on_thread_progress, on_thread_error, on_thread_done, Handles
    <3>2. Elements(signals) = Elements(signals') \cup {Head(signals)}
      BY <2>0, <3>1, TailElements
    <3>3. CASE on_thread_progress
      <4>1. gui'.idle = gui.idle /\ gui'.connected = gui.connected /\ gui'.selected = gui.selected /\ gui'.active = gui.active
        BY <2>0, <3>3 DEF on_thread_progress, Guis
      <4>2. Pending => Pending'  BY <3>1, <3>2, <3>3 DEF on_thread_progress, Handles, Pending
      <4>. QED  BY <4>1, <4>2 DEF RInv
    <3>4. CASE on_thread_error
      <4>1. gui'.idle /\ gui'.connected = gui.connected /\ gui'.selected = gui.selected /\ gui'.active = gui.active
        BY <2>0, <3>4 DEF on_thread_error, Guis
      <4>2. Pending => Pending'  BY <3>1, <3>2, <3>4 DEF on_thread_error, Handles, Pending
      <4>. QED  BY <4>1, <4>2 DEF RInv
    <3>5. CASE on_thread_done
      <4>1. gui'.idle /\ gui'.connected = (gui.connected /\ gui.active) /\ gui'.selected = gui.selected /\ gui'.active = gui.active
        BY <2>0, <3>5 DEF on_thread_done, Guis
      <4>. QED  BY <4>1 DEF RInv
    <3>. QED  BY <2>2, <3>3, <3>4, <3>5 DEF MainLoop
  <2>3. CASE message_closed
    BY <2>0, <2>3 DEF message_closed, Guis, RInv, Pending
  <2>4. CASE treeview_update
    BY <2>0, <2>4 DEF treeview_update, Guis, RInv, Pending
  <2>5. CASE select
    <3>1. gui'.idle = gui.idle /\ gui'.selected /\ UNCHANGED <<worker, signals>>
      BY <2>0, <2>5 DEF select, Guis
    <3>. QED  BY <3>1 DEF RInv, Pending
  <2>6. CASE UnsetActive
    <3>1. gui'.idle = gui.idle /\ ~gui'.active /\ gui'.connected = (gui.connected /\ Working) /\ UNCHANGED <<worker, signals>>
      BY <2>0, <2>6 DEF UnsetActive, Guis
    <3>. QED  BY <3>1 DEF RInv, Pending, Working
  <2>7. CASE on_disconnect
    <3>1. gui'.idle = gui.idle /\ ~gui'.connected /\ UNCHANGED <<worker, signals>>
      BY <2>0, <2>7 DEF on_disconnect, Guis
    <3>. QED  BY <3>1 DEF RInv, Pending
  <2>8. CASE \E list \in Lists : on_backup(list) \/ on_restore(list) \/ select_connects(list)
    BY <2>8, StartSteps DEF RInv, Pending
  <2>9. CASE \E list \in Lists : restore_throws(list)
    BY <2>9 DEF restore_throws, Stop, RInv, Pending
  <2>10. CASE UNCHANGED vars
    BY <2>10 DEF vars, RInv, Pending
  <2>. QED  BY <2>1, <2>2, <2>3, <2>4, <2>5, <2>6, <2>7, <2>8, <2>9, <2>10 DEF Next
<1>3. RInv => Released
  BY DEF RInv, Released, Pending, Elements
<1>4. Init => TInv  BY TypeInit
<1>5. TInv /\ [Next]_vars => TInv'  BY TypeStep
<1>. QED  BY <1>1, <1>2, <1>3, <1>4, <1>5, PTL DEF Spec
-----------------------------------------------------------------------------
(* What a restore may touch.                                               *)

Held(records, d) == {e.id : e \in {f \in Elements(records) : f.db = d}}

\* The reader looks for the selected databases in what is left of the file; the
\* current one, and the record in hand, are among them.
Known(t, selected, records) ==
  /\ t.list = selected /\ Elements(t.rest) \subseteq Elements(records)
  /\ t.current # NoDatabase => t.current \in selected /\ Held(records, t.current) # {}
  /\ t.loaded => t.hand \in Held(records, t.current)

\* Moving on to a wanted record: it is in the file and of a selected database.
LEMMA KnownReached ==
  ASSUME NEW t, Reader(t), NEW selected, NEW records, Known(t, selected, records),
         NEW i \in 1..Len(t.rest), Wanted(t, i)
  PROVE  /\ Known(Reached(t, i), selected, records)
         /\ Reached(t, i).hand \in Held(records, Reached(t, i).current)
<1>1. t.rest \in Seq(Record) /\ t.rest[i] \in Record /\ t.rest[i] \in Elements(t.rest)
  BY DEF Reader, Readers, Elements
<1>2. t.rest[i].id \in Held(records, t.rest[i].db)
  BY <1>1 DEF Known, Held
<1>3. t.rest[i].db \in selected
  <2>1. t.rest[i].db # NoDatabase  BY <1>1, DatabasesAssumption DEF Record
  <2>. QED  BY <2>1 DEF Wanted, Known
<1>4. /\ Reached(t, i).list = t.list /\ Reached(t, i).rest = SubSeq(t.rest, i + 1, Len(t.rest))
      /\ Reached(t, i).current = t.rest[i].db /\ Reached(t, i).hand = t.rest[i].id
  BY DEF Reached, Reader, Readers
<1>5. Elements(SubSeq(t.rest, i + 1, Len(t.rest))) \subseteq Elements(t.rest)
  BY <1>1 DEF Elements
<1>. QED  BY <1>2, <1>3, <1>4, <1>5 DEF Known

\* The end of the file changes nothing that was known.
LEMMA KnownEnd ==
  ASSUME NEW t, Reader(t), NEW selected, NEW records, Known(t, selected, records)
  PROVE  Known(AtEnd(t), selected, records) /\ Known([t EXCEPT !.loaded = FALSE], selected, records)
<1>1. Elements(<< >>) = {}
  BY DEF Elements
<1>2. /\ AtEnd(t).list = t.list /\ AtEnd(t).rest = << >> /\ AtEnd(t).current = t.current
      /\ AtEnd(t).loaded = t.loaded /\ AtEnd(t).hand = t.hand
  BY DEF AtEnd, Reader, Readers
<1>3. PICK u : u = [t EXCEPT !.loaded = FALSE]
  OBVIOUS
<1>4. u.list = t.list /\ u.rest = t.rest /\ u.current = t.current /\ ~u.loaded
  BY <1>3 DEF Reader, Readers
<1>. QED  BY <1>1, <1>2, <1>3, <1>4 DEF Known

\* Retrieve keeps what is known of the reader; a yes puts a record of the current database in its hand.
LEMMA KnownRetrieve ==
  ASSUME NEW t, Reader(t), NEW selected, NEW records, Known(t, selected, records),
         NEW ok \in BOOLEAN, NEW t2, Retrieve(t, ok, t2)
  PROVE  Known(t2, selected, records) /\ (ok => t2.hand \in Held(records, t2.current))
<1>1. CASE t2 = t /\ (ok => t.loaded)
  BY <1>1 DEF Known
<1>2. CASE \E i \in 1..Len(t.rest) : Wanted(t, i) /\ t2 = Reached(t, i)
  BY <1>2, KnownReached
<1>3. CASE ~ok /\ t2 = AtEnd(t)
  BY <1>3, KnownEnd
<1>. QED  BY <1>1, <1>2, <1>3 DEF Retrieve, Reads, FirstOf, WantedPlaces

\* SkipCurrentDB keeps what is known of the reader.
LEMMA KnownSkip ==
  ASSUME NEW t, Reader(t), NEW selected, NEW records, Known(t, selected, records), NEW t2, SkipCurrentDB(t, t2)
  PROVE  Known(t2, selected, records)
<1>1. CASE t2 = AtEnd([t EXCEPT !.loaded = FALSE])
  <2>1. PICK u : u = [t EXCEPT !.loaded = FALSE]  OBVIOUS
  <2>2. Reader(u) /\ Known(u, selected, records)  BY <2>1, LoadedReads, KnownEnd
  <2>. QED  BY <1>1, <2>1, <2>2, KnownEnd
<1>2. CASE \E i \in 1..Len(t.rest) : Wanted(t, i) /\ t2 = Reached(t, i)
  BY <1>2, KnownReached
<1>. QED  BY <1>1, <1>2 DEF SkipCurrentDB, OtherPlaces, WantedPlaces

\* The database being saved is a selected one, and what is in it is from the file.
OInv ==
  worker.op = "restore" =>
    /\ Known(tar, chosen, file.records)
    /\ worker.pc = "saving" => device[tar.current] \subseteq InFile(tar.current)
    /\ RestoredOnly

\* The two names for what a file holds of a database.
LEMMA InFileHeld == \A d : InFile(d) = Held(file.records, d)
  BY DEF InFile, Held

\* A step that leaves the handheld, the worker and the reader alone.
LEMMA OnlyUnchanged ==
  ASSUME OInv, UNCHANGED <<device, file, tar, before, chosen>>, worker'.op \in {worker.op, "none"},
         worker'.pc = "saving" => worker.pc = "saving"
  PROVE  OInv'
  BY DEF OInv, RestoredOnly, InFile

\* A step touches at most the current database, and leaves in it what is in the file.
TouchesCurrent ==
  \A d \in OnDevice :
    \/ device'[d] = device[d]
    \/ d = tar.current /\ d \in chosen /\ InFile(d) # {} /\ device'[d] \subseteq InFile(d)

\* The steps of RestoreThread write nothing but what the reader was shown to hold.
LEMMA OnlyRestore ==
  ASSUME TInv, OInv,
         restore_next \/ ClearDatabase \/ ClearDatabase_fails \/ SetRecord \/ SetRecord_fails \/ saved \/ restore_fails
  PROVE  OInv'
<1>1. UNCHANGED <<file, before, chosen>> /\ worker.op = "restore"
  BY DEF restore_next, ClearDatabase, ClearDatabase_fails, SetRecord, SetRecord_fails, saved, restore_fails,
     Sound, Runs, operation
<1>2. Reader(tar) /\ Known(tar, chosen, file.records) /\ RestoredOnly
  BY <1>1 DEF TInv, OInv
<1>3. \A d : InFile(d)' = InFile(d) /\ InFile(d) = Held(file.records, d)
  BY <1>1 DEF InFile, Held
<1>4. ASSUME worker.pc \in {"clearing", "saving"}
      PROVE  /\ tar.current \in OnDevice /\ tar.current # NoDatabase
             /\ tar.current \in chosen /\ InFile(tar.current) # {}
  BY <1>2, <1>3, <1>4, DatabasesAssumption DEF TInv, AtWork, Known
<1>5. ASSUME Known(tar', chosen, file.records), worker'.pc # "saving", TouchesCurrent
      PROVE  OInv'
  <2>1. RestoredOnly'  BY <1>1, <1>2, <1>3, <1>5 DEF RestoredOnly, TouchesCurrent
  <2>. QED  BY <1>1, <1>5, <2>1 DEF OInv
<1>6. ASSUME NEW pc \in Pcs, Goto(pc)  PROVE worker'.pc = pc
  BY <1>6, WorkerFields DEF TInv, Goto
<1>7. CASE restore_next
  <2>1. UNCHANGED device  BY <1>7 DEF restore_next
  <2>2. worker'.pc # "saving"  BY <1>6, <1>7 DEF restore_next, Skip, Pcs
  <2>3. Known(tar', chosen, file.records)  BY <1>2, <1>7, KnownSkip DEF restore_next, Skip
  <2>4. TouchesCurrent  BY <2>1 DEF TouchesCurrent
  <2>. QED  BY <1>5, <2>2, <2>3, <2>4
<1>8. CASE ClearDatabase
  <2>1. /\ worker.pc = "clearing" /\ worker'.pc = "saving" /\ UNCHANGED tar
        /\ device' = [device EXCEPT ![tar.current] = {}]
    BY <1>6, <1>8 DEF ClearDatabase, Sound, Runs, Pcs
  <2>2. \A d \in OnDevice : device'[d] = IF d = tar.current THEN {} ELSE device[d]
    BY <2>1 DEF TInv, Devices
  <2>3. RestoredOnly'  BY <1>1, <1>2, <1>3, <1>4, <2>1, <2>2 DEF RestoredOnly
  <2>4. device'[tar.current] = {}  BY <1>4, <2>1, <2>2
  <2>. QED  BY <1>1, <1>2, <2>1, <2>3, <2>4 DEF OInv
<1>9. CASE ClearDatabase_fails
  <2>1. worker.pc = "clearing" /\ Skip  BY <1>9 DEF ClearDatabase_fails, Sound, Runs
  <2>2. PICK kept \in {{}, device[tar.current]} : device' = [device EXCEPT ![tar.current] = kept]
    BY <1>9 DEF ClearDatabase_fails
  <2>3. \A d \in OnDevice : device'[d] = IF d = tar.current THEN kept ELSE device[d]
    BY <2>2 DEF TInv, Devices
  <2>4. worker'.pc # "saving"  BY <1>6, <2>1 DEF Skip, Pcs
  <2>5. Known(tar', chosen, file.records)  BY <1>2, <2>1, KnownSkip DEF Skip
  <2>6. TouchesCurrent
    <3>1. CASE kept = {}  BY <1>4, <2>1, <2>3, <3>1 DEF TouchesCurrent
    <3>2. CASE kept = device[tar.current]  BY <2>3, <3>2 DEF TouchesCurrent
    <3>. QED  BY <2>2, <3>1, <3>2
  <2>. QED  BY <1>5, <2>4, <2>5, <2>6
<1>10. ASSUME NEW t, worker.pc = "saving", Retrieve(tar, TRUE, t)
       PROVE  /\ Reader(t) /\ Known(t, chosen, file.records) /\ t.current = tar.current
              /\ t.hand \in InFile(tar.current)
  <2>1. Reader(t) /\ t.current = tar.current
    BY <1>2, <1>4, <1>10, RetrieveReads
  <2>2. Known(t, chosen, file.records) /\ t.hand \in Held(file.records, t.current)
    BY <1>2, <1>10, KnownRetrieve
  <2>. QED  BY <1>3, <2>1, <2>2
<1>11. ASSUME worker.pc = "saving"
       PROVE  device[tar.current] \subseteq InFile(tar.current)
  BY <1>1, <1>11 DEF OInv
<1>12. CASE SetRecord
  <2>1. worker.pc = "saving" /\ UNCHANGED worker  BY <1>12 DEF SetRecord, Sound, Runs
  <2>2. PICK t \in {tar} \cup {Reached(tar, i) : i \in 1..Len(tar.rest)} :
          /\ Retrieve(tar, TRUE, t) /\ tar' = [t EXCEPT !.loaded = FALSE]
          /\ device' = [device EXCEPT ![t.current] = @ \cup {t.hand}]
    BY <1>12 DEF SetRecord
  <2>3. Reader(t) /\ Known(t, chosen, file.records) /\ t.current = tar.current /\ t.hand \in InFile(tar.current)
    BY <1>10, <2>1, <2>2
  <2>4. Known(tar', chosen, file.records) /\ tar'.current = tar.current
    BY <2>2, <2>3, KnownEnd, LoadedReads
  <2>5. \A d \in OnDevice : device'[d] = IF d = tar.current THEN device[d] \cup {t.hand} ELSE device[d]
    BY <2>2, <2>3 DEF TInv, Devices
  <2>6. device'[tar.current] \subseteq InFile(tar.current)
    BY <1>4, <1>11, <2>1, <2>3, <2>5
  <2>7. RestoredOnly'
    BY <1>1, <1>2, <1>3, <1>4, <2>1, <2>5, <2>6 DEF RestoredOnly
  <2>. QED  BY <1>1, <1>3, <2>1, <2>4, <2>6, <2>7 DEF OInv
<1>13. CASE SetRecord_fails
  <2>1. worker.pc = "saving" /\ Goto("next")  BY <1>13 DEF SetRecord_fails, Sound, Runs
  <2>2. PICK t \in {tar} \cup {Reached(tar, i) : i \in 1..Len(tar.rest)}, done \in BOOLEAN :
          /\ Retrieve(tar, TRUE, t) /\ SkipCurrentDB([t EXCEPT !.loaded = FALSE], tar')
          /\ device' = (IF done THEN [device EXCEPT ![t.current] = @ \cup {t.hand}] ELSE device)
    BY <1>13 DEF SetRecord_fails
  <2>3. Reader(t) /\ Known(t, chosen, file.records) /\ t.current = tar.current /\ t.hand \in InFile(tar.current)
    BY <1>10, <2>1, <2>2
  <2>4. PICK u : u = [t EXCEPT !.loaded = FALSE]  OBVIOUS
  <2>5. Reader(u) /\ Known(u, chosen, file.records)  BY <2>3, <2>4, KnownEnd, LoadedReads
  <2>6. Known(tar', chosen, file.records)  BY <2>2, <2>4, <2>5, KnownSkip
  <2>7. \A d \in OnDevice : device'[d] = device[d] \/ (d = tar.current /\ device'[d] = device[d] \cup {t.hand})
    <3>1. CASE done  BY <2>2, <2>3, <3>1 DEF TInv, Devices
    <3>2. CASE ~done  BY <2>2, <3>2
    <3>. QED  BY <3>1, <3>2
  <2>8. worker'.pc # "saving"  BY <1>6, <2>1 DEF Pcs
  <2>9. TouchesCurrent  BY <1>4, <1>11, <2>1, <2>3, <2>7 DEF TouchesCurrent
  <2>. QED  BY <1>5, <2>6, <2>8, <2>9
<1>14. CASE saved
  <2>1. UNCHANGED device /\ Goto("next") /\ Retrieve(tar, FALSE, tar')  BY <1>14 DEF saved
  <2>2. worker'.pc # "saving"  BY <1>6, <2>1 DEF Pcs
  <2>3. Known(tar', chosen, file.records)  BY <1>2, <2>1, KnownRetrieve
  <2>4. TouchesCurrent  BY <2>1 DEF TouchesCurrent
  <2>. QED  BY <1>5, <2>2, <2>3, <2>4
<1>15. CASE restore_fails
  <2>1. UNCHANGED <<device, tar>> /\ Goto("closing")  BY <1>15 DEF restore_fails
  <2>2. worker'.pc # "saving"  BY <1>6, <2>1 DEF Pcs
  <2>3. TouchesCurrent  BY <2>1 DEF TouchesCurrent
  <2>4. Known(tar', chosen, file.records)  BY <1>2, <2>1
  <2>. QED  BY <1>5, <2>2, <2>3, <2>4
<1>. QED  BY <1>7, <1>8, <1>9, <1>12, <1>13, <1>14, <1>15

\* All other steps keep it too: an operation that starts remembers the handheld as it is.
LEMMA OnlyOthers ==
  ASSUME TInv, OInv, [Next]_vars,
         ~(restore_next \/ ClearDatabase \/ ClearDatabase_fails \/ SetRecord \/ SetRecord_fails \/ saved \/ restore_fails)
  PROVE  OInv'
<1>0. worker \in Workers
  BY DEF TInv
<1>1. CASE crashes \/ close_throws \/ (\E list \in Lists : restore_throws(list))
  BY <1>1, OnlyUnchanged DEF crashes, close_throws, restore_throws, Stop, operation
<1>2. ASSUME NEW pc \in Pcs \ {"saving"}, Goto(pc), UNCHANGED <<device, file, tar, before, chosen>>  PROVE OInv'
  <2>1. worker'.op = worker.op /\ worker'.pc # "saving"  BY <1>0, <1>2, WorkerFields DEF Goto
  <2>. QED  BY <1>2, <2>1, OnlyUnchanged
<1>3. CASE close_tar \/ emit_error \/ emit_done
  BY <1>2, <1>3 DEF close_tar, Closed, emit_error, emit_done, operation, Pcs
<1>4. CASE Invalidate
  BY <1>4, OnlyUnchanged DEF Invalidate, NoWorker, operation
<1>5. CASE invalidated
  BY <1>5, OnlyUnchanged DEF invalidated, operation
<1>6. CASE backup_next \/ (\E r \in RecordIds : Store(r)) \/ loaded \/ backup_fails
  <2>1. worker'.op = "backup"
    BY <1>0, <1>6 DEF backup_next, Store, loaded, backup_fails, Goto, Sound, Runs, Workers
  <2>. QED  BY <2>1 DEF OInv
<1>7. CASE MainLoop \/ message_closed \/ treeview_update \/ select \/ UnsetActive \/ on_disconnect
  BY <1>7, OnlyUnchanged DEF MainLoop, on_thread_progress, on_thread_error, on_thread_done, message_closed,
     treeview_update, select, UnsetActive, on_disconnect, operation
<1>8. CASE \E list \in Lists : on_backup(list) \/ select_connects(list)
  BY <1>8 DEF on_backup, select_connects, StartBackup, NoWorker, OInv
<1>9. ASSUME NEW list \in Lists, on_restore(list)  PROVE OInv'
  <2>1. PICK t : t = [NoTar EXCEPT !.list = Elements(list), !.rest = file.records]
    OBVIOUS
  <2>2. Reader(t) /\ t.list = Elements(list) /\ t.rest = file.records /\ t.current = NoDatabase /\ ~t.loaded
    <3>1. list \in Seq(Databases)  BY ListsAssumption
    <3>2. Elements(list) \subseteq Databases  BY <3>1 DEF Elements
    <3>3. file.records \in Seq(Record)  BY DEF TInv, TarFiles
    <3>. QED  BY <2>1, <3>2, <3>3 DEF NoTar, Reader, Readers
  <2>3. PICK ok \in BOOLEAN : Retrieve(t, ok, tar')
    BY <1>9, <2>1 DEF on_restore, StartRestore
  <2>4. Known(t, Elements(list), file.records)  BY <2>2 DEF Known
  <2>5. Known(tar', Elements(list), file.records)  BY <2>2, <2>3, <2>4, KnownRetrieve
  <2>6. chosen' = Elements(list) /\ before' = device /\ UNCHANGED <<device, file>> /\ worker'.pc = "next"
    BY <1>9 DEF on_restore, StartRestore, Start, NoWorker
  <2>7. RestoredOnly'  BY <2>6 DEF RestoredOnly
  <2>. QED  BY <2>5, <2>6, <2>7 DEF OInv
<1>10. CASE UNCHANGED vars
  BY <1>10, OnlyUnchanged DEF vars, operation
<1>. QED  BY <1>1, <1>3, <1>4, <1>5, <1>6, <1>7, <1>8, <1>9, <1>10 DEF Next, Worker

\* A restore touches no database that is not both selected and in the file, and writes
\* nothing to it that is not in the file, whatever fails on the way
\* (SaveDatabase of m_desktop.cc, tarfile.cc).
THEOREM RestoredOnlyAlways == Spec => []RestoredOnly
<1>1. Init => OInv
  <2>. SUFFICES ASSUME Init  PROVE OInv
    OBVIOUS
  <2>1. worker.op = "none"  BY DEF Init, NoWorker
  <2>. QED  BY <2>1 DEF OInv
<1>2. TInv /\ OInv /\ [Next]_vars => OInv'
  BY OnlyRestore, OnlyOthers
<1>3. OInv => RestoredOnly
  BY DEF OInv, RestoredOnly
<1>4. Init => TInv  BY TypeInit
<1>5. TInv /\ [Next]_vars => TInv'  BY TypeStep
<1>. QED  BY <1>1, <1>2, <1>3, <1>4, <1>5, PTL DEF Spec
-----------------------------------------------------------------------------
(* What a backup has in its file.                                          *)

Unique(s) == \A i, j \in 1..Len(s) : s[i] = s[j] => i = j

\* A new element at the end of a sequence without repetitions.
LEMMA UniqueAppend ==
  ASSUME NEW S, NEW s \in Seq(S), NEW e \in S, Unique(s), e \notin Elements(s)
  PROVE  Unique(Append(s, e))
  BY DEF Unique, Elements

\* What is left of such a sequence, and that its head is not in it.
LEMMA UniqueTail ==
  ASSUME NEW S, NEW s \in Seq(S), s # << >>, Unique(s)
  PROVE  Unique(Tail(s)) /\ Head(s) \notin Elements(Tail(s))
<1>1. /\ Tail(s) \in Seq(S) /\ Len(Tail(s)) = Len(s) - 1 /\ Head(s) = s[1] /\ Len(s) \in Nat \ {0}
      /\ \A i \in 1..Len(s) - 1 : Tail(s)[i] = s[i + 1]
  BY HeadTailProperties, EmptySeq
<1>2. Unique(Tail(s))
  <2>1. SUFFICES ASSUME NEW i \in 1..Len(Tail(s)), NEW j \in 1..Len(Tail(s)), Tail(s)[i] = Tail(s)[j]
                 PROVE  i = j
    BY DEF Unique
  <2>2. i + 1 \in 1..Len(s) /\ j + 1 \in 1..Len(s) /\ s[i + 1] = s[j + 1]
    BY <1>1, <2>1
  <2>3. i + 1 = j + 1  BY <2>2 DEF Unique
  <2>. QED  BY <1>1, <2>3
<1>3. Head(s) \notin Elements(Tail(s))
  <2>1. SUFFICES ASSUME NEW i \in 1..Len(Tail(s)), Tail(s)[i] = Head(s)  PROVE FALSE
    BY DEF Elements
  <2>2. i + 1 \in 1..Len(s) /\ 1 \in 1..Len(s) /\ s[i + 1] = s[1]  BY <1>1, <2>1
  <2>. QED  BY <1>1, <2>2 DEF Unique
<1>. QED  BY <1>2, <1>3

\* While nothing has gone wrong, the databases that the worker is through with are
\* in the file, whole if their load was, the others are not, and the one it is
\* loading is half there.
BackedUp(d) == d \in OnDevice /\ InFile(d) \subseteq device[d] /\ (d \in short \/ InFile(d) = device[d])

Stored ==
  /\ ~file.torn /\ Unique(file.records)
  /\ \A d \in chosen \ Elements(worker.list) : BackedUp(d)
  /\ \A d \in Elements(worker.list) : InFile(d) = {} \/ (worker.pc = "loading" /\ d = Head(worker.list))
  /\ worker.pc = "loading" =>
       LET d == Head(worker.list)
       IN  d \in OnDevice /\ worker.todo \subseteq device[d] /\ InFile(d) = device[d] \ worker.todo

\* A backup that has gone wrong will say so or has said it.
WInv ==
  worker.op = "backup" =>
    /\ worker.pc \in {"next", "loading"} => ~worker.error
    /\ worker.pc \in {"closing", "error", "done", "invalidate"} /\ ~worker.error => worker.list = << >>
    /\ worker.pc \in {"done", "invalidate"} /\ worker.error => told
    /\ Unique(worker.list)
    /\ ~worker.error => Stored

\* A step that leaves the backup and its file alone.
LEMMA WholeUnchanged ==
  ASSUME WInv, UNCHANGED <<worker, device, file, chosen, short, told>>
  PROVE  WInv'
  BY DEF WInv, Stored, BackedUp, InFile

\* The steps of BackupThread: each record goes into the file once, before its database counts as done.
LEMMA WholeBackup ==
  ASSUME TInv, WInv, backup_next \/ (\E r \in RecordIds : Store(r)) \/ loaded \/ backup_fails
  PROVE  WInv'
<1>0. worker \in Workers /\ worker.list \in Seq(Databases) /\ worker.op = "backup" /\ worker.pc \in {"next", "loading"}
  BY DEF TInv, Workers, backup_next, Store, loaded, backup_fails, Sound, Runs
<1>1. Unique(worker.list) /\ ~worker.error /\ Stored
  BY <1>0 DEF WInv
<1>2. ASSUME worker' = [worker EXCEPT !.pc = "closing", !.error = TRUE]  PROVE WInv'
  <2>1. worker'.pc = "closing" /\ worker'.error /\ worker'.list = worker.list  BY <1>0, <1>2 DEF Workers
  <2>. QED  BY <1>1, <2>1 DEF WInv
<1>3. CASE backup_next
  <2>1. UNCHANGED <<device, file, chosen, short, told>> /\ worker.pc = "next"  BY <1>3 DEF backup_next, Runs, operation
  <2>2. \A d : InFile(d)' = InFile(d)  BY <2>1 DEF InFile
  <2>3. CASE worker.list = << >> /\ Goto("closing")
    <3>1. worker'.pc = "closing" /\ worker'.error = worker.error /\ worker'.list = << >>
      BY <1>0, <2>3 DEF Goto, Workers
    <3>2. Stored'  BY <1>1, <2>1, <2>2, <2>3, <3>1 DEF Stored, BackedUp
    <3>. QED  BY <1>1, <2>3, <3>1, <3>2 DEF WInv
  <2>4. CASE worker.list # << >> /\ Head(worker.list) \in OnDevice
             /\ worker' = [worker EXCEPT !.pc = "loading", !.todo = device[Head(worker.list)]]
    <3>1. /\ worker'.pc = "loading" /\ worker'.error = worker.error /\ worker'.list = worker.list
          /\ worker'.todo = device[Head(worker.list)]
      BY <1>0, <2>4 DEF Workers
    <3>2. Head(worker.list) \in Elements(worker.list)  BY <1>0, <2>4, TailElements
    <3>3. InFile(Head(worker.list)) = {}  BY <1>1, <2>1, <3>2 DEF Stored
    <3>4. Stored'  BY <1>1, <2>1, <2>2, <2>4, <3>1, <3>3 DEF Stored, BackedUp
    <3>. QED  BY <1>1, <3>1, <3>4 DEF WInv
  <2>. QED  BY <1>2, <1>3, <2>3, <2>4 DEF backup_next
<1>4. ASSUME NEW r \in RecordIds, Store(r)  PROVE WInv'
  <2>1. PICK d : d = Head(worker.list)
    OBVIOUS
  <2>2. /\ UNCHANGED <<device, chosen, short, told>> /\ worker.pc = "loading" /\ r \in worker.todo
        /\ worker' = [worker EXCEPT !.todo = @ \ {r}]
        /\ file' = [file EXCEPT !.records = Append(@, Entry(d, r))]
    BY <1>4, <2>1 DEF Store, Sound, Runs, operation
  <2>3. worker'.pc = "loading" /\ worker'.error = worker.error /\ worker'.list = worker.list /\ worker'.todo = worker.todo \ {r}
    BY <1>0, <2>2 DEF Workers
  <2>4. worker.list # << >>  BY <2>2 DEF TInv, AtWork
  <2>5. d \in Elements(worker.list) /\ d \in Databases  BY <1>0, <2>1, <2>4, TailElements
  <2>6. Entry(d, r) \in Record /\ file.records \in Seq(Record)  BY <2>5 DEF Entry, Record, TInv, TarFiles
  <2>7. file'.records = Append(file.records, Entry(d, r)) /\ file'.torn = file.torn
    BY <2>2 DEF TInv, TarFiles
  <2>8. Elements(file'.records) = Elements(file.records) \cup {Entry(d, r)}
    BY <2>6, <2>7, ElementsAppend
  <2>9. \A x : InFile(x)' = InFile(x) \cup (IF x = d THEN {r} ELSE {})
    <3>. SUFFICES ASSUME NEW x  PROVE InFile(x)' = InFile(x) \cup (IF x = d THEN {r} ELSE {})
      OBVIOUS
    <3>1. Entry(d, r).db = d /\ Entry(d, r).id = r  BY DEF Entry
    <3>2. PICK E : E = Elements(file.records)  OBVIOUS
    <3>3. PICK F : F = Elements(file'.records)  OBVIOUS
    <3>4. InFile(x) = {e.id : e \in {f \in E : f.db = x}} /\ InFile(x)' = {e.id : e \in {f \in F : f.db = x}}
      BY <3>2, <3>3 DEF InFile
    <3>5. F = E \cup {Entry(d, r)}  BY <2>8, <3>2, <3>3
    <3>6. CASE x = d
      <4>1. {f \in F : f.db = x} = {f \in E : f.db = x} \cup {Entry(d, r)}  BY <3>1, <3>5, <3>6
      <4>. QED  BY <3>1, <3>4, <3>6, <4>1
    <3>7. CASE x # d
      <4>1. {f \in F : f.db = x} = {f \in E : f.db = x}  BY <3>1, <3>5, <3>7
      <4>. QED  BY <3>4, <3>7, <4>1
    <3>. QED  BY <3>6, <3>7
  <2>10. r \notin InFile(d) /\ r \in device[d] /\ d \in OnDevice /\ InFile(d) = device[d] \ worker.todo /\ worker.todo \subseteq device[d]
    BY <1>1, <2>1, <2>2 DEF Stored
  <2>11. Entry(d, r) \notin Elements(file.records)
    BY <2>10 DEF InFile, Entry
  <2>12. Unique(file'.records)
    <3>1. Unique(file.records)  BY <1>1 DEF Stored
    <3>. QED  BY <2>6, <2>7, <2>11, <3>1, UniqueAppend
  <2>13. \A x \in chosen \ Elements(worker.list) : BackedUp(x)'
    <3>1. \A x \in chosen \ Elements(worker.list) : BackedUp(x) /\ InFile(x)' = InFile(x)
      BY <1>1, <2>5, <2>9 DEF Stored
    <3>. QED  BY <2>2, <3>1 DEF BackedUp
  <2>14. \A x \in Elements(worker.list) : InFile(x)' = {} \/ x = d
    BY <1>1, <2>1, <2>9 DEF Stored
  <2>15. InFile(d)' = device[d] \ worker'.todo /\ worker'.todo \subseteq device[d]
    BY <2>3, <2>9, <2>10
  <2>16. ~file'.torn  BY <1>1, <2>7 DEF Stored
  <2>17. Stored'
    BY <2>1, <2>2, <2>3, <2>10, <2>12, <2>13, <2>14, <2>15, <2>16 DEF Stored
  <2>. QED  BY <1>1, <2>3, <2>17 DEF WInv
<1>5. CASE loaded
  <2>1. UNCHANGED <<device, file, chosen, told>> /\ worker.pc = "loading"
        /\ worker' = [worker EXCEPT !.pc = "next", !.list = Tail(@), !.todo = {}]
        /\ short' = short \cup {d \in {Head(worker.list)} : worker.todo # {}}
    BY <1>5 DEF loaded, Sound, Runs
  <2>2. worker.list # << >>  BY <2>1 DEF TInv, AtWork
  <2>3. worker'.pc = "next" /\ worker'.error = worker.error /\ worker'.list = Tail(worker.list)
    BY <1>0, <2>1 DEF Workers
  <2>4. /\ Elements(worker.list) = Elements(Tail(worker.list)) \cup {Head(worker.list)}
        /\ Unique(Tail(worker.list)) /\ Head(worker.list) \notin Elements(Tail(worker.list))
    BY <1>0, <1>1, <2>2, TailElements, UniqueTail
  <2>5. \A d : InFile(d)' = InFile(d)  BY <2>1 DEF InFile
  <2>6. PICK h : h = Head(worker.list)  OBVIOUS
  <2>8. h \in OnDevice /\ worker.todo \subseteq device[h] /\ InFile(h) = device[h] \ worker.todo
    BY <1>1, <2>1, <2>6 DEF Stored
  <2>9. short' = short \cup {d \in {h} : worker.todo # {}}  BY <2>1, <2>6
  <2>10. BackedUp(h)'
    <3>1. InFile(h)' = device[h] \ worker.todo /\ device' = device  BY <2>1, <2>5, <2>8
    <3>2. h \in short' \/ worker.todo = {}  BY <2>9
    <3>. QED  BY <2>8, <3>1, <3>2 DEF BackedUp
  <2>7. Stored'
    <3>1. \A d \in chosen \ Elements(worker.list) : BackedUp(d)'
      <4>1. \A d \in chosen \ Elements(worker.list) : BackedUp(d) /\ InFile(d)' = InFile(d)
        BY <1>1, <2>5 DEF Stored
      <4>. QED  BY <2>1, <2>9, <4>1 DEF BackedUp
    <3>3. \A d \in chosen \ Elements(Tail(worker.list)) : BackedUp(d)'
      BY <2>4, <2>6, <2>10, <3>1
    <3>2. \A d \in Elements(Tail(worker.list)) : InFile(d) = {}
      BY <1>1, <2>4 DEF Stored
    <3>. QED  BY <1>1, <2>1, <2>3, <2>5, <3>2, <3>3 DEF Stored
  <2>. QED  BY <1>1, <2>3, <2>4, <2>7 DEF WInv
<1>6. CASE backup_fails
  BY <1>2, <1>6 DEF backup_fails
<1>. QED  BY <1>3, <1>4, <1>5, <1>6

\* All other steps: they end the backup, tell of its error, or start anew.
LEMMA WholeOthers ==
  ASSUME \A list \in Lists : Unique(list), TInv, WInv, [Next]_vars,
         ~(backup_next \/ (\E r \in RecordIds : Store(r)) \/ loaded \/ backup_fails)
  PROVE  WInv'
<1>0. worker \in Workers
  BY DEF TInv
<1>1. CASE crashes \/ close_throws \/ (\E list \in Lists : restore_throws(list))
  BY <1>1, WholeUnchanged DEF crashes, close_throws, restore_throws, Stop, operation
<1>2. ASSUME NEW pc \in {"error", "done", "invalidate"}, Goto(pc), worker.pc \in {"closing", "error", "done"},
             UNCHANGED <<device, file, chosen, short>>,
             pc = "error" \/ (worker.error => told')
      PROVE  WInv'
  <2>1. worker'.pc = pc /\ worker'.op = worker.op /\ worker'.error = worker.error /\ worker'.list = worker.list
    BY <1>0, <1>2 DEF Goto, Workers
  <2>2. Stored => Stored'  BY <1>2, <2>1 DEF Stored, BackedUp, InFile
  <2>. QED  BY <1>2, <2>1, <2>2 DEF WInv
<1>3. CASE close_tar
  BY <1>2, <1>3 DEF close_tar, Closed, Runs, operation
<1>4. CASE emit_error
  BY <1>2, <1>4 DEF emit_error, Runs, operation
<1>5. CASE emit_done
  <2>1. worker.op = "restore" \/ (worker.op = "backup" /\ (worker.error => told'))
    BY <1>5 DEF emit_done, Runs, Either, WInv
  <2>2. CASE worker.op = "restore"
    <3>1. worker'.op = "restore"  BY <1>0, <1>5, <2>2 DEF emit_done, Goto, Workers
    <3>. QED  BY <3>1 DEF WInv
  <2>3. CASE worker.error => told'
    BY <1>2, <1>5, <2>3 DEF emit_done, Runs, operation
  <2>. QED  BY <2>1, <2>2, <2>3
<1>6. CASE Invalidate
  <2>1. worker'.op = "none"  BY <1>6 DEF Invalidate, NoWorker
  <2>. QED  BY <2>1 DEF WInv
<1>7. CASE invalidated
  BY <1>7, WholeUnchanged DEF invalidated, operation
<1>8. CASE restore_next \/ ClearDatabase \/ ClearDatabase_fails \/ SetRecord \/ SetRecord_fails \/ saved \/ restore_fails
  <2>1. worker'.op = "restore"
    BY <1>0, <1>8 DEF restore_next, ClearDatabase, ClearDatabase_fails, SetRecord, SetRecord_fails, saved, restore_fails,
       Skip, Goto, Sound, Runs, Workers
  <2>. QED  BY <2>1 DEF WInv
<1>9. CASE MainLoop \/ message_closed \/ treeview_update \/ select \/ UnsetActive \/ on_disconnect
  BY <1>9, WholeUnchanged DEF MainLoop, on_thread_progress, on_thread_error, on_thread_done, message_closed,
     treeview_update, select, UnsetActive, on_disconnect, operation
<1>10. ASSUME NEW list \in Lists, NEW g, StartBackup(list, g)  PROVE WInv'
  <2>1. /\ worker'.pc = "next" /\ ~worker'.error /\ worker'.list = list
        /\ file' = [records |-> << >>, torn |-> FALSE] /\ chosen' = Elements(list)
    BY <1>10 DEF StartBackup, Start, NoWorker
  <2>2. \A d : InFile(d)' = {}  BY <2>1 DEF InFile, Elements
  <2>3. Unique(file'.records)  BY <2>1 DEF Unique
  <2>4. Stored'  BY <2>1, <2>2, <2>3 DEF Stored, BackedUp
  <2>. QED  BY <2>1, <2>4 DEF WInv
<1>11. CASE \E list \in Lists : on_backup(list) \/ select_connects(list)
  BY <1>10, <1>11 DEF on_backup, select_connects
<1>12. CASE \E list \in Lists : on_restore(list)
  <2>1. worker'.op = "restore"  BY <1>12 DEF on_restore, StartRestore, NoWorker
  <2>. QED  BY <2>1 DEF WInv
<1>13. CASE UNCHANGED vars
  BY <1>13, WholeUnchanged DEF vars, operation
<1>. QED  BY <1>1, <1>3, <1>4, <1>5, <1>6, <1>7, <1>8, <1>9, <1>11, <1>12, <1>13 DEF Next, Worker

\* A backup that has signalled no error has in its file the records of the selected
\* databases the handheld sent before it ended the load, each once: all of them,
\* or the database is one of short; for any selections that name no database twice
\* (BackupThread of DeviceIface.cc, LoadDatabase of m_desktop.cc).
THEOREM BackupWholeAlways ==
  ASSUME \A list \in Lists : Unique(list)
  PROVE  Spec => []BackupWhole
<1>1. Init => WInv
  <2>. SUFFICES ASSUME Init  PROVE WInv
    OBVIOUS
  <2>1. worker.op = "none"  BY DEF Init, NoWorker
  <2>. QED  BY <2>1 DEF WInv
<1>2. TInv /\ WInv /\ [Next]_vars => WInv'
  BY WholeBackup, WholeOthers
<1>3. TInv /\ WInv => BackupWhole
  <2>. SUFFICES ASSUME TInv, WInv, Through("backup"), ~told
                PROVE  /\ \A d \in chosen : BackedUp(d)
                       /\ \A i, j \in 1..Len(file.records) : file.records[i] = file.records[j] => i = j
                       /\ ~file.torn
    BY DEF BackupWhole, BackedUp
  <2>1. ~worker.error /\ worker.list = << >> /\ Stored
    BY DEF WInv, Through
  <2>2. Elements(worker.list) = {}  BY <2>1 DEF Elements
  <2>. QED  BY <2>1, <2>2 DEF Stored, Unique
<1>4. Init => TInv  BY TypeInit
<1>5. TInv /\ [Next]_vars => TInv'  BY TypeStep
<1>. QED  BY <1>1, <1>2, <1>3, <1>4, <1>5, PTL DEF Spec
-----------------------------------------------------------------------------
(* What a restore leaves in the databases.                                 *)

\* The records of a database stand together; those of d come first, or last.
Grouped(s) == \A i, k \in 1..Len(s) : i <= k /\ s[i].db = s[k].db => \A j \in i..k : s[j].db = s[i].db
Led(s, d) == \A k \in 1..Len(s) : s[k].db = d => \A j \in 1..k : s[j].db = d
Trailing(s, d) == \A k \in 1..Len(s) : s[k].db = d => \A j \in k..Len(s) : s[j].db = d

\* What the reader still has of a database, in hand or in the file.
Ahead(t, d) == Held(t.rest, d) \cup (IF t.loaded /\ t.current = d THEN {t.hand} ELSE {})

Ordered(t) ==
  /\ Grouped(t.rest) /\ Led(t.rest, t.current)
  /\ t.end => t.rest = << >> /\ ~t.loaded

\* What comes after a record in a file with the databases together: more of its database first.
LEMMA GroupedRest ==
  ASSUME NEW s \in Seq(Record), Grouped(s), NEW i \in 1..Len(s)
  PROVE  /\ Grouped(SubSeq(s, i + 1, Len(s)))
         /\ Led(SubSeq(s, i + 1, Len(s)), s[i].db)
<1>1. PICK r : r = SubSeq(s, i + 1, Len(s))
  OBVIOUS
<1>2. Len(r) = Len(s) - i /\ Len(s) \in Nat /\ i \in Nat
  BY <1>1
<1>3. \A k \in 1..Len(r) : r[k] = s[i + k]
  BY <1>1
<1>4. Grouped(r)
  <2>. SUFFICES ASSUME NEW j \in 1..Len(r), NEW k \in 1..Len(r), j <= k, r[j].db = r[k].db, NEW m \in j..k
                PROVE  r[m].db = r[j].db
    BY DEF Grouped
  <2>1. /\ m \in 1..Len(r) /\ i + j \in 1..Len(s) /\ i + k \in 1..Len(s) /\ i + m \in (i + j)..(i + k)
        /\ i + j <= i + k
    BY <1>2
  <2>2. s[i + j].db = s[i + k].db  BY <1>3
  <2>3. s[i + m].db = s[i + j].db  BY <2>1, <2>2 DEF Grouped
  <2>. QED  BY <1>3, <2>1, <2>3
<1>5. Led(r, s[i].db)
  <2>. SUFFICES ASSUME NEW k \in 1..Len(r), r[k].db = s[i].db, NEW j \in 1..k
                PROVE  r[j].db = s[i].db
    BY DEF Led
  <2>1. j \in 1..Len(r) /\ i + k \in 1..Len(s) /\ i + j \in i..(i + k) /\ i <= i + k
    BY <1>2
  <2>2. s[i].db = s[i + k].db  BY <1>3
  <2>3. s[i + j].db = s[i].db  BY <2>1, <2>2 DEF Grouped
  <2>. QED  BY <1>3, <2>1, <2>3
<1>. QED  BY <1>1, <1>4, <1>5

\* Passing over records of other databases loses none of d.
LEMMA HeldRest ==
  ASSUME NEW s \in Seq(Record), NEW i \in 1..Len(s), NEW d, \A j \in 1..Len(s) : j < i => s[j].db # d
  PROVE  Held(s, d) = Held(SubSeq(s, i + 1, Len(s)), d) \cup (IF s[i].db = d THEN {s[i].id} ELSE {})
<1>1. PICK r : r = SubSeq(s, i + 1, Len(s))
  OBVIOUS
<1>2. Len(r) = Len(s) - i /\ Len(s) \in Nat /\ i \in Nat
  BY <1>1
<1>3. \A k \in 1..Len(r) : r[k] = s[i + k]
  BY <1>1
<1>4. PICK one : one = IF s[i].db = d THEN {s[i].id} ELSE {}
  OBVIOUS
<1>5. Held(s, d) \subseteq Held(r, d) \cup one
  <2>. SUFFICES ASSUME NEW k \in 1..Len(s), s[k].db = d  PROVE s[k].id \in Held(r, d) \cup one
    BY DEF Held, Elements
  <2>1. k >= i  BY <1>2
  <2>2. CASE k = i  BY <1>4, <2>2
  <2>3. CASE k # i
    <3>1. k - i \in 1..Len(r) /\ i + (k - i) = k  BY <1>2, <2>1, <2>3
    <3>2. r[k - i] = s[k]  BY <1>3, <3>1
    <3>3. s[k] \in Elements(r)  BY <3>1, <3>2 DEF Elements
    <3>. QED  BY <3>3 DEF Held
  <2>. QED  BY <2>2, <2>3
<1>6. Held(r, d) \subseteq Held(s, d)
  <2>. SUFFICES ASSUME NEW k \in 1..Len(r), r[k].db = d  PROVE r[k].id \in Held(s, d)
    BY DEF Held, Elements
  <2>1. i + k \in 1..Len(s)  BY <1>2
  <2>2. r[k] \in Elements(s)  BY <1>3, <2>1 DEF Elements
  <2>. QED  BY <2>2 DEF Held
<1>7. one \subseteq Held(s, d)
  <2>1. s[i] \in Elements(s)  BY DEF Elements
  <2>. QED  BY <1>4, <2>1 DEF Held
<1>. QED  BY <1>1, <1>4, <1>5, <1>6, <1>7

\* A file without the database has nothing of it.
LEMMA HeldNone ==
  ASSUME NEW s, NEW d, \A j \in 1..Len(s) : s[j].db # d
  PROVE  Held(s, d) = {}
  BY DEF Held, Elements

\* Moving on to a record before which there is none of d.
LEMMA AheadReached ==
  ASSUME NEW t, Reader(t), Ordered(t), ~t.end, NEW i \in 1..Len(t.rest)
  PROVE  /\ Ordered(Reached(t, i)) /\ Reached(t, i).loaded /\ ~Reached(t, i).end
         /\ Reached(t, i).current = t.rest[i].db
         /\ \A d : (\A j \in 1..Len(t.rest) : j < i => t.rest[j].db # d) => Ahead(Reached(t, i), d) = Held(t.rest, d)
<1>1. t.rest \in Seq(Record)
  BY DEF Reader, Readers
<1>2. PICK u : u = Reached(t, i)
  OBVIOUS
<1>3. /\ u.rest = SubSeq(t.rest, i + 1, Len(t.rest)) /\ u.loaded /\ ~u.end
      /\ u.current = t.rest[i].db /\ u.hand = t.rest[i].id
  BY <1>2 DEF Reached, Reader, Readers
<1>4. Ordered(u)
  BY <1>1, <1>3, GroupedRest DEF Ordered
<1>5. ASSUME NEW d, \A j \in 1..Len(t.rest) : j < i => t.rest[j].db # d
      PROVE  Ahead(u, d) = Held(t.rest, d)
  BY <1>1, <1>3, <1>5, HeldRest DEF Ahead
<1>. QED  BY <1>2, <1>3, <1>4, <1>5

\* At its end a reader has nothing of any database.
LEMMA AheadEnd ==
  ASSUME NEW t, Reader(t), ~t.loaded, NEW selected,
         \A d \in selected : \A j \in 1..Len(t.rest) : t.rest[j].db # d
  PROVE  /\ Ordered(AtEnd(t)) /\ AtEnd(t).end
         /\ \A d \in selected : Ahead(AtEnd(t), d) = Ahead(t, d) /\ Ahead(t, d) = {}
<1>1. PICK u : u = AtEnd(t)
  OBVIOUS
<1>2. u.rest = << >> /\ u.end /\ ~u.loaded
  BY <1>1 DEF AtEnd, Reader, Readers
<1>3. Len(<< >>) = 0
  OBVIOUS
<1>4. Ordered(u)
  BY <1>2, <1>3 DEF Ordered, Grouped, Led
<1>5. ASSUME NEW d \in selected  PROVE Ahead(u, d) = {} /\ Ahead(t, d) = {}
  <2>1. Held(t.rest, d) = {}  BY HeldNone
  <2>2. Held(u.rest, d) = {}  BY <1>2, <1>3, HeldNone
  <2>. QED  BY <1>2, <2>1, <2>2 DEF Ahead
<1>. QED  BY <1>1, <1>2, <1>4, <1>5

\* Retrieve loses nothing of the selected databases: it answers no only when nothing is
\* left of the current one, and then is at the end of the file or has a record in hand.
LEMMA AheadRetrieve ==
  ASSUME NEW t, Reader(t), Ordered(t), t.current \in t.list \cup {NoDatabase},
         NEW ok \in BOOLEAN, NEW t2, Retrieve(t, ok, t2)
  PROVE  /\ Ordered(t2) /\ t2.list = t.list
         /\ \A d \in t.list : Ahead(t2, d) = Ahead(t, d)
         /\ ok => t2.loaded /\ ~t2.end
         /\ ~ok => (t2.end \/ t2.loaded) /\ (t.current \in t.list => Ahead(t, t.current) = {})
<1>1. CASE t.end /\ ~ok /\ t2 = t
  <2>1. ~t.loaded /\ Len(t.rest) = 0  BY <1>1 DEF Ordered
  <2>2. Held(t.rest, t.current) = {}  BY <2>1, HeldNone
  <2>3. Ahead(t, t.current) = {}  BY <2>1, <2>2 DEF Ahead
  <2>. QED  BY <1>1, <2>3
<1>2. CASE ~t.end /\ t.loaded /\ ok /\ t2 = t
  BY <1>2
<1>3. ASSUME ~t.end, ~t.loaded, WantedPlaces(t) = {}, ~ok, t2 = AtEnd(t)
      PROVE  /\ Ordered(t2) /\ t2.list = t.list /\ t2.end
             /\ \A d \in t.list : Ahead(t2, d) = Ahead(t, d) /\ Ahead(t, d) = {}
  <2>1. \A d \in t.list : \A j \in 1..Len(t.rest) : t.rest[j].db # d
    BY <1>3 DEF WantedPlaces, Wanted
  <2>2. t2.list = t.list  BY <1>3 DEF AtEnd, Reader, Readers
  <2>. QED  BY <1>3, <2>1, <2>2, AheadEnd
<1>4. ASSUME ~t.end, ~t.loaded, NEW i \in 1..Len(t.rest), FirstOf(WantedPlaces(t), i),
             ok = (t.current \in {NoDatabase, t.rest[i].db}), t2 = Reached(t, i)
      PROVE  /\ Ordered(t2) /\ t2.list = t.list /\ t2.loaded /\ ~t2.end
             /\ \A d \in t.list : Ahead(t2, d) = Ahead(t, d)
             /\ ~ok /\ t.current \in t.list => Ahead(t, t.current) = {}
  <2>1. t.rest \in Seq(Record) /\ Len(t.rest) \in Nat  BY DEF Reader, Readers
  <2>2. \A j \in 1..Len(t.rest) : j < i => t.rest[j].db \notin t.list /\ t.rest[j].db # t.current
    <3>. SUFFICES ASSUME NEW j \in 1..Len(t.rest), j < i, Wanted(t, j)  PROVE FALSE
      BY DEF Wanted
    <3>1. j \in WantedPlaces(t)  BY DEF WantedPlaces
    <3>2. i <= j  BY <1>4, <3>1 DEF FirstOf
    <3>. QED  BY <2>1, <3>2
  <2>3. /\ Ordered(t2) /\ t2.loaded /\ ~t2.end
        /\ \A d : (\A j \in 1..Len(t.rest) : j < i => t.rest[j].db # d) => Ahead(t2, d) = Held(t.rest, d)
    BY <1>4, AheadReached
  <2>4. \A d \in t.list : Ahead(t2, d) = Held(t.rest, d)  BY <2>2, <2>3
  <2>5. \A d : Ahead(t, d) = Held(t.rest, d)  BY <1>4 DEF Ahead
  <2>6. t2.list = t.list  BY <1>4 DEF Reached, Reader, Readers
  <2>7. ASSUME ~ok, t.current \in t.list  PROVE Ahead(t, t.current) = {}
    <3>1. t.rest[i].db # t.current  BY <1>4, <2>7
    <3>2. ASSUME NEW k \in 1..Len(t.rest), t.rest[k].db = t.current  PROVE FALSE
      <4>1. ~(k < i)  BY <2>2, <3>2
      <4>2. i \in 1..k  BY <2>1, <4>1
      <4>3. t.rest[i].db = t.current  BY <3>2, <4>2 DEF Ordered, Led
      <4>. QED  BY <3>1, <4>3
    <3>3. Held(t.rest, t.current) = {}  BY <3>2, HeldNone
    <3>. QED  BY <2>5, <3>3
  <2>. QED  BY <2>3, <2>4, <2>5, <2>6, <2>7
<1>5. CASE ~t.end /\ ~t.loaded /\ Reads(t, ok, t2)
  <2>1. CASE WantedPlaces(t) = {} /\ ~ok /\ t2 = AtEnd(t)  BY <1>3, <1>5, <2>1
  <2>2. CASE \E i \in 1..Len(t.rest) : /\ FirstOf(WantedPlaces(t), i)
                                       /\ (ok = (t.current \in {NoDatabase, t.rest[i].db})) /\ t2 = Reached(t, i)
    BY <1>4, <1>5, <2>2
  <2>. QED  BY <1>5, <2>1, <2>2 DEF Reads
<1>. QED  BY <1>1, <1>2, <1>5 DEF Retrieve

\* SkipCurrentDB drops the current database and loses nothing of the others.
LEMMA AheadSkip ==
  ASSUME NEW t, Reader(t), Ordered(t), ~t.end, t.current \in t.list, NEW t2, SkipCurrentDB(t, t2)
  PROVE  /\ Ordered(t2) /\ (t2.end \/ t2.loaded)
         /\ \A d \in t.list \ {t.current} : Ahead(t2, d) = Ahead(t, d)
<1>1. t.rest \in Seq(Record) /\ Len(t.rest) \in Nat
  BY DEF Reader, Readers
<1>2. \A d \in t.list \ {t.current} : Ahead(t, d) = Held(t.rest, d)
  BY DEF Ahead
<1>3. CASE OtherPlaces(t) = {} /\ t2 = AtEnd([t EXCEPT !.loaded = FALSE])
  <2>1. PICK u : u = [t EXCEPT !.loaded = FALSE]  OBVIOUS
  <2>2. Reader(u) /\ u.rest = t.rest /\ u.current = t.current  BY <2>1, LoadedReads
  <2>3. ~u.loaded  BY <2>1 DEF Reader, Readers
  <2>4. \A d \in t.list \ {t.current} : \A j \in 1..Len(u.rest) : u.rest[j].db # d
    BY <1>3, <2>2 DEF OtherPlaces, WantedPlaces, Wanted
  <2>5. /\ Ordered(t2) /\ t2.end
        /\ \A d \in t.list \ {t.current} : Ahead(t2, d) = Ahead(u, d) /\ Ahead(u, d) = {}
    BY <1>3, <2>1, <2>2, <2>3, <2>4, AheadEnd
  <2>6. \A d \in t.list \ {t.current} : Ahead(u, d) = Held(t.rest, d)  BY <2>2, <2>3 DEF Ahead
  <2>. QED  BY <1>2, <2>5, <2>6
<1>4. ASSUME NEW i \in OtherPlaces(t), FirstOf(OtherPlaces(t), i), t2 = Reached(t, i)
      PROVE  /\ Ordered(t2) /\ t2.loaded
             /\ \A d \in t.list \ {t.current} : Ahead(t2, d) = Ahead(t, d)
  <2>1. i \in 1..Len(t.rest)  BY DEF OtherPlaces, WantedPlaces
  <2>2. \A j \in 1..Len(t.rest) : j < i => t.rest[j].db \notin t.list \ {t.current}
    <3>. SUFFICES ASSUME NEW j \in 1..Len(t.rest), j < i, t.rest[j].db \in t.list \ {t.current}  PROVE FALSE
      OBVIOUS
    <3>1. j \in OtherPlaces(t)  BY DEF OtherPlaces, WantedPlaces, Wanted
    <3>2. i <= j  BY <1>4, <3>1 DEF FirstOf
    <3>. QED  BY <1>1, <2>1, <3>2
  <2>3. /\ Ordered(t2) /\ t2.loaded
        /\ \A d : (\A j \in 1..Len(t.rest) : j < i => t.rest[j].db # d) => Ahead(t2, d) = Held(t.rest, d)
    BY <1>4, <2>1, AheadReached
  <2>. QED  BY <1>2, <2>2, <2>3
<1>. QED  BY <1>3, <1>4 DEF SkipCurrentDB

\* Taking the record out of the hand.
LEMMA AheadTaken ==
  ASSUME NEW t, Reader(t), Ordered(t), NEW u, u = [t EXCEPT !.loaded = FALSE]
  PROVE  /\ Ordered(u) /\ u.end = t.end /\ u.list = t.list /\ u.current = t.current
         /\ \A d : d # t.current => Ahead(u, d) = Ahead(t, d)
         /\ t.loaded => Ahead(t, t.current) = Ahead(u, t.current) \cup {t.hand}
<1>1. /\ u.end = t.end /\ u.list = t.list /\ u.current = t.current /\ u.rest = t.rest /\ ~u.loaded
  BY DEF Reader, Readers
<1>. QED  BY <1>1 DEF Ordered, Ahead

\* How far a restore is with a database: it has been cleared and what is not written is
\* still to be read; or it has not been reached, or is finished.
Restoring(d) == worker.pc = "saving" /\ d = tar.current

Underway(d) ==
  IF Restoring(d) THEN device[d] \cup Ahead(tar, d) = InFile(d)
  ELSE Ahead(tar, d) = InFile(d) \/ (Ahead(tar, d) = {} /\ device[d] = InFile(d))

Whole(d) == InFile(d) # {} => device[d] = InFile(d)

Restore == {"next", "clearing", "saving"}
Sparing == OnDevice \cap (chosen \ failed)

\* The files have their databases together, those that backups write too, as a backup
\* is through with the databases that are not last.
MInv ==
  /\ Grouped(file.records)
  /\ worker.op = "backup" /\ worker.pc \in {"next", "loading"} =>
       \A d \in Elements(worker.list) : Trailing(file.records, d)
  /\ worker.op = "restore" /\ worker.pc \in Restore =>
       /\ Ordered(tar)
       /\ worker.pc # "saving" => tar.end \/ tar.loaded
       /\ worker.pc # "next" => ~tar.end
       /\ \A d \in Sparing : Underway(d)
  /\ worker.op = "restore" /\ worker.pc \notin Restore => \A d \in Sparing : Whole(d)

\* The reader at its end has written all of what it was to write.
LEMMA EndWhole ==
  ASSUME NEW d, Underway(d), ~Restoring(d), Ahead(tar, d) = {}
  PROVE  Whole(d)
  BY DEF Underway, Whole

\* The steps of RestoreThread write every record of the databases they spare.
LEMMA MoreRestore ==
  ASSUME TInv, OInv, MInv,
         restore_next \/ ClearDatabase \/ ClearDatabase_fails \/ SetRecord \/ SetRecord_fails \/ saved \/ restore_fails
  PROVE  MInv'
<1>1. UNCHANGED <<file, before, chosen>> /\ worker.op = "restore" /\ worker.pc \in Restore
  BY DEF restore_next, ClearDatabase, ClearDatabase_fails, SetRecord, SetRecord_fails, saved, restore_fails,
     Sound, Runs, operation, Restore
<1>2. /\ Reader(tar) /\ tar.list = chosen /\ Ordered(tar) /\ \A d \in Sparing : Underway(d)
      /\ Grouped(file.records)
      /\ worker.pc # "saving" => tar.end \/ tar.loaded
      /\ worker.pc # "next" => ~tar.end
  BY <1>1 DEF TInv, OInv, Known, MInv
<1>3. \A d : InFile(d)' = InFile(d)
  BY <1>1 DEF InFile
<1>4. tar.end \/ tar.current \in chosen
  <2>1. tar.end \/ tar.current # NoDatabase
    BY <1>1, DatabasesAssumption DEF TInv, AtWork, Restore
  <2>. QED  BY <1>1, <2>1 DEF OInv, Known
<1>5. ASSUME worker.pc \in {"clearing", "saving"}
      PROVE  tar.current \in OnDevice /\ ~tar.end /\ tar.current \in chosen
  BY <1>2, <1>4, <1>5 DEF TInv, AtWork
<1>6. ASSUME NEW pc \in Pcs, Goto(pc)  PROVE worker'.pc = pc /\ worker'.op = "restore"
  BY <1>1, <1>6, WorkerFields DEF TInv, Goto
<1>7. ASSUME NEW pc \in Restore, worker'.pc = pc, worker'.op = "restore", Ordered(tar'),
             pc # "saving" => tar'.end \/ tar'.loaded, pc # "next" => ~tar'.end,
             \A d \in OnDevice \cap (chosen \ failed') : Underway(d)'
      PROVE  MInv'
  BY <1>1, <1>2, <1>7 DEF MInv, Sparing
<1>8. ASSUME worker'.pc = "closing", worker'.op = "restore", \A d \in OnDevice \cap (chosen \ failed') : Whole(d)'
      PROVE  MInv'
  BY <1>1, <1>2, <1>8 DEF MInv, Sparing, Restore
\* What a step that goes on to the next database leaves alone is as it was.
<1>9. ASSUME NEW d \in Sparing, d # tar.current, worker'.pc = "next" \/ tar'.current = tar.current,
             Ahead(tar', d) = Ahead(tar, d), device'[d] = device[d]
      PROVE  Underway(d)'
  <2>1. ~Restoring(d) /\ ~Restoring(d)'  BY <1>9 DEF Restoring
  <2>2. Ahead(tar, d)' = Ahead(tar, d) /\ device[d]' = device[d]
    BY <1>9
  <2>3. Ahead(tar, d) = InFile(d) \/ (Ahead(tar, d) = {} /\ device[d] = InFile(d))
    BY <1>2, <2>1 DEF Underway
  <2>. QED  BY <1>3, <2>1, <2>2, <2>3 DEF Underway
<1>10. ASSUME ~tar.end, Goto("next"), NEW u, Reader(u), Ordered(u), ~u.end, u.list = chosen, u.current = tar.current,
              \A d \in chosen : d # tar.current => Ahead(u, d) = Ahead(tar, d),
              SkipCurrentDB(u, tar'), failed' = failed \cup {tar.current},
              \A d \in OnDevice : d # tar.current => device'[d] = device[d]
       PROVE  MInv'
  <2>1. worker'.pc = "next" /\ worker'.op = "restore"  BY <1>6, <1>10 DEF Pcs
  <2>2. /\ Ordered(tar') /\ (tar'.end \/ tar'.loaded)
        /\ \A d \in chosen \ {tar.current} : Ahead(tar', d) = Ahead(tar, d)
    BY <1>4, <1>10, AheadSkip
  <2>3. \A d \in OnDevice \cap (chosen \ failed') : Underway(d)'
    BY <1>9, <1>10, <2>1, <2>2 DEF Sparing
  <2>. QED  BY <1>7, <2>1, <2>2, <2>3 DEF Restore
<1>11. CASE restore_next
  <2>1. UNCHANGED device /\ worker.pc = "next"  BY <1>11 DEF restore_next, Runs
  <2>2. CASE tar.end /\ Goto("closing") /\ UNCHANGED <<tar, failed>>
    <3>1. worker'.pc = "closing" /\ worker'.op = "restore"  BY <1>6, <2>2 DEF Pcs
    <3>2. \A d : Ahead(tar, d) = {}
      <4>1. ~tar.loaded /\ Len(tar.rest) = 0  BY <1>2, <2>2 DEF Ordered
      <4>. QED  BY <4>1, HeldNone DEF Ahead
    <3>3. \A d \in Sparing : Whole(d)  BY <1>2, <2>1, <3>2, EndWhole DEF Restoring
    <3>4. \A d \in OnDevice \cap (chosen \ failed') : Whole(d)'
      BY <1>3, <2>1, <2>2, <3>3 DEF Whole, Sparing
    <3>. QED  BY <1>8, <3>1, <3>4
  <2>3. CASE ~tar.end /\ Skip
    BY <1>2, <1>10, <2>1, <2>3 DEF Skip
  <2>4. CASE ~tar.end /\ Goto("clearing") /\ UNCHANGED <<tar, failed>>
    <3>1. worker'.pc = "clearing" /\ worker'.op = "restore"  BY <1>6, <2>4 DEF Pcs
    <3>2. \A d \in Sparing : Underway(d)'
      BY <1>2, <1>3, <2>1, <2>4, <3>1 DEF Underway, Restoring, Ahead
    <3>. QED  BY <1>2, <1>7, <2>1, <2>4, <3>1, <3>2 DEF Restore, Sparing
  <2>. QED  BY <1>11, <2>2, <2>3, <2>4 DEF restore_next
<1>12. CASE ClearDatabase
  <2>1. /\ worker.pc = "clearing" /\ Goto("saving") /\ UNCHANGED <<tar, failed>>
        /\ device' = [device EXCEPT ![tar.current] = {}]
    BY <1>12 DEF ClearDatabase, Sound, Runs
  <2>2. worker'.pc = "saving" /\ worker'.op = "restore"  BY <1>6, <2>1 DEF Pcs
  <2>3. \A d \in OnDevice : device'[d] = IF d = tar.current THEN {} ELSE device[d]
    BY <2>1 DEF TInv, Devices
  <2>4. ASSUME NEW d \in Sparing, d = tar.current  PROVE Underway(d)'
    <3>1. ~Restoring(d) /\ Restoring(d)'  BY <2>1, <2>2, <2>4 DEF Restoring
    <3>2. tar.hand \in Ahead(tar, d)  BY <1>2, <1>5, <2>1, <2>4 DEF Ahead
    <3>3. Ahead(tar, d) = InFile(d)  BY <1>2, <3>1, <3>2 DEF Underway
    <3>4. device'[d] = {} /\ tar' = tar  BY <2>1, <2>3, <2>4 DEF Sparing
    <3>. QED  BY <1>3, <3>1, <3>3, <3>4 DEF Underway, Ahead
  <2>5. \A d \in Sparing : Underway(d)'
    BY <1>9, <2>1, <2>3, <2>4 DEF Sparing
  <2>. QED  BY <1>2, <1>5, <1>7, <2>1, <2>2, <2>5 DEF Restore, Sparing
<1>13. CASE ClearDatabase_fails
  <2>1. worker.pc = "clearing" /\ Skip  BY <1>13 DEF ClearDatabase_fails, Sound, Runs
  <2>2. PICK kept \in {{}, device[tar.current]} : device' = [device EXCEPT ![tar.current] = kept]
    BY <1>13 DEF ClearDatabase_fails
  <2>3. \A d \in OnDevice : d # tar.current => device'[d] = device[d]
    BY <2>2 DEF TInv, Devices
  <2>. QED  BY <1>2, <1>5, <1>10, <2>1, <2>3 DEF Skip
<1>14. ASSUME NEW t, worker.pc = "saving", Retrieve(tar, TRUE, t)
       PROVE  /\ Reader(t) /\ t.current = tar.current /\ Ordered(t) /\ t.list = chosen /\ t.loaded /\ ~t.end
              /\ \A d \in chosen : Ahead(t, d) = Ahead(tar, d)
  <2>1. tar.current # NoDatabase /\ tar.current \in tar.list
    BY <1>2, <1>5, <1>14, DatabasesAssumption
  <2>2. Reader(t) /\ t.current = tar.current  BY <1>2, <1>14, <2>1, RetrieveReads
  <2>3. Ordered(t) /\ t.list = chosen /\ t.loaded /\ ~t.end /\ \A d \in chosen : Ahead(t, d) = Ahead(tar, d)
    BY <1>2, <1>14, <2>1, AheadRetrieve
  <2>. QED  BY <2>2, <2>3
<1>15. CASE SetRecord
  <2>1. worker.pc = "saving" /\ UNCHANGED <<worker, failed>>  BY <1>15 DEF SetRecord, Sound, Runs
  <2>2. PICK t \in {tar} \cup {Reached(tar, i) : i \in 1..Len(tar.rest)} :
          /\ Retrieve(tar, TRUE, t) /\ tar' = [t EXCEPT !.loaded = FALSE]
          /\ device' = [device EXCEPT ![t.current] = @ \cup {t.hand}]
    BY <1>15 DEF SetRecord
  <2>3. /\ Reader(t) /\ t.current = tar.current /\ Ordered(t) /\ t.list = chosen /\ t.loaded /\ ~t.end
        /\ \A d \in chosen : Ahead(t, d) = Ahead(tar, d)
    BY <1>14, <2>1, <2>2
  <2>4. /\ Ordered(tar') /\ ~tar'.end /\ tar'.current = tar.current
        /\ \A d : d # tar.current => Ahead(tar', d) = Ahead(t, d)
        /\ Ahead(t, tar.current) = Ahead(tar', tar.current) \cup {t.hand}
    BY <2>2, <2>3, AheadTaken
  <2>5. \A d \in OnDevice : device'[d] = IF d = tar.current THEN device[d] \cup {t.hand} ELSE device[d]
    BY <2>2, <2>3 DEF TInv, Devices
  <2>6. ASSUME NEW d \in Sparing, d = tar.current  PROVE Underway(d)'
    <3>1. Restoring(d) /\ Restoring(d)'  BY <2>1, <2>4, <2>6 DEF Restoring
    <3>2. device[d] \cup Ahead(tar, d) = InFile(d)  BY <1>2, <3>1 DEF Underway
    <3>3. device'[d] = device[d] \cup {t.hand} /\ Ahead(tar, d) = Ahead(tar', d) \cup {t.hand}
      BY <2>3, <2>4, <2>5, <2>6 DEF Sparing
    <3>4. device'[d] \cup Ahead(tar', d) = InFile(d)  BY <3>2, <3>3
    <3>. QED  BY <1>3, <3>1, <3>4 DEF Underway
  <2>7. \A d \in Sparing : Underway(d)'
    BY <1>9, <2>3, <2>4, <2>5, <2>6 DEF Sparing
  <2>8. worker'.pc = "saving" /\ worker'.op = "restore"  BY <1>1, <2>1
  <2>. QED  BY <1>7, <2>1, <2>4, <2>7, <2>8 DEF Restore, Sparing
<1>16. CASE SetRecord_fails
  <2>1. worker.pc = "saving" /\ Goto("next")  BY <1>16 DEF SetRecord_fails, Sound, Runs
  <2>2. PICK t \in {tar} \cup {Reached(tar, i) : i \in 1..Len(tar.rest)}, done \in BOOLEAN :
          /\ Retrieve(tar, TRUE, t) /\ SkipCurrentDB([t EXCEPT !.loaded = FALSE], tar')
          /\ device' = (IF done THEN [device EXCEPT ![t.current] = @ \cup {t.hand}] ELSE device)
          /\ failed' = failed \cup {t.current}
    BY <1>16 DEF SetRecord_fails
  <2>3. /\ Reader(t) /\ t.current = tar.current /\ Ordered(t) /\ t.list = chosen /\ t.loaded /\ ~t.end
        /\ \A d \in chosen : Ahead(t, d) = Ahead(tar, d)
    BY <1>14, <2>1, <2>2
  <2>4. PICK u : u = [t EXCEPT !.loaded = FALSE]  OBVIOUS
  <2>5. /\ Ordered(u) /\ ~u.end /\ u.list = chosen /\ u.current = tar.current
        /\ \A d \in chosen : d # tar.current => Ahead(u, d) = Ahead(tar, d)
    BY <2>3, <2>4, AheadTaken
  <2>6. Reader(u)  BY <2>3, <2>4, LoadedReads
  <2>7. \A d \in OnDevice : d # tar.current => device'[d] = device[d]
    <3>1. CASE done  BY <2>2, <2>3, <3>1 DEF TInv, Devices
    <3>2. CASE ~done  BY <2>2, <3>2
    <3>. QED  BY <3>1, <3>2
  <2>. QED  BY <1>5, <1>10, <2>1, <2>2, <2>3, <2>4, <2>5, <2>6, <2>7
<1>17. CASE saved
  <2>1. UNCHANGED <<device, failed>> /\ Goto("next") /\ Retrieve(tar, FALSE, tar') /\ worker.pc = "saving"
    BY <1>17 DEF saved, Sound, Runs
  <2>2. worker'.pc = "next" /\ worker'.op = "restore"  BY <1>6, <2>1 DEF Pcs
  <2>3. /\ Ordered(tar') /\ (tar'.end \/ tar'.loaded) /\ Ahead(tar, tar.current) = {}
        /\ \A d \in chosen : Ahead(tar', d) = Ahead(tar, d)
    BY <1>2, <1>5, <2>1, AheadRetrieve
  <2>4. ASSUME NEW d \in Sparing, d = tar.current  PROVE Underway(d)'
    <3>1. Restoring(d) /\ ~Restoring(d)'  BY <2>1, <2>2, <2>4 DEF Restoring
    <3>2. device[d] = InFile(d) /\ Ahead(tar', d) = {}
      BY <1>2, <2>3, <2>4, <3>1 DEF Underway, Sparing
    <3>. QED  BY <1>3, <2>1, <3>1, <3>2 DEF Underway
  <2>5. \A d \in Sparing : Underway(d)'
    BY <1>9, <2>1, <2>2, <2>3, <2>4 DEF Sparing
  <2>. QED  BY <1>7, <2>1, <2>2, <2>3, <2>5 DEF Restore, Sparing
<1>18. CASE restore_fails
  <2>1. UNCHANGED device /\ Goto("closing") /\ failed' = failed \cup {tar.current} /\ TarError(tar)
    BY <1>18 DEF restore_fails
  <2>2. worker'.pc = "closing" /\ worker'.op = "restore"  BY <1>6, <2>1 DEF Pcs
  <2>3. ASSUME NEW d \in OnDevice \cap (chosen \ failed')  PROVE Whole(d)'
    <3>1. d \in Sparing /\ d # tar.current /\ d \in tar.list  BY <1>2, <2>1, <2>3 DEF Sparing
    <3>2. \A j \in 1..Len(tar.rest) : tar.rest[j].db # d
      BY <2>1, <3>1 DEF TarError, WantedPlaces, Wanted
    <3>3. Ahead(tar, d) = {} /\ ~Restoring(d)  BY <3>1, <3>2, HeldNone DEF Ahead, Restoring
    <3>4. Whole(d)  BY <1>2, <3>1, <3>3, EndWhole
    <3>. QED  BY <1>3, <2>1, <3>4 DEF Whole
  <2>. QED  BY <1>8, <2>2, <2>3
<1>. QED  BY <1>11, <1>12, <1>13, <1>15, <1>16, <1>17, <1>18

\* A record at the end of a file, when those of its database are last in it.
LEMMA GroupedAppend ==
  ASSUME NEW s \in Seq(Record), NEW e \in Record, Grouped(s), Trailing(s, e.db)
  PROVE  Grouped(Append(s, e)) /\ Trailing(Append(s, e), e.db)
<1>1. PICK u : u = Append(s, e)
  OBVIOUS
<1>2. PICK n \in Nat : n = Len(s)
  OBVIOUS
<1>3. Len(u) = n + 1 /\ u[n + 1] = e /\ \A i \in 1..n : u[i] = s[i]
  BY <1>1, <1>2
<1>4. Trailing(u, e.db)
  <2>. SUFFICES ASSUME NEW k \in 1..Len(u), u[k].db = e.db, NEW j \in k..Len(u)  PROVE u[j].db = e.db
    BY DEF Trailing
  <2>1. CASE j = n + 1  BY <1>3, <2>1
  <2>2. CASE j # n + 1
    <3>1. k \in 1..n /\ j \in k..n /\ j \in 1..n  BY <1>3, <2>2
    <3>2. s[k].db = e.db  BY <1>3, <3>1
    <3>3. s[j].db = e.db  BY <1>2, <3>1, <3>2 DEF Trailing
    <3>. QED  BY <1>3, <3>1, <3>3
  <2>. QED  BY <2>1, <2>2
<1>5. Grouped(u)
  <2>. SUFFICES ASSUME NEW i \in 1..Len(u), NEW k \in 1..Len(u), i <= k, u[i].db = u[k].db, NEW j \in i..k
                PROVE  u[j].db = u[i].db
    BY DEF Grouped
  <2>1. CASE k = n + 1
    <3>1. u[i].db = e.db  BY <1>3, <2>1
    <3>2. j \in i..Len(u)  BY <1>3, <2>1
    <3>3. u[j].db = e.db  BY <1>4, <3>1, <3>2 DEF Trailing
    <3>. QED  BY <3>1, <3>3
  <2>2. CASE k # n + 1
    <3>1. i \in 1..n /\ k \in 1..n /\ j \in 1..n  BY <1>3, <2>2
    <3>2. s[i].db = s[k].db  BY <1>3, <3>1
    <3>3. s[j].db = s[i].db  BY <1>2, <3>1, <3>2 DEF Grouped
    <3>. QED  BY <1>3, <3>1, <3>3
  <2>. QED  BY <2>1, <2>2
<1>. QED  BY <1>1, <1>4, <1>5

\* The steps of BackupThread put the records of a database in the file one after another.
LEMMA MoreBackup ==
  ASSUME TInv, WInv, MInv, backup_next \/ (\E r \in RecordIds : Store(r)) \/ loaded \/ backup_fails
  PROVE  MInv'
<1>0. worker \in Workers /\ worker.list \in Seq(Databases) /\ worker.op = "backup" /\ worker.pc \in {"next", "loading"}
  BY DEF TInv, Workers, backup_next, Store, loaded, backup_fails, Sound, Runs
<1>1. /\ Stored /\ Unique(worker.list) /\ Grouped(file.records)
      /\ \A d \in Elements(worker.list) : Trailing(file.records, d)
  BY <1>0 DEF WInv, MInv
<1>2. ASSUME worker'.op = "backup", file'.records = file.records,
             worker'.pc \in {"next", "loading"} => Elements(worker'.list) \subseteq Elements(worker.list)
      PROVE  MInv'
  BY <1>1, <1>2 DEF MInv
<1>3. CASE backup_next
  <2>1. UNCHANGED file  BY <1>3 DEF backup_next
  <2>2. worker'.op = "backup" /\ worker'.list = worker.list
    BY <1>0, <1>3 DEF backup_next, Goto, Workers
  <2>. QED  BY <1>2, <2>1, <2>2
<1>4. ASSUME NEW r \in RecordIds, Store(r)  PROVE MInv'
  <2>1. PICK e : e = Entry(Head(worker.list), r)
    OBVIOUS
  <2>2. /\ worker.pc = "loading" /\ worker' = [worker EXCEPT !.todo = @ \ {r}]
        /\ file' = [file EXCEPT !.records = Append(@, e)]
    BY <1>4, <2>1 DEF Store, Sound, Runs
  <2>3. worker'.pc = "loading" /\ worker'.op = "backup" /\ worker'.list = worker.list
    BY <1>0, <2>2 DEF Workers
  <2>4. worker.list # << >>  BY <2>2 DEF TInv, AtWork
  <2>5. Head(worker.list) \in Elements(worker.list) /\ Head(worker.list) \in Databases
    BY <1>0, <2>4, TailElements
  <2>6. e \in Record /\ e.db = Head(worker.list) /\ file.records \in Seq(Record)
    BY <2>1, <2>5 DEF Entry, Record, TInv, TarFiles
  <2>7. file'.records = Append(file.records, e)  BY <2>2 DEF TInv, TarFiles
  <2>8. Grouped(file'.records) /\ Trailing(file'.records, e.db)
    BY <1>1, <2>5, <2>6, <2>7, GroupedAppend
  <2>9. ASSUME NEW d \in Elements(worker.list), d # e.db  PROVE Trailing(file'.records, d)
    <3>1. InFile(d) = {}  BY <1>1, <2>6, <2>9 DEF Stored
    <3>2. \A f \in Elements(file.records) : f.db # d  BY <3>1 DEF InFile
    <3>3. Elements(file'.records) = Elements(file.records) \cup {e}  BY <2>6, <2>7, ElementsAppend
    <3>4. \A f \in Elements(file'.records) : f.db # d  BY <2>9, <3>2, <3>3
    <3>5. InFile(d)' = {}  BY <3>4 DEF InFile
    <3>6. \A k \in 1..Len(file'.records) : file'.records[k].db # d
      BY <3>4 DEF Elements
    <3>. QED  BY <3>6 DEF Trailing
  <2>. QED  BY <2>3, <2>8, <2>9 DEF MInv
<1>5. CASE loaded
  <2>1. UNCHANGED file /\ worker.pc = "loading" /\ worker' = [worker EXCEPT !.pc = "next", !.list = Tail(@), !.todo = {}]
    BY <1>5 DEF loaded, Sound, Runs
  <2>2. worker.list # << >>  BY <2>1 DEF TInv, AtWork
  <2>3. worker'.op = "backup" /\ worker'.list = Tail(worker.list)  BY <1>0, <2>1 DEF Workers
  <2>4. Elements(worker'.list) \subseteq Elements(worker.list)  BY <1>0, <2>2, <2>3, TailElements
  <2>. QED  BY <1>2, <2>1, <2>3, <2>4
<1>6. CASE backup_fails
  <2>1. worker'.op = "backup" /\ worker'.pc = "closing"
    BY <1>0, <1>6 DEF backup_fails, Workers
  <2>2. file'.records = file.records
    <3>1. PICK torn \in BOOLEAN : file' = [file EXCEPT !.torn = torn]  BY <1>6 DEF backup_fails
    <3>. QED  BY <3>1 DEF TInv, TarFiles
  <2>. QED  BY <1>2, <2>1, <2>2
<1>. QED  BY <1>3, <1>4, <1>5, <1>6

\* A step that leaves the restore alone, or is past its last record.
LEMMA MoreUnchanged ==
  ASSUME MInv, UNCHANGED <<device, file, chosen, failed>>,
         \/ UNCHANGED <<worker, tar>>
         \/ worker'.op = worker.op /\ worker.pc \notin Restore /\ worker'.pc \notin Restore \cup {"loading"}
         \/ worker'.op = "none"
  PROVE  MInv'
<1>1. \A d : InFile(d)' = InFile(d) /\ (Whole(d) => Whole(d)')
  BY DEF InFile, Whole
<1>2. CASE UNCHANGED <<worker, tar>>
  BY <1>1, <1>2 DEF MInv, Sparing, Underway, Restoring, Ahead
<1>3. CASE worker'.op = worker.op /\ worker.pc \notin Restore /\ worker'.pc \notin Restore \cup {"loading"}
  BY <1>1, <1>3 DEF MInv, Sparing, Restore
<1>4. CASE worker'.op = "none"
  BY <1>4 DEF MInv
<1>. QED  BY <1>2, <1>3, <1>4

\* All other steps: the handlers, the end of an operation and the start of one.
LEMMA MoreOthers ==
  ASSUME TInv, MInv, [Next]_vars,
         ~(restore_next \/ ClearDatabase \/ ClearDatabase_fails \/ SetRecord \/ SetRecord_fails \/ saved \/ restore_fails),
         ~(backup_next \/ (\E r \in RecordIds : Store(r)) \/ loaded \/ backup_fails)
  PROVE  MInv'
<1>0. worker \in Workers
  BY DEF TInv
<1>1. CASE crashes \/ close_throws \/ (\E list \in Lists : restore_throws(list))
  BY <1>1, MoreUnchanged DEF crashes, close_throws, restore_throws, Stop, operation
<1>2. ASSUME NEW pc \in {"error", "done", "invalidate"}, Goto(pc), worker.pc \in {"closing", "error", "done"},
             UNCHANGED <<device, file, chosen, failed>>
      PROVE  MInv'
  <2>1. worker'.op = worker.op /\ worker'.pc = pc  BY <1>0, <1>2, WorkerFields DEF Goto, Pcs
  <2>2. worker.pc \notin Restore /\ worker'.pc \notin Restore \cup {"loading"}  BY <1>2, <2>1 DEF Restore
  <2>. QED  BY <1>2, <2>1, <2>2, MoreUnchanged
<1>3. CASE close_tar
  BY <1>2, <1>3 DEF close_tar, Closed, Runs, operation
<1>4. CASE emit_error \/ emit_done
  BY <1>2, <1>4 DEF emit_error, emit_done, Runs, operation
<1>5. CASE Invalidate
  BY <1>5, MoreUnchanged DEF Invalidate, NoWorker, operation
<1>6. CASE invalidated
  BY <1>6, MoreUnchanged DEF invalidated, operation
<1>7. CASE MainLoop \/ message_closed \/ treeview_update \/ select \/ UnsetActive \/ on_disconnect
  BY <1>7, MoreUnchanged DEF MainLoop, on_thread_progress, on_thread_error, on_thread_done, message_closed,
     treeview_update, select, UnsetActive, on_disconnect, operation
<1>8. ASSUME NEW list \in Lists, NEW g, StartBackup(list, g)  PROVE MInv'
  <2>1. worker'.op = "backup" /\ file'.records = << >>  BY <1>8 DEF StartBackup, NoWorker
  <2>2. Len(<< >>) = 0  OBVIOUS
  <2>3. Grouped(file'.records) /\ \A d : Trailing(file'.records, d)
    BY <2>1, <2>2 DEF Grouped, Trailing
  <2>. QED  BY <2>1, <2>3 DEF MInv
<1>9. CASE \E list \in Lists : on_backup(list) \/ select_connects(list)
  BY <1>8, <1>9 DEF on_backup, select_connects
<1>10. ASSUME NEW list \in Lists, on_restore(list)  PROVE MInv'
  <2>1. PICK t : t = [NoTar EXCEPT !.list = Elements(list), !.rest = file.records]
    OBVIOUS
  <2>2. Reader(t) /\ t.list = Elements(list) /\ t.rest = file.records /\ t.current = NoDatabase /\ ~t.loaded /\ ~t.end
    <3>1. list \in Seq(Databases)  BY ListsAssumption
    <3>2. Elements(list) \subseteq Databases  BY <3>1 DEF Elements
    <3>3. file.records \in Seq(Record)  BY DEF TInv, TarFiles
    <3>. QED  BY <2>1, <3>2, <3>3 DEF NoTar, Reader, Readers
  <2>3. Ordered(t)
    <3>1. file.records \in Seq(Record)  BY DEF TInv, TarFiles
    <3>2. \A k \in 1..Len(file.records) : file.records[k].db # NoDatabase
      <4>. SUFFICES ASSUME NEW k \in 1..Len(file.records)  PROVE file.records[k].db # NoDatabase
        OBVIOUS
      <4>1. file.records[k] \in Record  BY <3>1
      <4>2. file.records[k].db \in Databases  BY <4>1 DEF Record
      <4>. QED  BY <4>2, DatabasesAssumption
    <3>. QED  BY <2>2, <3>2 DEF MInv, Ordered, Led
  <2>4. PICK ok \in BOOLEAN : Retrieve(t, ok, tar')
    BY <1>10, <2>1 DEF on_restore, StartRestore
  <2>5. Ordered(tar') /\ (tar'.end \/ tar'.loaded) /\ \A d \in Elements(list) : Ahead(tar', d) = Ahead(t, d)
    BY <2>2, <2>3, <2>4, AheadRetrieve
  <2>6. /\ chosen' = Elements(list) /\ UNCHANGED <<device, file>>
        /\ worker'.pc = "next" /\ worker'.op = "restore"
    BY <1>10 DEF on_restore, StartRestore, Start, NoWorker
  <2>7. ASSUME NEW d \in Elements(list)  PROVE Underway(d)'
    <3>1. Ahead(t, d) = Held(file.records, d)  BY <2>2 DEF Ahead
    <3>2. Ahead(tar', d) = InFile(d)'  BY <2>5, <2>6, <2>7, <3>1, InFileHeld DEF InFile
    <3>3. ~Restoring(d)'  BY <2>6 DEF Restoring
    <3>. QED  BY <3>2, <3>3 DEF Underway
  <2>8. \A d \in Sparing' : Underway(d)'  BY <2>6, <2>7 DEF Sparing
  <2>. QED  BY <2>5, <2>6, <2>8 DEF MInv, Restore
<1>11. CASE UNCHANGED vars
  BY <1>11, MoreUnchanged DEF vars, operation
<1>. QED  BY <1>1, <1>3, <1>4, <1>5, <1>6, <1>7, <1>9, <1>10, <1>11 DEF Next, Worker

\* A restore that is through has put into every selected database of the file that it
\* reported no error for all of its records and nothing else, also after databases with an
\* error: for any files that have their databases together, as backups write
\* them, and selections that name none twice (RestoreThread of DeviceIface.cc,
\* SaveDatabase of m_desktop.cc, Retrieve and SkipCurrentDB of tarfile.cc).
THEOREM RestoredWholeAlways ==
  ASSUME \A list \in Lists : Unique(list), \A records \in Files : Grouped(records)
  PROVE  Spec => []RestoredWhole
<1>1. Init => WInv /\ OInv /\ MInv
  <2>. SUFFICES ASSUME Init  PROVE WInv /\ OInv /\ MInv
    OBVIOUS
  <2>1. worker.op = "none" /\ file.records \in Files  BY DEF Init, NoWorker
  <2>. QED  BY <2>1 DEF WInv, OInv, MInv
<1>2. TInv /\ WInv /\ OInv /\ MInv /\ [Next]_vars => WInv' /\ OInv' /\ MInv'
  <2>. SUFFICES ASSUME TInv, WInv, OInv, MInv, [Next]_vars  PROVE WInv' /\ OInv' /\ MInv'
    OBVIOUS
  <2>1. WInv'  BY WholeBackup, WholeOthers
  <2>2. OInv'  BY OnlyRestore, OnlyOthers
  <2>3. MInv'  BY MoreRestore, MoreBackup, MoreOthers
  <2>. QED  BY <2>1, <2>2, <2>3
<1>3. OInv /\ MInv => RestoredWhole
  <2>. SUFFICES ASSUME OInv, MInv  PROVE RestoredWhole
    OBVIOUS
  <2>1. RestoredOnly  BY DEF OInv, RestoredOnly
  <2>2. ASSUME Through("restore"), NEW d \in OnDevice \cap (chosen \ failed), InFile(d) # {}
        PROVE  device[d] = InFile(d)
    <3>1. worker.op = "restore" /\ worker.pc \notin Restore  BY <2>2 DEF Through, Restore
    <3>2. Whole(d)  BY <2>2, <3>1 DEF MInv, Sparing
    <3>. QED  BY <2>2, <3>2 DEF Whole
  <2>. QED  BY <2>1, <2>2 DEF RestoredWhole
<1>4. Init => TInv  BY TypeInit
<1>5. TInv /\ [Next]_vars => TInv'  BY TypeStep
<1>. QED  BY <1>1, <1>2, <1>3, <1>4, <1>5, PTL DEF Spec
=============================================================================
