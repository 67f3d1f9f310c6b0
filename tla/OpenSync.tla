------------------------------ MODULE OpenSync ------------------------------
(***************************************************************************)
(* The OpenSync plugin for one database of the device                      *)
(* (opensync-plugin/src/linberry_sync.cc, environment.cc, idmap.cc): the   *)
(* record state table, the cache and the id map of DatabaseSyncState, the  *)
(* two files they are kept in between sessions, and the calls OpenSync     *)
(* makes into the plugin.  Around the plugin are the device, whose user    *)
(* edits records at any time, and the sync engine with the items of the    *)
(* other side; both are modelled from how the plugin uses them.            *)
(*                                                                         *)
(* A record's data is a version: the number of the edit that wrote it. The *)
(* variables told, link, settled, raced, torn and lapses are history: they *)
(* say what has happened and no action looks at them.                      *)
(***************************************************************************)
EXTENDS Naturals, FiniteSets

CONSTANTS
  Slots,        \* indexes of the record state table
  MaxRecordId,  \* record ids are 1..MaxRecordId; no model runs out of them
  HostUids,     \* uids the other side gives its new items
  Blank,        \* the empty uid
  MaxVersion    \* bound on the edits of both users together

ASSUME SlotsAssumption == Slots \subseteq Nat /\ IsFiniteSet(Slots) /\ Slots # {}
ASSUME BoundsAssumption == MaxRecordId \in Nat \ {0} /\ MaxVersion \in Nat \ {0}

RecordIds == 1..MaxRecordId
Versions == 1..MaxVersion

\* The uid that Map2Uid makes from a record id ("calendar-7"), which sscanf
\* cannot read, and a uid that is a number, which it can.
Own(rid) == <<"own", rid>>
Number(rid) == <<"number", rid>>
Uids == HostUids \cup {Own(rid) : rid \in RecordIds}

VARIABLES
  phase,      \* where the plugin is in the sequence of OpenSync's calls
  device,     \* index -> record; rid, version and dirty flag
  table,      \* m_Table as it was read: index -> rid and dirty flag
  lastNew,    \* m_LastNewRecordId of m_Table
  cache,      \* m_Cache
  idmap,      \* m_IdMap, a set of <<uid, rid>>
  cacheFile,
  mapFile,
  host,       \* the items of the other side: uid -> version
  pending,    \* changes of the other side not yet committed: uid -> kind
  reports,    \* changes the plugin has reported and the engine not yet handled
  needSlow,   \* the engine will ask for a slow sync
  version,    \* edits of both users so far
  told,       \* versions the other side has seen
  link,       \* the item a record was last known by: <<uid, rid>>
  settled,    \* items whose record was in the cache when a session ended well
  raced,      \* records edited or deleted on the device in a session
  torn,       \* a write of one of the files was cut short
  lapses      \* what the plugin has done that it does not cope with

plugin == <<table, lastNew, cache, idmap>>
files == <<cacheFile, mapFile>>
engine == <<host, pending, reports, needSlow>>
history == <<told, link, settled, raced, torn, lapses>>
vars == <<phase, device, plugin, files, engine, version, history>>

Kinds == {"added", "modified", "deleted"}
Phases == {"off", "ready", "failed", "fetched", "commit", "saving",
           "cleaning", "clearing", "hung"}

\* The part of a session in which an edit on the device can be overlooked:
\* from GetRecordStateTable of GetChanges to the last ClearDirty.
Window == {"fetched", "commit", "saving", "cleaning", "clearing"}

\* memory: a session has begun with what a failed one left in memory.
\* clash: a session has reported a record without mapping the uid it made up.
\* renumbered: an item's record was given another id than its uid is mapped to.
Lapses == {"memory", "clash", "renumbered"}

Records == [rid : RecordIds, version : Versions, dirty : BOOLEAN]
States == [rid : RecordIds, dirty : BOOLEAN]
Reports == [kind : Kinds, uid : Uids, rid : RecordIds, version : Versions \cup {0}]

Without(f, x) == [y \in DOMAIN f \ {x} |-> f[y]]
With(f, x, v) == [y \in DOMAIN f \cup {x} |-> IF y = x THEN v ELSE f[y]]
RidsOf(t) == {t[i].rid : i \in DOMAIN t}
UidsIn(m) == {p[1] : p \in m}
RidsIn(m) == {p[2] : p \in m}
UnmapUid(m, uid) == {p \in m : p[1] # uid}
ClearedLinks(uid) == {p \in link : p[1] # uid}
Linked(uid, rid) == {p \in link : p[1] # uid /\ p[2] # rid} \cup {<<uid, rid>>}

\* An item that loses its record, or is linked to another, is unsettled.
KeepSettled == settled' = {u \in settled : \E p \in link \cap link' : p[1] = u}

Init ==
  /\ phase = "off"
  /\ version = 1
  /\ device = [i \in {CHOOSE i \in Slots : TRUE} |-> [rid |-> 1, version |-> 1, dirty |-> FALSE]]
  /\ table = << >> /\ lastNew = 1 /\ cache = {} /\ idmap = {}
  /\ cacheFile = {} /\ mapFile = {}
  /\ host = << >> /\ pending = << >> /\ reports = {} /\ needSlow = TRUE
  /\ told = {} /\ link = {} /\ settled = {} /\ raced = {}
  /\ torn = FALSE /\ lapses = {}

-----------------------------------------------------------------------------
(* The user of the device.                                                 *)

Race(rid) == raced' = IF phase \in Window THEN raced \cup {rid} ELSE raced

DeviceWrites(i, rid) ==
  /\ version < MaxVersion
  /\ version' = version + 1
  /\ device' = With(device, i, [rid |-> rid, version |-> version', dirty |-> TRUE])
  /\ Race(rid)
  /\ UNCHANGED <<phase, plugin, files, engine, told, link, settled, torn, lapses>>

DeviceModify(i) == i \in DOMAIN device /\ DeviceWrites(i, device[i].rid)

\* No index is used twice in a session; the plugin, which works through a
\* table of indexes while it adds and deletes records, relies on that.
FreeSlots == Slots \ (DOMAIN device \cup DOMAIN table)

\* The device makes up an id it has not used before: here one of the last
\* edit numbers, which leaves it free to take what MakeNewRecordId will.
DeviceAdd(i, rid) ==
  /\ i \in FreeSlots
  /\ rid \in {version, version + 1} \ RidsOf(device)
  /\ DeviceWrites(i, rid)

DeviceDelete(i) ==
  /\ i \in DOMAIN device
  /\ version < MaxVersion
  /\ version' = version + 1
  /\ device' = Without(device, i)
  /\ Race(device[i].rid)
  /\ UNCHANGED <<phase, plugin, files, engine, told, link, settled, torn, lapses>>

-----------------------------------------------------------------------------
(* The user of the other side, between sessions.                           *)

HostWrites(uid, kind) ==
  /\ phase \in {"off", "ready", "failed"}
  /\ version < MaxVersion
  /\ version' = version + 1
  /\ host' = With(host, uid, version')
  /\ pending' = With(pending, uid, kind)
  /\ told' = told \cup {version'}
  /\ UNCHANGED <<phase, device, plugin, files, reports, needSlow, link, settled, raced, torn, lapses>>

HostAdd(uid) == uid \notin DOMAIN host \cup DOMAIN pending /\ HostWrites(uid, "added")

HostModify(uid) ==
  /\ uid \in DOMAIN host
  /\ HostWrites(uid, IF uid \in DOMAIN pending THEN pending[uid] ELSE "modified")

HostDelete(uid) ==
  /\ phase \in {"off", "ready", "failed"}
  /\ uid \in DOMAIN host
  /\ version < MaxVersion
  /\ version' = version + 1
  /\ host' = Without(host, uid)
  /\ link' = ClearedLinks(uid)
  /\ KeepSettled
  /\ pending' = IF uid \in DOMAIN pending /\ pending[uid] = "added"
                  THEN Without(pending, uid) ELSE With(pending, uid, "deleted")
  /\ UNCHANGED <<phase, device, plugin, files, reports, needSlow, told, raced, torn, lapses>>

-----------------------------------------------------------------------------
(* initialize, connect and get_changeinfo.                                 *)

\* LoadCache and LoadMap: what is in the files, or nothing without them.
initialize ==
  /\ phase = "off"
  /\ phase' = "ready"
  /\ cache' = cacheFile
  /\ idmap' = mapFile
  /\ UNCHANGED <<device, table, lastNew, files, engine, version, history>>

CurrentTable_with_data == device

CurrentTable == [i \in DOMAIN device |-> [rid |-> device[i].rid, dirty |-> device[i].dirty]]

\* RecordStateTable::Clear and Parse of the device's answer.
GetRecordStateTable == table' = CurrentTable /\ lastNew' = 1

\* connect, and the first half of GetChanges.
get_changeinfo(slow) ==
  /\ phase \in {"ready", "failed"}
  /\ needSlow => slow
  /\ phase' = "fetched"
  /\ cache' = IF slow THEN {} ELSE cache
  /\ idmap' = IF slow THEN {} ELSE idmap
  /\ needSlow' = slow
  /\ GetRecordStateTable
  /\ lapses' = IF phase = "failed" THEN lapses \cup {"memory"} ELSE lapses
  /\ UNCHANGED <<device, files, host, pending, reports, version, told, link, settled, raced, torn>>

\* The call has failed: OpenSync gives up its changes and calls disconnect,
\* after which no record is looked up in the table any more.
EndsBadly == phase' = "failed" /\ reports' = {} /\ table' = << >>

Map2Uid(m, rid) == IF rid \in RidsIn(m) THEN (CHOOSE p \in m : p[2] = rid)[1] ELSE Own(rid)

\* idmap::Map refuses a blank id and one that is mapped already.
CanMap_uid_only(m, uid, rid) == uid # Blank /\ rid # 0 /\ uid \notin UidsIn(m)

CanMap(m, uid, rid) == uid # Blank /\ rid # 0 /\ uid \notin UidsIn(m) /\ rid \notin RidsIn(m)

\* Records to report: not in the cache, or there and dirty.
Changed_added == {i \in DOMAIN table : table[i].rid \notin cache}

Changed == {i \in DOMAIN table : table[i].rid \notin cache \/ table[i].dirty}

\* Records to report as deleted: in the cache and not in the table.
Deleted_after_refresh == {rid \in RidsOf(table) : rid \notin RidsOf(table)}

Deleted == {rid \in cache : rid \notin RidsOf(table)}

ReportsOf(S) ==
  {[kind |-> IF table[i].rid \in cache THEN "modified" ELSE "added",
    uid |-> Map2Uid(idmap, table[i].rid), rid |-> table[i].rid, version |-> device[i].version] : i \in S}
    \cup {[kind |-> "deleted", uid |-> Map2Uid(idmap, rid), rid |-> rid, version |-> 0] : rid \in Deleted}

\* A slow sync makes the engine forget the uids it knew: an item whose data
\* the device reports is the item of that report, every other one is new.
SlowMatch(S) ==
  LET Same(r) == {u \in DOMAIN host : host[u] = r.version /\ (r.uid \in DOMAIN host => u = r.uid)}
      Twins == {r \in S : Same(r) # {}}
      Twin(r) == CHOOSE u \in Same(r) : TRUE
      Left == DOMAIN host \ {Twin(r) : r \in Twins}
  IN  /\ host' = [u \in Left \cup {r.uid : r \in Twins} |->
                    IF u \in Left THEN host[u] ELSE (CHOOSE r \in Twins : r.uid = u).version]
      /\ pending' = [u \in Left |-> "added"]
      /\ reports' = S \ Twins
      /\ link' = {<<r.uid, r.rid>> : r \in Twins}
      /\ settled' = {}

\* What Map adds for the records that are reported.
NewPairs ==
  {p \in {<<Map2Uid(idmap, table[i].rid), table[i].rid>> : i \in Changed} : CanMap(idmap, p[1], p[2])}

\* Every record that is to be reported and has no uid can be mapped to the one
\* that Map2Uid makes for it: no other record has that one already.
Unclashed ==
  \A rid \in cache \cup RidsOf(table) : rid \in RidsIn(idmap) \/ CanMap(idmap, Own(rid), rid)

\* The second half of GetChanges: read the data, report, map the uids, and
\* make the table the new cache.
GetChanges ==
  /\ phase = "fetched"
  /\ Changed \subseteq DOMAIN device
  /\ phase' = "commit"
  /\ IF needSlow
       THEN SlowMatch(ReportsOf(Changed))
       ELSE reports' = ReportsOf(Changed) /\ UNCHANGED <<host, pending, link, settled>>
  /\ idmap' = idmap \cup NewPairs
  /\ cache' = RidsOf(table)
  /\ lapses' = IF Unclashed THEN lapses ELSE lapses \cup {"clash"}
  /\ UNCHANGED <<device, table, lastNew, files, needSlow, version, told, raced, torn>>

\* GetRecord throws, because the record is gone or the connection is: some
\* records have been reported and mapped, and the cache is the old one.
GetChangesFails ==
  /\ phase = "fetched"
  /\ EndsBadly
  /\ \E S \in SUBSET NewPairs : idmap' = idmap \cup S
  /\ UNCHANGED <<device, lastNew, cache, files, host, pending, needSlow, version, history>>

-----------------------------------------------------------------------------
(* The engine brings the reports to the other side.  When both sides have  *)
(* changed an item one of them wins.                                       *)

Apply(r) ==
  /\ phase = "commit"
  /\ r \in reports
  /\ reports' = reports \ {r}
  /\ pending' = Without(pending, r.uid)
  /\ IF r.kind = "deleted"
       THEN /\ host' = Without(host, r.uid)
            /\ link' = ClearedLinks(r.uid)
            /\ told' = told
       ELSE /\ host' = With(host, r.uid, r.version)
            /\ link' = Linked(r.uid, r.rid)
            /\ told' = told \cup {r.version}
  /\ KeepSettled
  /\ UNCHANGED <<phase, device, plugin, files, needSlow, version, raced, torn, lapses>>

HostWins(r) ==
  /\ phase = "commit"
  /\ r \in reports /\ r.uid \in DOMAIN pending
  /\ reports' = reports \ {r}
  /\ pending' = IF r.kind = "deleted"
                  THEN IF pending[r.uid] = "deleted" THEN Without(pending, r.uid)
                       ELSE With(pending, r.uid, "added")
                  ELSE IF pending[r.uid] = "added" THEN With(pending, r.uid, "modified")
                       ELSE pending
  /\ told' = told \cup ({r.version} \ {0})
  /\ link' = IF r.kind # "deleted" /\ r.uid \in DOMAIN host
                THEN Linked(r.uid, r.rid) ELSE ClearedLinks(r.uid)
  /\ KeepSettled
  /\ UNCHANGED <<phase, device, plugin, files, host, needSlow, version, raced, torn, lapses>>

-----------------------------------------------------------------------------
(* commit_change.                                                          *)

\* MakeNewRecordId counts on from m_LastNewRecordId to an id n that is free.
MakeNewRecordId_next(n, from, taken) == n = from + 1

MakeNewRecordId(n, from, taken) ==
  /\ n > from /\ n \notin taken
  /\ \A k \in (from + 1)..(n - 1) : k \in taken

\* GetMappedRecordId: the id the uid is mapped to, the number the uid is, or
\* a new one that is neither in the table nor in the map.
Mapped(uid) == uid \in UidsIn(idmap)
Parses(uid) == \E rid \in RecordIds : uid = Number(rid) /\ CanMap(idmap, uid, rid)

GetMappedRecordId(uid, rid) ==
  \/ <<uid, rid>> \in idmap
  \/ ~Mapped(uid) /\ uid = Number(rid) /\ CanMap(idmap, uid, rid)
  \/ /\ ~Mapped(uid) /\ ~Parses(uid) /\ uid # Blank
     /\ MakeNewRecordId(rid, lastNew, RidsOf(table) \cup RidsIn(idmap))

LastAfter(uid, rid) == IF Mapped(uid) \/ Parses(uid) THEN lastNew ELSE rid

\* What every commit has done before it looks at the kind of the change.
Commit(uid, kind, rid) ==
  /\ phase = "commit"
  /\ uid \in DOMAIN pending /\ pending[uid] = kind
  /\ \A r \in reports : r.uid # uid
  /\ GetMappedRecordId(uid, rid)

\* Map refuses the blank uid whatever the id, so the loop never ends.
CommitHangs ==
  /\ phase = "commit"
  /\ \E uid \in DOMAIN pending : uid = Blank /\ ~Mapped(uid)
  /\ phase' = "hung"
  /\ UNCHANGED <<device, plugin, files, engine, version, history>>

\* The first index at which the table has the record.
GetIndex(rid) == {i \in DOMAIN table : table[i].rid = rid /\ \A j \in DOMAIN table : table[j].rid = rid => i <= j}

\* The id is not in the table: the call is refused and the mapping stays.
CommitRefused(uid, rid) ==
  /\ Commit(uid, pending[uid], rid)
  /\ pending[uid] # "added" /\ GetIndex(rid) = {}
  /\ idmap' = idmap \cup {<<uid, rid>>}
  /\ lastNew' = LastAfter(uid, rid)
  /\ EndsBadly
  /\ UNCHANGED <<device, cache, files, host, pending, needSlow, version, history>>

\* ParseData cannot read the item: the uid is unmapped again.
CommitUnparsable(uid, rid) ==
  /\ Commit(uid, pending[uid], rid)
  /\ pending[uid] = "added" \/ (pending[uid] = "modified" /\ GetIndex(rid) # {})
  /\ idmap' = UnmapUid(idmap, uid)
  /\ lastNew' = LastAfter(uid, rid)
  /\ EndsBadly
  /\ UNCHANGED <<device, cache, files, host, pending, needSlow, version, history>>

\* The device answers with an error, or not at all.
CommitFails(uid, rid) ==
  /\ Commit(uid, pending[uid], rid)
  /\ pending[uid] = "added" \/ GetIndex(rid) # {}
  /\ idmap' = idmap \cup {<<uid, rid>>}
  /\ lastNew' = LastAfter(uid, rid)
  /\ EndsBadly
  /\ UNCHANGED <<device, cache, files, host, pending, needSlow, version, history>>

CommitDeleted(uid, rid) ==
  /\ Commit(uid, "deleted", rid)
  /\ \E i \in GetIndex(rid) : device' = Without(device, i)
  /\ cache' = cache \ {rid}
  /\ idmap' = UnmapUid(idmap, uid)
  /\ lastNew' = LastAfter(uid, rid)
  /\ pending' = Without(pending, uid)
  /\ UNCHANGED <<phase, table, files, host, reports, needSlow, version, history>>

\* A record that is written has its dirty flag set, though maybe not before
\* the next connection.
CommitAdded(uid, rid) ==
  /\ Commit(uid, "added", rid)
  /\ \E n \in RecordIds, i \in FreeSlots :
       /\ \/ n = rid /\ GetIndex(rid) = {} /\ lastNew' = LastAfter(uid, rid)
          \/ /\ GetIndex(rid) # {}
             /\ MakeNewRecordId(n, LastAfter(uid, rid), RidsOf(table)) /\ lastNew' = n
       /\ device' = With(device, i, [rid |-> n, version |-> host[uid], dirty |-> TRUE])
       /\ link' = Linked(uid, n)
  /\ KeepSettled
  /\ lapses' = IF GetIndex(rid) = {} THEN lapses ELSE lapses \cup {"renumbered"}
  /\ idmap' = idmap \cup {<<uid, rid>>}
  /\ cache' = cache \cup {rid}
  /\ pending' = Without(pending, uid)
  /\ UNCHANGED <<phase, table, files, host, reports, needSlow, version, told, raced, torn>>

\* SetRecord and ClearDirty of one record.
CommitModified(uid, rid) ==
  /\ Commit(uid, "modified", rid)
  /\ \E i \in GetIndex(rid) \cap DOMAIN device, dirty \in BOOLEAN :
       device' = With(device, i, [rid |-> rid, version |-> host[uid], dirty |-> dirty])
  /\ idmap' = idmap \cup {<<uid, rid>>}
  /\ lastNew' = LastAfter(uid, rid)
  /\ pending' = Without(pending, uid)
  /\ UNCHANGED <<phase, table, cache, files, host, reports, needSlow, version, history>>

-----------------------------------------------------------------------------
(* sync_done: Reconnect, then FinishSync.                                  *)

sync_done ==
  /\ phase = "commit"
  /\ reports = {} /\ pending = << >>
  /\ phase' = "saving"
  /\ GetRecordStateTable
  /\ UNCHANGED <<device, cache, idmap, files, engine, version, history>>

SaveCache ==
  /\ phase = "saving"
  /\ phase' = "cleaning"
  /\ cacheFile' = cache
  /\ UNCHANGED <<device, plugin, mapFile, engine, version, history>>

\* Pairs of records that are not on the device any more.
Stale_by_index == {p \in idmap : p[2] \notin DOMAIN table}

Stale == {p \in idmap : p[2] \notin RidsOf(table)}

\* CleanupMap steps an iterator it has just erased, which is undefined: how
\* many more pairs it removes is anybody's guess.  SaveMap writes the rest.
SaveMap ==
  /\ phase = "cleaning"
  /\ phase' = "clearing"
  /\ \E S \in SUBSET Stale :
       /\ S = {} => Stale = {}
       /\ idmap' = idmap \ S
  /\ mapFile' = idmap'
  /\ UNCHANGED <<device, table, lastNew, cache, cacheFile, engine, version, history>>

\* The disk is full or the process ends while a file is written.
SaveIsCut ==
  /\ \/ /\ phase = "saving"
        /\ \E S \in SUBSET cache : cacheFile' = S
        /\ UNCHANGED mapFile
     \/ /\ phase = "cleaning"
        /\ \E S \in SUBSET idmap : mapFile' = S
        /\ UNCHANGED cacheFile
  /\ EndsBadly
  /\ torn' = TRUE
  /\ UNCHANGED <<device, lastNew, cache, idmap, host, pending, needSlow, version, told, link, settled, raced, lapses>>

\* ClearDirtyFlags, one record after the other.
DirtyInTable == {i \in DOMAIN table : table[i].dirty}

ClearDirty(i) ==
  /\ phase = "clearing"
  /\ i \in DirtyInTable
  /\ device' = IF i \in DOMAIN device THEN [device EXCEPT ![i].dirty = FALSE] ELSE device
  /\ table' = [table EXCEPT ![i].dirty = FALSE]
  /\ UNCHANGED <<phase, lastNew, cache, idmap, files, engine, version, history>>

\* sync_done reports success; disconnect leaves the environment for the next
\* session.
sync_ends ==
  /\ phase = "clearing"
  /\ DirtyInTable = {}
  /\ phase' = "ready"
  /\ table' = << >>
  /\ needSlow' = FALSE
  /\ settled' = settled \cup {p[1] : p \in {q \in link : q[2] \in cacheFile}}
  /\ UNCHANGED <<device, lastNew, cache, idmap, files, host, pending, reports, version, told, link, raced, torn, lapses>>

-----------------------------------------------------------------------------
(* Failures and finalize.                                                  *)

\* A protocol error between two steps ends the session.
Fails ==
  /\ phase \in {"commit", "saving", "cleaning", "clearing"}
  /\ EndsBadly
  /\ torn' = (torn \/ phase = "cleaning")
  /\ UNCHANGED <<device, lastNew, cache, idmap, files, host, pending, needSlow, version, told, link, settled, raced, lapses>>

\* finalize; the end of the process in a session is Fails and finalize.
finalize ==
  /\ phase \in {"ready", "failed", "hung"}
  /\ phase' = "off"
  /\ table' = << >> /\ lastNew' = 1 /\ cache' = {} /\ idmap' = {}
  /\ reports' = {}
  /\ UNCHANGED <<device, files, host, pending, needSlow, version, history>>

Next ==
  \/ \E i \in Slots : DeviceModify(i) \/ DeviceDelete(i) \/ ClearDirty(i)
  \/ \E i \in Slots, rid \in RecordIds : DeviceAdd(i, rid)
  \/ \E uid \in HostUids : HostAdd(uid)
  \/ \E uid \in Uids : HostModify(uid) \/ HostDelete(uid)
  \/ initialize \/ \E slow \in BOOLEAN : get_changeinfo(slow)
  \/ GetChanges \/ GetChangesFails
  \/ \E r \in reports : Apply(r) \/ HostWins(r)
  \/ \E uid \in DOMAIN pending, rid \in RecordIds :
       \/ CommitRefused(uid, rid) \/ CommitUnparsable(uid, rid) \/ CommitFails(uid, rid)
       \/ CommitDeleted(uid, rid) \/ CommitAdded(uid, rid) \/ CommitModified(uid, rid)
  \/ CommitHangs
  \/ sync_done \/ SaveCache \/ SaveMap \/ SaveIsCut \/ sync_ends
  \/ Fails \/ finalize

Spec == Init /\ [][Next]_vars

-----------------------------------------------------------------------------
(* Properties.                                                             *)

\* Types of the state.
TypeOK ==
  /\ phase \in Phases
  /\ version \in Versions
  /\ DOMAIN device \subseteq Slots /\ \A i \in DOMAIN device : device[i] \in Records
  /\ DOMAIN table \subseteq Slots /\ \A i \in DOMAIN table : table[i] \in States
  /\ lastNew \in Nat
  /\ cache \subseteq RecordIds /\ cacheFile \subseteq RecordIds
  /\ idmap \subseteq Uids \X RecordIds /\ mapFile \subseteq Uids \X RecordIds
  /\ DOMAIN host \subseteq Uids /\ \A u \in DOMAIN host : host[u] \in Versions
  /\ DOMAIN pending \subseteq Uids /\ \A u \in DOMAIN pending : pending[u] \in Kinds
  /\ reports \subseteq Reports
  /\ needSlow \in BOOLEAN /\ torn \in BOOLEAN /\ lapses \subseteq Lapses
  /\ told \subseteq Versions /\ link \subseteq Uids \X RecordIds /\ settled \subseteq Uids

OneToOne(m) == \A p, q \in m : p[1] = q[1] <=> p[2] = q[2]

\* The id map is one to one, in memory and on disk, whatever fails.
IdMapOneToOne == OneToOne(idmap) /\ OneToOne(mapFile)

\* The files are all the next session goes by.
Resting == phase = "off"

\* No edit on the device is lost: a record whose data the other side has not
\* seen will be reported, also by a session that begins with what a failed one
\* left in memory.  Exempt are the records its user edits during a session.
NoLostEdit ==
  Resting => \A i \in DOMAIN device :
    \/ device[i].rid \notin cacheFile
    \/ device[i].dirty
    \/ device[i].version \in told
    \/ device[i].rid \in raced

\* What happens to a record that both sides know is reported under the uid of
\* its item, and if it was deleted the deletion is: also after sessions that
\* failed anywhere but in writing the files.  Exempt are records edited during
\* a session, and all records after a session from memory, a uid made up that
\* another record has, or an item that was given a second id.
UidKept ==
  Resting => \A p \in link : p[1] \in settled =>
    \/ Map2Uid(mapFile, p[2]) = p[1] /\ p[2] \in cacheFile \cup RidsOf(device)
    \/ needSlow \/ torn \/ p[2] \in raced \/ lapses # {}

\* Both sides hold the same data, but for records the user of the device was
\* editing during a session and items that no good session has settled.
Agree ==
  /\ \A i \in DOMAIN device : device[i].rid \in raced \/ \E u \in DOMAIN host : host[u] = device[i].version
  /\ \A u \in DOMAIN host :
       \/ \E i \in DOMAIN device : device[i].version = host[u]
       \/ \E p \in link : p[1] = u /\ p[2] \in raced
       \/ u \notin settled

\* They do when a session ends well, unless a file was cut short or one of the
\* three lapses has happened: memory, clash or renumbered.
Converges == [][sync_ends => Agree' \/ torn \/ lapses # {}]_vars

\* The device never holds two records of one id.  Exempt are ids its user has
\* edited during a session, and all ids after a file was cut short or an item
\* was given a second id.
OneRecordPerId ==
  \A i, j \in DOMAIN device : device[i].rid = device[j].rid =>
    i = j \/ device[i].rid \in raced \/ torn \/ "renumbered" \in lapses

=============================================================================
