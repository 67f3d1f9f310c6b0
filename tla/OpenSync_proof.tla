--------------------------- MODULE OpenSync_proof ---------------------------
(***************************************************************************)
(* Theorems about OpenSync for any set of indexes and uids and any bounds: *)
(* its types, the id map, that no edit on the device is lost, that the     *)
(* device has one record for each id, that a record keeps the uid of its   *)
(* item, and that both sides hold the same data when a session ends well.  *)
(* The last three are promises until the plugin lapses: each follows from  *)
(* an invariant that every step preserves as long as nothing, or at least  *)
(* no "renumbered", is in lapses.                                        *)
(***************************************************************************)
EXTENDS OpenSync, WellFoundedInduction, TLAPS

-----------------------------------------------------------------------------
\* The functions the plugin and the engine keep.

\* A function from a part of S to T, kept so by With and Without.
Into(f, S, T) == DOMAIN f \subseteq S /\ \A x \in DOMAIN f : f[x] \in T

LEMMA WithInto ==
  ASSUME NEW f, NEW S, NEW T, Into(f, S, T), NEW x \in S, NEW v \in T
  PROVE  Into(With(f, x, v), S, T)
<1> DEFINE g == With(f, x, v)
<1>1. DOMAIN g = DOMAIN f \cup {x} /\ g[x] = v /\ \A y \in DOMAIN f : y # x => g[y] = f[y]
  BY DEF With
<1>2. \A y \in DOMAIN g : y = x \/ (y \in DOMAIN f /\ y # x)
  BY <1>1
<1> HIDE DEF g
<1>3. Into(g, S, T)
  BY <1>1, <1>2 DEF Into
<1>. QED BY <1>3 DEF g

LEMMA WithoutInto ==
  ASSUME NEW f, NEW S, NEW T, Into(f, S, T), NEW x
  PROVE  Into(Without(f, x), S, T)
<1> DEFINE g == Without(f, x)
<1>1. DOMAIN g = DOMAIN f \ {x} /\ \A y \in DOMAIN f \ {x} : g[y] = f[y]
  BY DEF Without
<1> HIDE DEF g
<1>2. Into(g, S, T)
  BY <1>1 DEF Into
<1>. QED BY <1>2 DEF g

-----------------------------------------------------------------------------
(* Types.                                                                  *)

\* A change of the other side that is not a deletion is of an item it has.
PendingHost == \A u \in DOMAIN pending : pending[u] # "deleted" => u \in DOMAIN host

\* A report that is not of a deletion has data.
ReportsData == \A r \in reports : r.kind # "deleted" => r.version \in Versions

TInv == TypeOK /\ PendingHost /\ ReportsData

LEMMA KeepsSettled ==
  ASSUME KeepSettled
  PROVE  settled' \subseteq settled /\ \A u \in settled' : \E p \in link \cap link' : p[1] = u
BY DEF KeepSettled

LEMMA RecordIdsAreNat == RecordIds \subseteq Nat
BY BoundsAssumption DEF RecordIds

LEMMA Map2UidType ==
  ASSUME NEW m \in SUBSET (Uids \X RecordIds), NEW rid \in RecordIds
  PROVE  Map2Uid(m, rid) \in Uids
<1>1. CASE rid \in RidsIn(m)
  <2>1. \E p \in m : p[2] = rid
    BY <1>1 DEF RidsIn
  <2>2. (CHOOSE p \in m : p[2] = rid) \in m
    BY <2>1
  <2>. QED BY <1>1, <2>2 DEF Map2Uid
<1>2. CASE rid \notin RidsIn(m)
  BY <1>2 DEF Map2Uid, Uids
<1>. QED BY <1>1, <1>2

\* What the plugin reports is well formed.
LEMMA ReportsType ==
  ASSUME TInv, Changed \subseteq DOMAIN device
  PROVE  /\ ReportsOf(Changed) \subseteq Reports
         /\ \A r \in ReportsOf(Changed) : r.kind # "deleted" => r.version \in Versions
<1> USE DEF TInv, TypeOK
<1>1. ASSUME NEW i \in Changed
      PROVE  [kind |-> IF table[i].rid \in cache THEN "modified" ELSE "added",
              uid |-> Map2Uid(idmap, table[i].rid), rid |-> table[i].rid,
              version |-> device[i].version] \in Reports
  <2>1. table[i].rid \in RecordIds /\ device[i].version \in Versions
    BY <1>1 DEF Changed, States, Records
  <2>2. Map2Uid(idmap, table[i].rid) \in Uids
    BY <2>1, Map2UidType
  <2>. QED BY <2>1, <2>2 DEF Reports, Kinds
<1>2. ASSUME NEW rid \in Deleted
      PROVE  [kind |-> "deleted", uid |-> Map2Uid(idmap, rid), rid |-> rid, version |-> 0] \in Reports
  <2>1. rid \in RecordIds /\ Map2Uid(idmap, rid) \in Uids
    BY <1>2, Map2UidType DEF Deleted
  <2>. QED BY <2>1 DEF Reports, Kinds
<1>3. \A i \in Changed : device[i].version \in Versions
  BY DEF Records
<1>. QED BY <1>1, <1>2, <1>3 DEF ReportsOf

\* The items of the other side after a slow sync have data it had before.
LEMMA SlowMatchHost ==
  ASSUME NEW S \in SUBSET Reports, SlowMatch(S)
  PROVE  /\ \A u \in DOMAIN host' : \E v \in DOMAIN host : host'[u] = host[v]
         /\ DOMAIN host' \subseteq DOMAIN host \cup {r.uid : r \in S}
         /\ \A u \in DOMAIN pending' : u \in DOMAIN host' /\ u \in DOMAIN host /\ pending'[u] = "added"
         /\ reports' \subseteq S
         /\ \A r \in S \ reports' : \E v \in DOMAIN host : host[v] = r.version
         /\ link' \subseteq {<<r.uid, r.rid>> : r \in S}
         /\ settled' = {}
<1> DEFINE Same(r) == {u \in DOMAIN host : host[u] = r.version /\ (r.uid \in DOMAIN host => u = r.uid)}
           Twins == {r \in S : Same(r) # {}}
           Twin(r) == CHOOSE u \in Same(r) : TRUE
           Left == DOMAIN host \ {Twin(r) : r \in Twins}
<1>1. /\ host' = [u \in Left \cup {r.uid : r \in Twins} |->
                    IF u \in Left THEN host[u] ELSE (CHOOSE r \in Twins : r.uid = u).version]
      /\ pending' = [u \in Left |-> "added"]
      /\ reports' = S \ Twins
      /\ link' = {<<r.uid, r.rid>> : r \in Twins}
      /\ settled' = {}
  BY DEF SlowMatch
<1>2. \A r \in Twins : \E v \in DOMAIN host : host[v] = r.version
  OBVIOUS
<1>3. ASSUME NEW u \in DOMAIN host'
      PROVE  \E v \in DOMAIN host : host'[u] = host[v]
  <2>0. u \in Left \cup {r.uid : r \in Twins}
    BY <1>1, <1>3
  <2>1. CASE u \in Left
    BY <1>1, <2>0, <2>1
  <2>2. CASE u \notin Left
    <3>1. PICK r \in Twins : r.uid = u
      BY <2>0, <2>2
    <3>2. (CHOOSE q \in Twins : q.uid = u) \in Twins
      BY <3>1
    <3>3. host'[u] = (CHOOSE q \in Twins : q.uid = u).version
      BY <1>1, <2>0, <2>2
    <3>. QED BY <1>2, <3>2, <3>3
  <2>. QED BY <2>1, <2>2
<1>4. DOMAIN host' \subseteq DOMAIN host \cup {r.uid : r \in S}
  BY <1>1
<1>5. \A u \in DOMAIN pending' : u \in DOMAIN host' /\ u \in DOMAIN host /\ pending'[u] = "added"
  BY <1>1
<1>6. /\ reports' \subseteq S
      /\ \A r \in S \ reports' : \E v \in DOMAIN host : host[v] = r.version
  BY <1>1, <1>2
<1>7. link' \subseteq {<<r.uid, r.rid>> : r \in S}
  BY <1>1
<1>. QED BY <1>1, <1>3, <1>4, <1>5, <1>6, <1>7

\* TypeOK in the form the steps below need.
Typed ==
  /\ phase \in Phases /\ version \in Versions
  /\ Into(device, Slots, Records) /\ Into(table, Slots, States) /\ lastNew \in Nat
  /\ cache \subseteq RecordIds /\ cacheFile \subseteq RecordIds
  /\ idmap \subseteq Uids \X RecordIds /\ mapFile \subseteq Uids \X RecordIds
  /\ Into(host, Uids, Versions) /\ Into(pending, Uids, Kinds)
  /\ reports \subseteq Reports /\ needSlow \in BOOLEAN /\ torn \in BOOLEAN /\ lapses \subseteq Lapses
  /\ told \subseteq Versions /\ link \subseteq Uids \X RecordIds /\ settled \subseteq Uids

LEMMA TypedIs == TypeOK <=> Typed
BY DEF TypeOK, Typed, Into

LEMMA CurrentTableType ==
  ASSUME Into(device, Slots, Records)
  PROVE  Into(CurrentTable, Slots, States)
BY DEF CurrentTable, Into, Records, States

LEMMA LinkedType ==
  ASSUME link \subseteq Uids \X RecordIds, NEW uid \in Uids, NEW rid \in RecordIds
  PROVE  Linked(uid, rid) \subseteq Uids \X RecordIds
BY DEF Linked

LEMMA NewPairsType == Typed => NewPairs \subseteq Uids \X RecordIds
<1> SUFFICES ASSUME Typed PROVE NewPairs \subseteq Uids \X RecordIds
  OBVIOUS
<1>1. ASSUME NEW i \in Changed
      PROVE  <<Map2Uid(idmap, table[i].rid), table[i].rid>> \in Uids \X RecordIds
  <2>1. table[i].rid \in RecordIds
    BY <1>1 DEF Typed, Changed, Into, States
  <2>. QED BY <2>1, Map2UidType DEF Typed
<1>. QED BY <1>1 DEF NewPairs

LEMMA TypeInit == Init => TInv
<1> SUFFICES ASSUME Init PROVE TInv
  OBVIOUS
<1>1. (CHOOSE i \in Slots : TRUE) \in Slots
  BY SlotsAssumption
<1>2. 1 \in RecordIds /\ 1 \in Versions
  BY BoundsAssumption DEF RecordIds, Versions
<1>3. Into(device, Slots, Records)
  BY <1>1, <1>2 DEF Init, Into, Records
<1>4. Into(table, Slots, States) /\ Into(host, Uids, Versions) /\ Into(pending, Uids, Kinds)
  BY DEF Init, Into
<1>5. Typed
  BY <1>2, <1>3, <1>4 DEF Init, Typed, Phases
<1>6. PendingHost
  BY DEF Init, PendingHost
<1>7. ReportsData
  BY DEF Init, ReportsData
<1>. QED BY <1>5, <1>6, <1>7, TypedIs DEF TInv

\* The users of the two sides.
LEMMA TypeUsers ==
  ASSUME TInv,
         \/ \E i \in Slots : DeviceModify(i) \/ DeviceDelete(i)
         \/ \E i \in Slots, rid \in RecordIds : DeviceAdd(i, rid)
         \/ \E uid \in HostUids : HostAdd(uid)
         \/ \E uid \in Uids : HostModify(uid) \/ HostDelete(uid)
  PROVE  TInv'
<1>0. Typed /\ PendingHost /\ ReportsData
  BY TypedIs DEF TInv
<1> SUFFICES (Typed /\ PendingHost /\ ReportsData)'
  BY TypedIs, PTL DEF TInv
<1> USE DEF Typed
<1>1. version < MaxVersion => version + 1 \in Versions
  BY <1>0, BoundsAssumption DEF Versions
<1>2. ASSUME NEW i \in Slots, NEW rid \in RecordIds, DeviceWrites(i, rid)
      PROVE  (Typed /\ PendingHost /\ ReportsData)'
  <2>1. [rid |-> rid, version |-> version', dirty |-> TRUE] \in Records
    BY <1>1, <1>2 DEF DeviceWrites, Records
  <2>2. Into(device', Slots, Records)
    BY <1>0, <1>2, <2>1, WithInto DEF DeviceWrites
  <2>. QED BY <1>0, <1>1, <1>2, <2>2 DEF DeviceWrites, plugin, files, engine, PendingHost, ReportsData
<1>3. ASSUME NEW i \in Slots, DeviceDelete(i)
      PROVE  (Typed /\ PendingHost /\ ReportsData)'
  <2>1. Into(device', Slots, Records)
    BY <1>0, <1>3, WithoutInto DEF DeviceDelete
  <2>. QED BY <1>0, <1>1, <1>3, <2>1 DEF DeviceDelete, plugin, files, engine, PendingHost, ReportsData
<1>4. ASSUME NEW uid \in Uids, NEW kind \in Kinds, HostWrites(uid, kind)
      PROVE  (Typed /\ PendingHost /\ ReportsData)'
  <2>1. Into(host', Uids, Versions) /\ Into(pending', Uids, Kinds)
    BY <1>0, <1>1, <1>4, WithInto DEF HostWrites
  <2>2. DOMAIN host' = DOMAIN host \cup {uid} /\ DOMAIN pending' = DOMAIN pending \cup {uid}
        /\ \A u \in DOMAIN pending : u # uid => pending'[u] = pending[u]
    BY <1>4 DEF HostWrites, With
  <2>3. PendingHost'
    BY <1>0, <2>2 DEF PendingHost
  <2>. QED BY <1>0, <1>1, <1>4, <2>1, <2>3 DEF HostWrites, plugin, files, ReportsData
<1>5. ASSUME NEW uid \in Uids, HostDelete(uid)
      PROVE  (Typed /\ PendingHost /\ ReportsData)'
  <2>1. Into(host', Uids, Versions)
    BY <1>0, <1>5, WithoutInto DEF HostDelete
  <2>2. Into(pending', Uids, Kinds)
    BY <1>0, <1>5, WithInto, WithoutInto DEF HostDelete, Kinds
  <2>3. /\ DOMAIN host' = DOMAIN host \ {uid}
        /\ \A u \in DOMAIN pending' : u # uid => u \in DOMAIN pending /\ pending'[u] = pending[u]
        /\ uid \in DOMAIN pending' => pending'[uid] = "deleted"
    BY <1>5 DEF HostDelete, With, Without
  <2>4. PendingHost'
    BY <1>0, <2>3 DEF PendingHost
  <2>5. settled' \subseteq Uids
    BY <1>0, <1>5, KeepsSettled DEF HostDelete
  <2>. QED BY <1>0, <1>1, <1>5, <2>1, <2>2, <2>4, <2>5 DEF HostDelete, plugin, files, ClearedLinks, ReportsData
<1>6. ASSUME NEW i \in Slots, DeviceModify(i) PROVE (Typed /\ PendingHost /\ ReportsData)'
  <2>1. device[i].rid \in RecordIds
    BY <1>0, <1>6 DEF DeviceModify, Into, Records
  <2>. QED BY <1>2, <1>6, <2>1 DEF DeviceModify
<1>7. ASSUME NEW i \in Slots, NEW rid \in RecordIds, DeviceAdd(i, rid) PROVE (Typed /\ PendingHost /\ ReportsData)'
  BY <1>2, <1>7 DEF DeviceAdd
<1>8. ASSUME NEW uid \in Uids, HostAdd(uid) \/ HostModify(uid) PROVE (Typed /\ PendingHost /\ ReportsData)'
  <2>1. uid \in DOMAIN pending => pending[uid] \in Kinds
    BY <1>0 DEF Into
  <2>. QED BY <1>4, <1>8, <2>1 DEF HostAdd, HostModify, Kinds
<1>. QED BY <1>3, <1>5, <1>6, <1>7, <1>8 DEF Uids

\* What a session does before and after the engine has its changes.
LEMMA TypeSession ==
  ASSUME TInv,
         \/ initialize \/ (\E slow \in BOOLEAN : get_changeinfo(slow))
         \/ GetChanges \/ GetChangesFails \/ sync_done \/ SaveCache \/ SaveMap \/ SaveIsCut
         \/ (\E i \in Slots : ClearDirty(i)) \/ sync_ends \/ Fails \/ finalize \/ CommitHangs
  PROVE  TInv'
<1>0. Typed /\ PendingHost /\ ReportsData
  BY TypedIs DEF TInv
<1> SUFFICES (Typed /\ PendingHost /\ ReportsData)'
  BY TypedIs, PTL DEF TInv
<1> USE DEF Typed
<1>1. Into(<< >>, Slots, States)
  BY DEF Into
<1>2. Into(CurrentTable, Slots, States)
  BY <1>0, CurrentTableType
<1>3. CASE initialize
  BY <1>0, <1>3 DEF initialize, engine, files, history, Phases, PendingHost, ReportsData
<1>4. ASSUME NEW slow \in BOOLEAN, get_changeinfo(slow) PROVE (Typed /\ PendingHost /\ ReportsData)'
  BY <1>0, <1>2, <1>4 DEF get_changeinfo, GetRecordStateTable, files, Lapses, Phases, PendingHost, ReportsData
<1>5. CASE GetChanges
  <2>1. /\ ReportsOf(Changed) \subseteq Reports
        /\ \A r \in ReportsOf(Changed) : r.kind # "deleted" => r.version \in Versions
    BY <1>5, ReportsType, TypedIs, <1>0 DEF GetChanges, TInv
  <2>2. NewPairs \subseteq Uids \X RecordIds
    BY <1>0, NewPairsType
  <2>3. RidsOf(table) \subseteq RecordIds
    BY <1>0 DEF RidsOf, Into, States
  <2>4. /\ Into(host', Uids, Versions) /\ Into(pending', Uids, Kinds) /\ reports' \subseteq Reports
        /\ link' \subseteq Uids \X RecordIds /\ settled' \subseteq Uids /\ PendingHost' /\ ReportsData'
    <3>1. CASE ~needSlow
      BY <1>0, <1>5, <2>1, <3>1 DEF GetChanges, PendingHost, ReportsData
    <3>2. CASE needSlow
      <4>1. SlowMatch(ReportsOf(Changed))
        BY <1>5, <3>2 DEF GetChanges
      <4>2. PICK S \in SUBSET Reports : S = ReportsOf(Changed)
        BY <2>1
      <4>3. /\ \A u \in DOMAIN host' : \E v \in DOMAIN host : host'[u] = host[v]
            /\ DOMAIN host' \subseteq DOMAIN host \cup {r.uid : r \in S}
            /\ \A u \in DOMAIN pending' : u \in DOMAIN host' /\ u \in DOMAIN host /\ pending'[u] = "added"
            /\ reports' \subseteq S
            /\ link' \subseteq {<<r.uid, r.rid>> : r \in S}
            /\ settled' = {}
        BY <4>1, <4>2, SlowMatchHost
      <4>4. \A r \in S : r.uid \in Uids /\ r.rid \in RecordIds
        BY DEF Reports
      <4>5. Into(host', Uids, Versions)
        BY <1>0, <4>3, <4>4 DEF Into
      <4>6. Into(pending', Uids, Kinds)
        BY <1>0, <4>3 DEF Into, Kinds
      <4>7. link' \subseteq Uids \X RecordIds
        BY <4>3, <4>4
      <4>. QED BY <4>3, <4>5, <4>6, <4>7, <4>2, <2>1 DEF PendingHost, ReportsData
    <3>. QED BY <3>1, <3>2
  <2>. QED BY <1>0, <1>5, <2>2, <2>3, <2>4 DEF GetChanges, files, Phases, Lapses
<1>6. CASE GetChangesFails
  <2>1. NewPairs \subseteq Uids \X RecordIds
    BY <1>0, NewPairsType
  <2>. QED BY <1>0, <1>1, <1>6, <2>1 DEF GetChangesFails, EndsBadly, files, history, Phases, PendingHost, ReportsData
<1>7. CASE sync_done
  BY <1>0, <1>2, <1>7 DEF sync_done, GetRecordStateTable, files, engine, history, Phases, PendingHost, ReportsData
<1>8. CASE SaveCache
  BY <1>0, <1>8 DEF SaveCache, plugin, engine, history, Phases, PendingHost, ReportsData
<1>9. CASE SaveMap
  BY <1>0, <1>9 DEF SaveMap, engine, history, Phases, PendingHost, ReportsData
<1>10. CASE SaveIsCut
  BY <1>0, <1>1, <1>10 DEF SaveIsCut, EndsBadly, Phases, PendingHost, ReportsData
<1>11. ASSUME NEW i \in Slots, ClearDirty(i) PROVE (Typed /\ PendingHost /\ ReportsData)'
  <2>1. i \in DOMAIN table
    BY <1>11 DEF ClearDirty, DirtyInTable
  <2>2. Into(table', Slots, States)
    BY <1>0, <1>11, <2>1 DEF ClearDirty, Into, States
  <2>3. Into(device', Slots, Records)
    BY <1>0, <1>11 DEF ClearDirty, Into, Records
  <2>. QED BY <1>0, <1>11, <2>2, <2>3 DEF ClearDirty, files, engine, history, PendingHost, ReportsData
<1>12. CASE sync_ends
  <2>1. settled' \subseteq Uids
    BY <1>0, <1>12 DEF sync_ends
  <2>. QED BY <1>0, <1>1, <1>12, <2>1 DEF sync_ends, files, Phases, PendingHost, ReportsData
<1>13. CASE Fails
  <2>1. torn' \in BOOLEAN
    BY <1>0, <1>13 DEF Fails
  <2>. QED BY <1>0, <1>1, <1>13, <2>1 DEF Fails, EndsBadly, files, Phases, PendingHost, ReportsData
<1>14. CASE finalize
  BY <1>0, <1>1, <1>14 DEF finalize, files, history, Phases, PendingHost, ReportsData
<1>15. CASE CommitHangs
  BY <1>0, <1>15 DEF CommitHangs, plugin, files, engine, history, Phases, PendingHost, ReportsData
<1>. QED BY <1>3, <1>4, <1>5, <1>6, <1>7, <1>8, <1>9, <1>10, <1>11, <1>12, <1>13, <1>14, <1>15

\* The engine brings a report to the other side, or keeps its own change.
LEMMA TypeEngine ==
  ASSUME TInv, NEW r \in reports, Apply(r) \/ HostWins(r)
  PROVE  TInv'
<1>0. Typed /\ PendingHost /\ ReportsData
  BY TypedIs DEF TInv
<1> SUFFICES (Typed /\ PendingHost /\ ReportsData)'
  BY TypedIs, PTL DEF TInv
<1> USE DEF Typed
<1>1. r \in Reports /\ r.uid \in Uids /\ r.rid \in RecordIds /\ r.kind \in Kinds /\ r.version \in Versions \cup {0}
  BY <1>0 DEF Reports
<1>2. CASE Apply(r)
  <2>1. CASE r.kind = "deleted"
    <3>1. Into(host', Uids, Versions) /\ Into(pending', Uids, Kinds)
      BY <1>0, <1>2, <2>1, WithoutInto DEF Apply
    <3>2. PendingHost'
      BY <1>0, <1>2, <2>1 DEF Apply, PendingHost, Without
    <3>3. settled' \subseteq Uids
      BY <1>0, <1>2, KeepsSettled DEF Apply
    <3>. QED BY <1>0, <1>2, <2>1, <3>1, <3>2, <3>3 DEF Apply, plugin, files, ClearedLinks, ReportsData
  <2>2. CASE r.kind # "deleted"
    <3>1. r.version \in Versions
      BY <1>0, <2>2 DEF ReportsData
    <3>2. Into(host', Uids, Versions) /\ Into(pending', Uids, Kinds)
      BY <1>0, <1>1, <1>2, <2>2, <3>1, WithInto, WithoutInto DEF Apply
    <3>3. PendingHost'
      BY <1>0, <1>2, <2>2 DEF Apply, PendingHost, With, Without
    <3>4. link' \subseteq Uids \X RecordIds
      BY <1>0, <1>1, <1>2, <2>2, LinkedType DEF Apply
    <3>5. settled' \subseteq Uids
      BY <1>0, <1>2, KeepsSettled DEF Apply
    <3>. QED BY <1>0, <1>2, <2>2, <3>1, <3>2, <3>3, <3>4, <3>5 DEF Apply, plugin, files, ReportsData
  <2>. QED BY <2>1, <2>2
<1>3. CASE HostWins(r)
  <2>1. r.uid \in DOMAIN pending
    BY <1>3 DEF HostWins
  <2>2. \/ pending' = Without(pending, r.uid) \/ pending' = pending
        \/ pending' = With(pending, r.uid, "added") /\ pending[r.uid] # "deleted"
        \/ pending' = With(pending, r.uid, "modified") /\ pending[r.uid] # "deleted"
    BY <1>3 DEF HostWins
  <2>3. Into(pending', Uids, Kinds)
    BY <1>0, <1>1, <2>2, WithInto, WithoutInto DEF Kinds
  <2>4. PendingHost'
    <3>1. host' = host
      BY <1>3 DEF HostWins
    <3>2. \A u \in DOMAIN pending' : u \in DOMAIN pending /\ (pending'[u] = pending[u] \/ pending[u] # "deleted")
      BY <2>1, <2>2 DEF With, Without
    <3>. QED BY <1>0, <3>1, <3>2 DEF PendingHost
  <2>5. link' \subseteq Uids \X RecordIds
    BY <1>0, <1>1, <1>3, LinkedType DEF HostWins, ClearedLinks
  <2>6. settled' \subseteq Uids
    BY <1>0, <1>3, KeepsSettled DEF HostWins
  <2>. QED BY <1>0, <1>1, <1>3, <2>3, <2>4, <2>5, <2>6 DEF HostWins, plugin, files, ReportsData
<1>. QED BY <1>2, <1>3

\* The changes of the other side are committed.
LEMMA TypeCommits ==
  ASSUME TInv, NEW uid \in DOMAIN pending, NEW rid \in RecordIds,
         \/ CommitRefused(uid, rid) \/ CommitUnparsable(uid, rid) \/ CommitFails(uid, rid)
         \/ CommitDeleted(uid, rid) \/ CommitAdded(uid, rid) \/ CommitModified(uid, rid)
  PROVE  TInv'
<1>0. Typed /\ PendingHost /\ ReportsData
  BY TypedIs DEF TInv
<1> SUFFICES (Typed /\ PendingHost /\ ReportsData)'
  BY TypedIs, PTL DEF TInv
<1> USE DEF Typed
<1>1. uid \in Uids /\ LastAfter(uid, rid) \in Nat
  BY <1>0, RecordIdsAreNat DEF Into, LastAfter
<1>2. idmap \cup {<<uid, rid>>} \subseteq Uids \X RecordIds /\ UnmapUid(idmap, uid) \subseteq Uids \X RecordIds
  BY <1>0, <1>1 DEF UnmapUid
<1>3. CASE CommitRefused(uid, rid)
  BY <1>0, <1>1, <1>2, <1>3 DEF CommitRefused, EndsBadly, files, history, Phases, PendingHost, ReportsData, Into
<1>4. CASE CommitUnparsable(uid, rid)
  BY <1>0, <1>1, <1>2, <1>4 DEF CommitUnparsable, EndsBadly, files, history, Phases, PendingHost, ReportsData, Into
<1>5. CASE CommitFails(uid, rid)
  BY <1>0, <1>1, <1>2, <1>5 DEF CommitFails, EndsBadly, files, history, Phases, PendingHost, ReportsData, Into
<1>6. /\ Into(Without(pending, uid), Uids, Kinds)
      /\ pending' = Without(pending, uid) /\ host' = host => PendingHost'
  BY <1>0, WithoutInto DEF PendingHost, Without
<1>7. CASE CommitDeleted(uid, rid)
  <2>1. Into(device', Slots, Records)
    BY <1>0, <1>7, WithoutInto DEF CommitDeleted
  <2>. QED BY <1>0, <1>1, <1>2, <1>6, <1>7, <2>1 DEF CommitDeleted, files, history, ReportsData
<1>8. CASE CommitAdded(uid, rid)
  <2>1. host[uid] \in Versions
    BY <1>0, <1>8 DEF CommitAdded, Commit, PendingHost, Into
  <2>2. PICK n \in RecordIds, i \in FreeSlots :
          /\ lastNew' \in {LastAfter(uid, rid), n}
          /\ device' = With(device, i, [rid |-> n, version |-> host[uid], dirty |-> TRUE])
          /\ link' = Linked(uid, n)
    BY <1>8 DEF CommitAdded
  <2>3. i \in Slots /\ [rid |-> n, version |-> host[uid], dirty |-> TRUE] \in Records
    BY <2>1 DEF FreeSlots, Records
  <2>4. Into(device', Slots, Records)
    BY <1>0, <2>2, <2>3, WithInto
  <2>5. link' \subseteq Uids \X RecordIds /\ lastNew' \in Nat
    BY <1>0, <1>1, <2>2, LinkedType, RecordIdsAreNat
  <2>6. settled' \subseteq Uids
    BY <1>0, <1>8, KeepsSettled DEF CommitAdded
  <2>. QED BY <1>0, <1>1, <1>2, <1>6, <1>8, <2>4, <2>5, <2>6 DEF CommitAdded, files, Lapses, ReportsData
<1>9. CASE CommitModified(uid, rid)
  <2>1. host[uid] \in Versions
    BY <1>0, <1>9 DEF CommitModified, Commit, PendingHost, Into
  <2>2. PICK i \in DOMAIN device, dirty \in BOOLEAN :
          device' = With(device, i, [rid |-> rid, version |-> host[uid], dirty |-> dirty])
    BY <1>9 DEF CommitModified
  <2>3. i \in Slots /\ [rid |-> rid, version |-> host[uid], dirty |-> dirty] \in Records
    BY <1>0, <2>1 DEF Into, Records
  <2>4. Into(device', Slots, Records)
    BY <1>0, <2>2, <2>3, WithInto
  <2>. QED BY <1>0, <1>1, <1>2, <1>6, <1>9, <2>4 DEF CommitModified, files, history, ReportsData
<1>. QED BY <1>3, <1>4, <1>5, <1>7, <1>8, <1>9

LEMMA TypeStep == TInv /\ [Next]_vars => TInv'
<1> SUFFICES ASSUME TInv, [Next]_vars PROVE TInv'
  OBVIOUS
<1>1. CASE UNCHANGED vars
  <2>1. Typed /\ PendingHost /\ ReportsData
    BY TypedIs DEF TInv
  <2>2. (Typed /\ PendingHost /\ ReportsData)'
    BY <1>1, <2>1 DEF vars, plugin, files, engine, history, Typed, PendingHost, ReportsData
  <2>. QED BY <2>2, TypedIs, PTL DEF TInv
<1>2. CASE Next
  BY <1>2, TypeUsers, TypeSession, TypeEngine, TypeCommits DEF Next
<1>. QED BY <1>1, <1>2

\* Types, for any indexes, uids and bounds: in particular a change that is to
\* be committed is of an item the other side has, and every report that is not
\* of a deletion carries data.
THEOREM TypeCorrect == Spec => []TypeOK
<1>1. Spec => []TInv
  BY TypeInit, TypeStep, PTL DEF Spec
<1>. QED BY <1>1, PTL DEF TInv
-----------------------------------------------------------------------------
(* The id map.                                                             *)

LEMMA OneToOnePart ==
  ASSUME NEW m, NEW S \in SUBSET m, OneToOne(m)
  PROVE  OneToOne(S)
BY DEF OneToOne

LEMMA OneToOneMore ==
  ASSUME NEW m, OneToOne(m), NEW uid, NEW rid, uid \notin UidsIn(m), rid \notin RidsIn(m)
  PROVE  OneToOne(m \cup {<<uid, rid>>})
BY DEF OneToOne, UidsIn, RidsIn

\* The records reported for the first time get uids of their own.
LEMMA OneToOneNew ==
  ASSUME OneToOne(idmap), NEW S \in SUBSET NewPairs
  PROVE  OneToOne(idmap \cup S)
<1>1. ASSUME NEW p \in S
      PROVE  p = <<Own(p[2]), p[2]>> /\ p[1] \notin UidsIn(idmap) /\ p[2] \notin RidsIn(idmap)
  <2>1. PICK i \in Changed : p = <<Map2Uid(idmap, table[i].rid), table[i].rid>>
    BY <1>1 DEF NewPairs
  <2>2. p[1] \notin UidsIn(idmap) /\ p[2] \notin RidsIn(idmap)
    BY <1>1 DEF NewPairs, CanMap
  <2>. QED BY <2>1, <2>2 DEF Map2Uid
<1>2. ASSUME NEW p \in S, NEW q \in S
      PROVE  p[1] = q[1] <=> p[2] = q[2]
  <2>1. p[1] = Own(p[2]) /\ q[1] = Own(q[2])
    BY <1>1
  <2>. QED BY <2>1 DEF Own
<1>3. ASSUME NEW p \in S, NEW q \in idmap
      PROVE  p[1] # q[1] /\ p[2] # q[2]
  BY <1>1 DEF UidsIn, RidsIn
<1>. QED BY <1>2, <1>3 DEF OneToOne

\* A commit adds the pair of a mapping that exists, or one of a uid and a
\* record id that are both free.
LEMMA OneToOneCommit ==
  ASSUME OneToOne(idmap), NEW uid, NEW rid, GetMappedRecordId(uid, rid)
  PROVE  OneToOne(idmap \cup {<<uid, rid>>}) /\ OneToOne(UnmapUid(idmap, uid))
<1>1. CASE <<uid, rid>> \in idmap
  <2>1. idmap \cup {<<uid, rid>>} = idmap
    BY <1>1
  <2>. QED BY <2>1, OneToOnePart DEF UnmapUid
<1>2. CASE <<uid, rid>> \notin idmap
  <2>1. uid \notin UidsIn(idmap) /\ rid \notin RidsIn(idmap)
    BY <1>2 DEF GetMappedRecordId, Mapped, CanMap, MakeNewRecordId
  <2>. QED BY <2>1, OneToOneMore, OneToOnePart DEF UnmapUid
<1>. QED BY <1>1, <1>2

LEMMA OneToOneStep == IdMapOneToOne /\ [Next]_vars => IdMapOneToOne'
<1> SUFFICES ASSUME IdMapOneToOne, [Next]_vars PROVE IdMapOneToOne'
  OBVIOUS
<1> USE DEF IdMapOneToOne
<1>0. OneToOne({})
  BY DEF OneToOne
<1>1. ASSUME UNCHANGED <<idmap, mapFile>> PROVE IdMapOneToOne'
  BY <1>1 DEF OneToOne
<1>2. ASSUME NEW m, OneToOne(m), idmap' = m, UNCHANGED mapFile PROVE IdMapOneToOne'
  BY <1>2 DEF OneToOne
<1>3. CASE \/ \E i \in Slots : DeviceModify(i) \/ DeviceDelete(i) \/ ClearDirty(i)
           \/ \E i \in Slots, rid \in RecordIds : DeviceAdd(i, rid)
  BY <1>1, <1>3 DEF DeviceModify, DeviceDelete, DeviceAdd, DeviceWrites, ClearDirty, plugin, files
<1>4. CASE \/ \E uid \in HostUids : HostAdd(uid)
           \/ \E uid \in Uids : HostModify(uid) \/ HostDelete(uid)
  BY <1>1, <1>4 DEF HostAdd, HostModify, HostDelete, HostWrites, plugin, files
<1>5. CASE \/ \E r \in reports : Apply(r) \/ HostWins(r)
           \/ CommitHangs \/ sync_done \/ SaveCache \/ sync_ends \/ Fails \/ UNCHANGED vars
  BY <1>1, <1>5 DEF Apply, HostWins, CommitHangs, sync_done, SaveCache, sync_ends, Fails, plugin, files, vars
<1>6. CASE initialize
  BY <1>2, <1>6 DEF initialize, files
<1>7. ASSUME NEW slow \in BOOLEAN, get_changeinfo(slow) PROVE IdMapOneToOne'
  BY <1>0, <1>2, <1>7 DEF get_changeinfo, files
<1>8. CASE GetChanges
  BY <1>2, <1>8, OneToOneNew DEF GetChanges, files
<1>9. CASE GetChangesFails
  BY <1>2, <1>9, OneToOneNew DEF GetChangesFails, files
<1>10. ASSUME NEW uid \in DOMAIN pending, NEW rid \in RecordIds,
              \/ CommitRefused(uid, rid) \/ CommitUnparsable(uid, rid) \/ CommitFails(uid, rid)
              \/ CommitDeleted(uid, rid) \/ CommitAdded(uid, rid) \/ CommitModified(uid, rid)
       PROVE  IdMapOneToOne'
  <2>1. GetMappedRecordId(uid, rid)
    BY <1>10 DEF CommitRefused, CommitUnparsable, CommitFails, CommitDeleted, CommitAdded, CommitModified, Commit
  <2>2. (idmap' = idmap \cup {<<uid, rid>>} \/ idmap' = UnmapUid(idmap, uid)) /\ mapFile' = mapFile
    BY <1>10 DEF CommitRefused, CommitUnparsable, CommitFails, CommitDeleted, CommitAdded, CommitModified, files
  <2>. QED BY <1>2, <2>1, <2>2, OneToOneCommit
<1>11. CASE SaveMap
  <2>1. PICK S : idmap' = idmap \ S /\ mapFile' = idmap'
    BY <1>11 DEF SaveMap
  <2>2. OneToOne(idmap \ S)
    BY OneToOnePart
  <2>. QED BY <2>1, <2>2 DEF OneToOne
<1>12. CASE SaveIsCut
  <2>1. idmap' = idmap /\ (mapFile' = mapFile \/ \E S \in SUBSET idmap : mapFile' = S)
    BY <1>12 DEF SaveIsCut
  <2>. QED BY <2>1 DEF OneToOne
<1>13. CASE finalize
  BY <1>0, <1>2, <1>13 DEF finalize, files
<1>. QED BY <1>3, <1>4, <1>5, <1>6, <1>7, <1>8, <1>9, <1>10, <1>11, <1>12, <1>13 DEF Next

\* Two uids never share a record, and two records never a uid, in memory and
\* on disk: through reports, commits, cleaning up with an invalid iterator,
\* and files that are cut short.
THEOREM IdMapOneToOneAlways == Spec => []IdMapOneToOne
<1>1. Init => IdMapOneToOne
  BY DEF Init, IdMapOneToOne, OneToOne
<1>. QED BY <1>1, OneToOneStep, PTL DEF Spec
-----------------------------------------------------------------------------
(* Edits on the device.                                                    *)

\* The other side has seen the data of its items.
HostTold == \A u \in DOMAIN host : host[u] \in told

\* The record at index i needs no report, or is beyond help.
Safe(i) == device[i].version \in told \/ device[i].rid \in raced

\* NoLostEdit for the whole of a session.  Only before the first session, or
\* when a slow one is due, does it rest on what is in the file.
Core ==
  \A i \in DOMAIN device :
    device[i].dirty \/ Safe(i) \/ (needSlow /\ device[i].rid \notin cacheFile)

\* The table GetChanges goes by is older than the records, but for those that
\* were edited since.
Snapshot ==
  phase = "fetched" =>
    \A i \in DOMAIN device :
      \/ device[i].rid \in raced
      \/ i \in DOMAIN table /\ table[i].rid = device[i].rid /\ table[i].dirty = device[i].dirty

\* A slow sync reports every record, whatever was left in memory.
CacheIs == phase = "fetched" /\ needSlow => cache = {}

Reported(v) == \E r \in reports : r.kind # "deleted" /\ r.version = v

\* From the report on every record is safe or about to be.
Covered ==
  phase \in {"commit", "saving", "cleaning", "clearing"} =>
    \A i \in DOMAIN device : Safe(i) \/ Reported(device[i].version)

Handled == phase \in {"saving", "cleaning", "clearing"} => reports = {}

EInv == TInv /\ HostTold /\ Core /\ Snapshot /\ CacheIs /\ Covered /\ Handled

LEMMA EditInit == Init => EInv
<1> SUFFICES ASSUME Init PROVE EInv
  OBVIOUS
<1>1. TInv
  BY TypeInit
<1>2. HostTold /\ Core
  BY DEF Init, HostTold, Core
<1>3. Snapshot /\ CacheIs /\ Covered /\ Handled
  BY DEF Init, Snapshot, CacheIs, Covered, Handled
<1>. QED BY <1>1, <1>2, <1>3 DEF EInv

\* Steps that touch neither the device nor what the other side has seen, and
\* end a call.
LEMMA EditEnds ==
  ASSUME EInv, EndsBadly, UNCHANGED <<device, host, needSlow, told, raced>>,
         cacheFile' = cacheFile \/ (phase = "saving" /\ cacheFile' \subseteq cache)
  PROVE  (HostTold /\ Core /\ Snapshot /\ CacheIs /\ Covered /\ Handled)'
<1>1. phase' = "failed"
  BY DEF EndsBadly
<1>2. (Snapshot /\ CacheIs /\ Covered /\ Handled)'
  BY <1>1 DEF Snapshot, CacheIs, Covered, Handled
<1>3. HostTold'
  BY DEF EInv, HostTold
<1>4. Core'
  <2>1. CASE cacheFile' = cacheFile
    BY <2>1 DEF EInv, Core, Safe
  <2>2. CASE phase = "saving"
    <3>1. \A i \in DOMAIN device : Safe(i)
      BY <2>2 DEF EInv, Covered, Handled, Reported
    <3>. QED BY <3>1 DEF Core, Safe
  <2>. QED BY <2>1, <2>2
<1>. QED BY <1>2, <1>3, <1>4

\* The user of the device writes a record: it is dirty, and raced in a session.
LEMMA EditWrites ==
  ASSUME EInv, NEW i, NEW rid, DeviceWrites(i, rid)
  PROVE  (HostTold /\ Core /\ Snapshot /\ CacheIs /\ Covered /\ Handled)'
<1>1. /\ UNCHANGED <<phase, table, cache, cacheFile, host, reports, needSlow, told>>
      /\ raced \subseteq raced'
      /\ phase \in Window => rid \in raced'
      /\ device' = With(device, i, [rid |-> rid, version |-> version', dirty |-> TRUE])
  BY DEF DeviceWrites, plugin, files, engine, Race
<1>2. /\ DOMAIN device' = DOMAIN device \cup {i}
      /\ device'[i].rid = rid /\ device'[i].dirty = TRUE
      /\ \A j \in DOMAIN device : j # i => device'[j] = device[j]
  BY <1>1 DEF With
<1>3. HostTold' /\ CacheIs' /\ Handled'
  BY <1>1 DEF EInv, HostTold, CacheIs, Handled
<1>4. Core'
  BY <1>1, <1>2 DEF EInv, Core, Safe
<1>5. Snapshot'
  <2> SUFFICES ASSUME phase = "fetched", NEW j \in DOMAIN device'
               PROVE  \/ device'[j].rid \in raced'
                      \/ j \in DOMAIN table /\ table[j].rid = device'[j].rid /\ table[j].dirty = device'[j].dirty
    BY <1>1 DEF Snapshot
  <2>1. CASE j = i
    BY <1>1, <1>2, <2>1 DEF Window
  <2>2. CASE j # i
    BY <1>1, <1>2, <2>2 DEF EInv, Snapshot
  <2>. QED BY <2>1, <2>2
<1>6. Covered'
  <2> SUFFICES ASSUME phase' \in {"commit", "saving", "cleaning", "clearing"}, NEW j \in DOMAIN device'
               PROVE  Safe(j)' \/ Reported(device[j].version)'
    BY DEF Covered
  <2>1. CASE j = i
    BY <1>1, <1>2, <2>1 DEF Safe, Window
  <2>2. CASE j # i
    <3>1. Safe(j) \/ Reported(device[j].version)
      BY <1>1, <1>2, <2>2 DEF EInv, Covered
    <3>. QED BY <1>1, <1>2, <2>2, <3>1 DEF Safe, Reported
  <2>. QED BY <2>1, <2>2
<1>. QED BY <1>3, <1>4, <1>5, <1>6

\* Steps that take a record from the device or leave it alone, and report
\* nothing.
LEMMA EditFewer ==
  ASSUME EInv,
         DOMAIN device' \subseteq DOMAIN device,
         \A j \in DOMAIN device' : device'[j] = device[j],
         UNCHANGED <<phase, table, cacheFile, host, reports, needSlow>>,
         cache' = cache \/ phase = "commit",
         told \subseteq told', raced \subseteq raced'
  PROVE  (HostTold /\ Core /\ Snapshot /\ CacheIs /\ Covered /\ Handled)'
<1>1. HostTold' /\ CacheIs' /\ Handled'
  BY DEF EInv, HostTold, CacheIs, Handled
<1>2. Core'
  BY DEF EInv, Core, Safe
<1>3. Snapshot'
  BY DEF EInv, Snapshot
<1>4. Covered'
  <2> SUFFICES ASSUME phase' \in {"commit", "saving", "cleaning", "clearing"}, NEW j \in DOMAIN device'
               PROVE  Safe(j)' \/ Reported(device[j].version)'
    BY DEF Covered
  <2>1. Safe(j) \/ Reported(device[j].version)
    BY DEF EInv, Covered
  <2>. QED BY <2>1 DEF Safe, Reported
<1>. QED BY <1>1, <1>2, <1>3, <1>4

\* The users of the two sides.
LEMMA EditUsers ==
  ASSUME EInv,
         \/ \E i \in Slots : DeviceModify(i) \/ DeviceDelete(i)
         \/ \E i \in Slots, rid \in RecordIds : DeviceAdd(i, rid)
         \/ \E uid \in HostUids : HostAdd(uid)
         \/ \E uid \in Uids : HostModify(uid) \/ HostDelete(uid)
  PROVE  (HostTold /\ Core /\ Snapshot /\ CacheIs /\ Covered /\ Handled)'
<1>1. ASSUME NEW i, NEW rid, DeviceModify(i) \/ DeviceAdd(i, rid)
      PROVE  (HostTold /\ Core /\ Snapshot /\ CacheIs /\ Covered /\ Handled)'
  BY <1>1, EditWrites DEF DeviceModify, DeviceAdd
<1>2. ASSUME NEW i, DeviceDelete(i)
      PROVE  (HostTold /\ Core /\ Snapshot /\ CacheIs /\ Covered /\ Handled)'
  BY <1>2, EditFewer DEF DeviceDelete, Without, Race, plugin, files, engine
<1>3. ASSUME NEW uid, NEW kind, HostWrites(uid, kind)
      PROVE  (HostTold /\ Core /\ Snapshot /\ CacheIs /\ Covered /\ Handled)'
  <2>1. /\ UNCHANGED <<phase, device, table, cache, cacheFile, reports, needSlow, raced>>
        /\ phase \in {"off", "ready", "failed"}
        /\ told \subseteq told' /\ version' \in told'
        /\ DOMAIN host' = DOMAIN host \cup {uid} /\ host'[uid] = version'
        /\ \A u \in DOMAIN host : u # uid => host'[u] = host[u]
    BY <1>3 DEF HostWrites, plugin, files, With
  <2>2. HostTold'
    BY <2>1 DEF EInv, HostTold
  <2>3. Core'
    BY <2>1 DEF EInv, Core, Safe
  <2>4. Snapshot' /\ CacheIs' /\ Covered' /\ Handled'
    BY <2>1 DEF EInv, Snapshot, CacheIs, Covered, Handled
  <2>. QED BY <2>2, <2>3, <2>4
<1>4. ASSUME NEW uid, HostDelete(uid)
      PROVE  (HostTold /\ Core /\ Snapshot /\ CacheIs /\ Covered /\ Handled)'
  <2>1. /\ UNCHANGED <<phase, device, table, cache, cacheFile, reports, needSlow, raced, told>>
        /\ DOMAIN host' \subseteq DOMAIN host
        /\ \A u \in DOMAIN host' : host'[u] = host[u]
    BY <1>4 DEF HostDelete, plugin, files, Without
  <2>2. HostTold'
    BY <2>1 DEF EInv, HostTold
  <2>3. Core' /\ Snapshot' /\ CacheIs' /\ Covered' /\ Handled'
    BY <2>1 DEF EInv, Core, Safe, Snapshot, CacheIs, Covered, Reported, Handled
  <2>. QED BY <2>2, <2>3
<1>. QED BY <1>1, <1>2, <1>3, <1>4 DEF HostAdd, HostModify

\* GetChanges: a record that is neither reported nor raced is in the cache, so
\* that the sync is not slow, and not dirty: the other side has seen its data.
LEMMA EditGetChanges ==
  ASSUME EInv, GetChanges
  PROVE  (HostTold /\ Core /\ Snapshot /\ CacheIs /\ Covered /\ Handled)'
<1>1. /\ phase = "fetched" /\ phase' = "commit" /\ Changed \subseteq DOMAIN device
      /\ UNCHANGED <<device, table, cacheFile, needSlow, told, raced>>
  BY DEF GetChanges, files
<1>2. Snapshot' /\ CacheIs' /\ Handled'
  BY <1>1 DEF Snapshot, CacheIs, Handled
<1>3. Core'
  BY <1>1 DEF EInv, Core, Safe
<1>4. PICK S \in SUBSET Reports : S = ReportsOf(Changed)
  BY <1>1, ReportsType DEF EInv
<1>5. /\ HostTold'
      /\ reports' \subseteq S
      /\ \A r \in S \ reports' : r.version \in told
  <2>1. CASE needSlow
    <3>1. SlowMatch(S)
      BY <1>4, <2>1 DEF GetChanges
    <3>2. /\ \A u \in DOMAIN host' : \E v \in DOMAIN host : host'[u] = host[v]
          /\ reports' \subseteq S
          /\ \A r \in S \ reports' : \E v \in DOMAIN host : host[v] = r.version
      BY <3>1, SlowMatchHost
    <3>3. \A v \in DOMAIN host : host[v] \in told
      BY DEF EInv, HostTold
    <3>4. HostTold'
      BY <1>1, <3>2, <3>3 DEF HostTold
    <3>. QED BY <3>2, <3>3, <3>4
  <2>2. CASE ~needSlow
    BY <1>1, <1>4, <2>2 DEF GetChanges, EInv, HostTold
  <2>. QED BY <2>1, <2>2
<1>6. ASSUME NEW i \in DOMAIN device
      PROVE  Safe(i)' \/ Reported(device[i].version)'
  <2>1. CASE device[i].rid \in raced
    BY <1>1, <2>1 DEF Safe
  <2>2. CASE device[i].rid \notin raced
    <3>1. i \in DOMAIN table /\ table[i].rid = device[i].rid /\ table[i].dirty = device[i].dirty
      BY <1>1, <2>2 DEF EInv, Snapshot
    <3>2. CASE i \in Changed
      <4>1. PICK r \in ReportsOf(Changed) : r.version = device[i].version /\ r.kind # "deleted"
        <5> DEFINE q == [kind |-> IF table[i].rid \in cache THEN "modified" ELSE "added",
                         uid |-> Map2Uid(idmap, table[i].rid), rid |-> table[i].rid,
                         version |-> device[i].version]
        <5>1. q \in ReportsOf(Changed)
          BY <3>2 DEF ReportsOf
        <5>2. q.version = device[i].version /\ q.kind # "deleted"
          OBVIOUS
        <5>. QED BY <5>1, <5>2
      <4>2. r \in reports' \/ r.version \in told
        BY <1>4, <1>5
      <4>. QED BY <1>1, <4>1, <4>2 DEF Safe, Reported
    <3>3. CASE i \notin Changed
      <4>1. device[i].rid \in cache /\ ~device[i].dirty
        BY <3>1, <3>3 DEF Changed
      <4>2. ~needSlow
        BY <1>1, <4>1 DEF EInv, CacheIs
      <4>3. Safe(i)
        BY <4>1, <4>2 DEF EInv, Core
      <4>. QED BY <1>1, <4>3 DEF Safe
    <3>. QED BY <3>2, <3>3
  <2>. QED BY <2>1, <2>2
<1>7. Covered'
  BY <1>1, <1>6 DEF Covered
<1>. QED BY <1>2, <1>3, <1>5, <1>7

\* The files and the dirty flags follow when everything has been reported.
LEMMA EditSession ==
  ASSUME EInv,
         \/ initialize \/ (\E slow \in BOOLEAN : get_changeinfo(slow))
         \/ GetChangesFails \/ sync_done \/ SaveCache \/ SaveMap \/ SaveIsCut
         \/ (\E i \in Slots : ClearDirty(i)) \/ sync_ends \/ Fails \/ finalize \/ CommitHangs
  PROVE  (HostTold /\ Core /\ Snapshot /\ CacheIs /\ Covered /\ Handled)'
<1>1. ASSUME UNCHANGED <<device, cacheFile, host, told, raced>>, needSlow => needSlow'
      PROVE  HostTold' /\ Core'
  BY <1>1 DEF EInv, HostTold, Core, Safe
<1>2. ASSUME phase \in {"saving", "cleaning", "clearing"}, NEW i \in DOMAIN device
      PROVE  Safe(i)
  BY <1>2 DEF EInv, Covered, Handled, Reported
<1>3. CASE initialize
  BY <1>1, <1>3 DEF initialize, files, engine, history, Snapshot, CacheIs, Covered, Handled
<1>4. ASSUME NEW slow \in BOOLEAN, get_changeinfo(slow)
      PROVE  (HostTold /\ Core /\ Snapshot /\ CacheIs /\ Covered /\ Handled)'
  <2>1. Snapshot'
    BY <1>4 DEF get_changeinfo, GetRecordStateTable, CurrentTable, Snapshot
  <2>2. CacheIs'
    BY <1>4 DEF get_changeinfo, CacheIs
  <2>. QED BY <1>1, <1>4, <2>1, <2>2 DEF get_changeinfo, files, Covered, Handled
<1>5. CASE GetChangesFails \/ Fails
  BY <1>5, EditEnds DEF GetChangesFails, Fails, files, history
<1>6. CASE SaveIsCut
  BY <1>6, EditEnds DEF SaveIsCut
<1>7. CASE sync_done
  <2>1. /\ reports = {} /\ phase = "commit" /\ phase' = "saving"
        /\ UNCHANGED <<device, cacheFile, host, needSlow, told, raced, reports>>
    BY <1>7 DEF sync_done, files, engine, history
  <2>2. Covered'
    BY <2>1 DEF EInv, Covered, Safe, Reported
  <2>. QED BY <1>1, <2>1, <2>2 DEF Snapshot, CacheIs, Handled
<1>8. CASE SaveCache
  <2>1. /\ phase = "saving" /\ phase' = "cleaning" /\ cacheFile' = cache
        /\ UNCHANGED <<device, cache, host, told, raced, reports>>
    BY <1>8 DEF SaveCache, plugin, engine, history
  <2>2. \A i \in DOMAIN device : Safe(i)'
    BY <1>2, <2>1 DEF Safe
  <2>3. HostTold' /\ Core'
    BY <2>1, <2>2 DEF EInv, HostTold, Core
  <2>4. Covered'
    BY <2>1, <2>2 DEF Covered
  <2>. QED BY <2>1, <2>3, <2>4 DEF EInv, Snapshot, CacheIs, Handled
<1>9. CASE SaveMap
  <2>1. /\ phase = "cleaning" /\ phase' = "clearing"
        /\ UNCHANGED <<device, cache, cacheFile, host, needSlow, told, raced, reports>>
    BY <1>9 DEF SaveMap, engine, history
  <2>2. Covered'
    BY <1>2, <2>1 DEF Covered, Safe
  <2>. QED BY <1>1, <2>1, <2>2 DEF EInv, Snapshot, CacheIs, Handled
<1>10. ASSUME NEW i \in Slots, ClearDirty(i)
       PROVE  (HostTold /\ Core /\ Snapshot /\ CacheIs /\ Covered /\ Handled)'
  <2>1. /\ phase = "clearing" /\ phase' = phase
        /\ UNCHANGED <<cache, cacheFile, host, told, raced, reports>>
    BY <1>10 DEF ClearDirty, files, engine, history
  <2>2. ASSUME NEW j \in DOMAIN device'
        PROVE  j \in DOMAIN device /\ device'[j].rid = device[j].rid /\ device'[j].version = device[j].version
    <3>1. Into(device, Slots, Records)
      BY TypedIs DEF EInv, TInv, Typed
    <3>. QED BY <1>10, <2>2, <3>1 DEF ClearDirty, Into, Records
  <2>3. \A j \in DOMAIN device' : Safe(j)'
    BY <1>2, <2>1, <2>2 DEF Safe
  <2>4. HostTold' /\ Core' /\ Covered'
    BY <2>1, <2>3 DEF EInv, HostTold, Core, Covered
  <2>. QED BY <2>1, <2>4 DEF EInv, Snapshot, CacheIs, Handled
<1>11. CASE sync_ends
  <2>1. /\ phase = "clearing" /\ phase' = "ready"
        /\ UNCHANGED <<device, cacheFile, host, told, raced>>
    BY <1>11 DEF sync_ends, files
  <2>2. \A i \in DOMAIN device : Safe(i)'
    BY <1>2, <2>1 DEF Safe
  <2>3. HostTold' /\ Core'
    BY <2>1, <2>2 DEF EInv, HostTold, Core
  <2>. QED BY <2>1, <2>3 DEF Snapshot, CacheIs, Covered, Handled
<1>12. CASE finalize
  BY <1>1, <1>12 DEF finalize, files, history, Snapshot, CacheIs, Covered, Handled
<1>13. CASE CommitHangs
  BY <1>1, <1>13 DEF CommitHangs, plugin, files, engine, history, Snapshot, CacheIs, Covered, Handled
<1>. QED BY <1>3, <1>4, <1>5, <1>6, <1>7, <1>8, <1>9, <1>10, <1>11, <1>12, <1>13

\* The engine applies a report, or keeps its own change after seeing the data.
LEMMA EditEngine ==
  ASSUME EInv, NEW r \in reports, Apply(r) \/ HostWins(r)
  PROVE  (HostTold /\ Core /\ Snapshot /\ CacheIs /\ Covered /\ Handled)'
<1>1. /\ phase = "commit" /\ phase' = phase /\ reports' = reports \ {r}
      /\ UNCHANGED <<device, table, cache, cacheFile, needSlow, raced>>
      /\ told \subseteq told'
      /\ r.kind # "deleted" => r.version \in told'
      /\ \A u \in DOMAIN host' : (u \in DOMAIN host /\ host'[u] = host[u]) \/ host'[u] \in told'
  <2>1. r.kind # "deleted" => r.version \in Versions
    BY DEF EInv, TInv, ReportsData
  <2>2. r.version \in Versions => r.version # 0
    BY DEF Versions
  <2>3. CASE Apply(r)
    BY <2>3 DEF Apply, plugin, files, With, Without
  <2>4. CASE HostWins(r)
    BY <2>1, <2>2, <2>4 DEF HostWins, plugin, files
  <2>. QED BY <2>3, <2>4
<1>2. HostTold'
  BY <1>1 DEF EInv, HostTold
<1>3. Core' /\ Snapshot' /\ CacheIs' /\ Handled'
  BY <1>1 DEF EInv, Core, Safe, Snapshot, CacheIs, Handled
<1>4. ASSUME NEW i \in DOMAIN device
      PROVE  Safe(i)' \/ Reported(device[i].version)'
  <2>1. Safe(i) \/ Reported(device[i].version)
    BY <1>1 DEF EInv, Covered
  <2>. QED BY <1>1, <2>1 DEF Safe, Reported
<1>5. Covered'
  BY <1>1, <1>4 DEF Covered
<1>. QED BY <1>2, <1>3, <1>5

\* A commit writes data that the other side has, or takes a record away, or
\* fails and leaves the device alone.
LEMMA EditCommits ==
  ASSUME EInv, NEW uid \in DOMAIN pending, NEW rid \in RecordIds,
         \/ CommitRefused(uid, rid) \/ CommitUnparsable(uid, rid) \/ CommitFails(uid, rid)
         \/ CommitDeleted(uid, rid) \/ CommitAdded(uid, rid) \/ CommitModified(uid, rid)
  PROVE  (HostTold /\ Core /\ Snapshot /\ CacheIs /\ Covered /\ Handled)'
<1>1. CASE CommitRefused(uid, rid) \/ CommitUnparsable(uid, rid) \/ CommitFails(uid, rid)
  BY <1>1, EditEnds DEF CommitRefused, CommitUnparsable, CommitFails, files, history
<1>2. CASE CommitDeleted(uid, rid)
  <2>1. /\ phase = "commit"
        /\ DOMAIN device' \subseteq DOMAIN device
        /\ \A j \in DOMAIN device' : device'[j] = device[j]
        /\ UNCHANGED <<phase, table, cacheFile, host, reports, needSlow, told, raced>>
    BY <1>2 DEF CommitDeleted, Commit, Without, files, history
  <2>. QED BY <2>1, EditFewer
<1>3. CASE CommitAdded(uid, rid) \/ CommitModified(uid, rid)
  <2>1. host[uid] \in told
    BY <1>3 DEF CommitAdded, CommitModified, Commit, EInv, TInv, PendingHost, HostTold
  <2>2. /\ phase = "commit"
        /\ UNCHANGED <<phase, table, cacheFile, host, reports, needSlow, told, raced>>
    BY <1>3 DEF CommitAdded, CommitModified, Commit, files, history
  <2>3. PICK i, n, d : device' = With(device, i, [rid |-> n, version |-> host[uid], dirty |-> d])
    BY <1>3 DEF CommitAdded, CommitModified
  <2>4. /\ DOMAIN device' = DOMAIN device \cup {i}
        /\ device'[i].version = host[uid]
        /\ \A j \in DOMAIN device : j # i => device'[j] = device[j]
    BY <2>3 DEF With
  <2>5. ASSUME NEW j \in DOMAIN device'
        PROVE  Safe(j)' \/ (j \in DOMAIN device /\ device'[j] = device[j])
    BY <2>1, <2>2, <2>4, <2>5 DEF Safe
  <2>6. Core'
    BY <2>2, <2>5 DEF EInv, Core, Safe
  <2>7. ASSUME NEW j \in DOMAIN device'
        PROVE  Safe(j)' \/ Reported(device[j].version)'
    <3>1. CASE j \in DOMAIN device /\ device'[j] = device[j]
      <4>1. Safe(j) \/ Reported(device[j].version)
        BY <2>2, <3>1 DEF EInv, Covered
      <4>. QED BY <2>2, <3>1, <4>1 DEF Safe, Reported
    <3>. QED BY <2>5, <3>1
  <2>8. Covered'
    BY <2>7 DEF Covered
  <2>9. HostTold' /\ Snapshot' /\ CacheIs' /\ Handled'
    BY <2>2 DEF EInv, HostTold, Snapshot, CacheIs, Handled
  <2>. QED BY <2>6, <2>8, <2>9
<1>. QED BY <1>1, <1>2, <1>3

LEMMA EditStep == EInv /\ [Next]_vars => EInv'
<1> SUFFICES ASSUME EInv, [Next]_vars PROVE EInv'
  OBVIOUS
<1>1. TInv'
  BY TypeStep DEF EInv
<1>2. (HostTold /\ Core /\ Snapshot /\ CacheIs /\ Covered /\ Handled)'
  <2>1. CASE UNCHANGED vars
    BY <2>1 DEF vars, plugin, files, engine, history, EInv, HostTold, Core, Safe, Snapshot, CacheIs,
                Covered, Reported, Handled
  <2>2. CASE Next
    BY <2>2, EditUsers, EditGetChanges, EditSession, EditEngine, EditCommits DEF Next
  <2>. QED BY <2>1, <2>2
<1>. QED BY <1>1, <1>2 DEF EInv

\* The data of a record that is in the cache and not dirty has been seen by
\* the other side: no edit on the device is lost, whatever fails and wherever
\* a file is cut short, also when a session begins with what a failed one left
\* in memory, unless the edit was made in a session.
THEOREM NoLostEditAlways == Spec => []NoLostEdit
<1>1. Init => EInv
  BY EditInit
<1>2. EInv /\ [Next]_vars => EInv'
  BY EditStep
<1>3. EInv => NoLostEdit
  BY DEF EInv, Core, Safe, NoLostEdit
<1>. QED BY <1>1, <1>2, <1>3, PTL DEF Spec
-----------------------------------------------------------------------------
(* One record per id.                                                      *)

\* The record of an added item gets the id its uid is mapped to: the plugin
\* does not make a second one because the table has a record of that id.
FirstIds == \A uid \in DOMAIN pending, rid \in RecordIds : CommitAdded(uid, rid) => GetIndex(rid) = {}

\* A session begins after initialize or after one that ended well.
FromFiles == \A slow \in BOOLEAN : get_changeinfo(slow) => phase = "ready"

\* A step in which the plugin does not lapse is none of the steps that are
\* lapses.
LEMMA NoLapse ==
  /\ "renumbered" \notin lapses' => FirstIds
  /\ "memory" \notin lapses' => FromFiles
  /\ "clash" \notin lapses' => (GetChanges => Unclashed)
<1>1. ASSUME "renumbered" \notin lapses', NEW uid, NEW rid, CommitAdded(uid, rid)
      PROVE  GetIndex(rid) = {}
  <2>1. lapses' = IF GetIndex(rid) = {} THEN lapses ELSE lapses \cup {"renumbered"}
    BY <1>1 DEF CommitAdded
  <2>. QED BY <1>1, <2>1
<1>2. ASSUME "memory" \notin lapses', NEW slow, get_changeinfo(slow) PROVE phase = "ready"
  <2>1. /\ phase \in {"ready", "failed"}
        /\ lapses' = IF phase = "failed" THEN lapses \cup {"memory"} ELSE lapses
    BY <1>2 DEF get_changeinfo
  <2>. QED BY <1>2, <2>1
<1>3. ASSUME "clash" \notin lapses', GetChanges PROVE Unclashed
  <2>1. lapses' = IF Unclashed THEN lapses ELSE lapses \cup {"clash"}
    BY <1>3 DEF GetChanges
  <2>. QED BY <1>3, <2>1
<1>. QED BY <1>1, <1>2, <1>3 DEF FirstIds, FromFiles

\* No lapse is forgotten.
LEMMA LapsesStay == [Next]_vars => lapses \subseteq lapses'
<1> SUFFICES ASSUME [Next]_vars PROVE lapses \subseteq lapses'
  OBVIOUS
<1>1. CASE UNCHANGED vars
  BY <1>1 DEF vars, history
<1>2. ASSUME NEW i, NEW rid, DeviceModify(i) \/ DeviceDelete(i) \/ ClearDirty(i) \/ DeviceAdd(i, rid)
      PROVE  lapses' = lapses
  BY <1>2 DEF DeviceModify, DeviceDelete, DeviceAdd, DeviceWrites, ClearDirty, history
<1>3. ASSUME NEW uid, HostAdd(uid) \/ HostModify(uid) \/ HostDelete(uid)
      PROVE  lapses' = lapses
  BY <1>3 DEF HostAdd, HostModify, HostDelete, HostWrites
<1>4. ASSUME NEW slow, get_changeinfo(slow) \/ GetChanges PROVE lapses \subseteq lapses'
  BY <1>4 DEF get_changeinfo, GetChanges
<1>5. ASSUME NEW r, Apply(r) \/ HostWins(r) PROVE lapses' = lapses
  BY <1>5 DEF Apply, HostWins
<1>6. ASSUME NEW uid, NEW rid,
             \/ CommitRefused(uid, rid) \/ CommitUnparsable(uid, rid) \/ CommitFails(uid, rid)
             \/ CommitDeleted(uid, rid) \/ CommitModified(uid, rid)
      PROVE  lapses' = lapses
  BY <1>6 DEF CommitRefused, CommitUnparsable, CommitFails, CommitDeleted, CommitModified, history
<1>7. ASSUME NEW uid, NEW rid, CommitAdded(uid, rid) PROVE lapses \subseteq lapses'
  BY <1>7 DEF CommitAdded
<1>8. CASE initialize \/ GetChangesFails \/ CommitHangs \/ sync_done \/ SaveCache \/ SaveMap \/ finalize
  BY <1>8 DEF initialize, GetChangesFails, CommitHangs, sync_done, SaveCache, SaveMap, finalize, history
<1>9. CASE SaveIsCut \/ sync_ends \/ Fails
  BY <1>9 DEF SaveIsCut, sync_ends, Fails
<1>. QED BY <1>1, <1>2, <1>3, <1>4, <1>5, <1>6, <1>7, <1>8, <1>9 DEF Next

\* Where the table has a record the device has no other, all session long.
SameIndexes == phase \in Window => \A i \in DOMAIN device \cap DOMAIN table : device[i].rid = table[i].rid

\* Ids of the device that the table has not are of records added since: by
\* the user, or by a commit that left them mapped to an item.
Committed == {p[2] : p \in {q \in idmap : q[1] \notin DOMAIN pending}}

Known ==
  /\ phase = "fetched" => RidsOf(device) \subseteq RidsOf(table) \cup raced
  /\ phase = "commit" => RidsOf(device) \subseteq RidsOf(table) \cup raced \cup Committed

Single == \A i, j \in DOMAIN device : device[i].rid = device[j].rid => i = j \/ device[i].rid \in raced

LEMMA Least == ASSUME NEW T \in SUBSET Nat, T # {} PROVE \E m \in T : \A k \in T : m <= k
<1>1. PICK m \in T : \A k \in T : <<k, m>> \notin OpToRel(<, Nat)
  BY WFMin, NatLessThanWellFounded, Zenon
<1>2. \A k \in T : ~ (k < m)
  BY <1>1, Zenon DEF OpToRel
<1>3. \A k \in T : m <= k
  BY <1>2
<1>. QED BY <1>3

\* GetIndex finds a record if there is one.
LEMMA GetIndexFinds ==
  ASSUME Into(table, Slots, States), NEW rid
  PROVE  /\ GetIndex(rid) = {} <=> rid \notin RidsOf(table)
         /\ \A i \in GetIndex(rid) : i \in DOMAIN table /\ table[i].rid = rid
<1> DEFINE T == {i \in DOMAIN table : table[i].rid = rid}
<1>1. T \in SUBSET Nat
  BY SlotsAssumption DEF Into
<1>2. ASSUME T # {} PROVE GetIndex(rid) # {}
  <2>1. PICK m \in T : \A k \in T : m <= k
    BY <1>1, <1>2, Least
  <2>2. m \in GetIndex(rid)
    BY <2>1 DEF GetIndex
  <2>. QED BY <2>2
<1>3. \A i \in GetIndex(rid) : i \in T
  BY DEF GetIndex
<1>4. T = {} <=> rid \notin RidsOf(table)
  BY DEF RidsOf
<1>. QED BY <1>2, <1>3, <1>4

\* A mapped id is the id of one uid.
LEMMA GetsOwnId ==
  ASSUME OneToOne(idmap), NEW uid, NEW rid, GetMappedRecordId(uid, rid)
  PROVE  /\ \A p \in idmap : p[2] = rid => p[1] = uid /\ <<uid, rid>> \in idmap
         /\ \A p \in idmap : p[1] = uid => p[2] = rid /\ <<uid, rid>> \in idmap
<1>1. CASE <<uid, rid>> \in idmap
  BY <1>1 DEF OneToOne
<1>2. CASE <<uid, rid>> \notin idmap
  BY <1>2 DEF GetMappedRecordId, Mapped, CanMap, MakeNewRecordId, UidsIn, RidsIn
<1>. QED BY <1>1, <1>2

\* The device writes one record: With and what it means for the ids.
LEMMA WithRecord ==
  ASSUME NEW i, NEW rid, NEW v, NEW d, device' = With(device, i, [rid |-> rid, version |-> v, dirty |-> d])
  PROVE  /\ DOMAIN device' = DOMAIN device \cup {i} /\ device'[i].rid = rid
         /\ \A j \in DOMAIN device : j # i => device'[j] = device[j]
BY DEF With

\* The table is what the device has.
LEMMA CurrentIs ==
  /\ RidsOf(CurrentTable) = RidsOf(device)
  /\ DOMAIN CurrentTable = DOMAIN device
  /\ \A i \in DOMAIN device : CurrentTable[i].rid = device[i].rid
BY DEF CurrentTable, RidsOf

RecInv == SameIndexes /\ Known /\ Single

LEMMA RecordInit == Init => RecInv
BY DEF Init, RecInv, SameIndexes, Known, Single, Window

\* A step that keeps the table and the ids the device has, or fewer.
LEMMA RecordFewer ==
  ASSUME RecInv, DOMAIN device' \subseteq DOMAIN device,
         \A j \in DOMAIN device' : device'[j].rid = device[j].rid,
         raced \subseteq raced',
         \/ phase' \notin Window
         \/ /\ phase' = phase /\ DOMAIN table' = DOMAIN table
            /\ \A j \in DOMAIN table : table'[j].rid = table[j].rid
            /\ phase = "commit" => Committed \subseteq Committed'
         \/ phase = "fetched" /\ phase' = "commit" /\ table' = table
         \/ /\ phase \in Window /\ phase' \in Window \ {"fetched", "commit"}
            /\ table' = table \/ (table' = CurrentTable /\ device' = device)
  PROVE  RecInv'
<1>1. Single'
  BY DEF RecInv, Single
<1>2. RidsOf(device') \subseteq RidsOf(device)
  BY DEF RidsOf
<1>3. CASE phase' \notin Window
  BY <1>1, <1>3 DEF RecInv, SameIndexes, Known, Window
<1>4. CASE /\ phase' = phase /\ DOMAIN table' = DOMAIN table
           /\ \A j \in DOMAIN table : table'[j].rid = table[j].rid
           /\ phase = "commit" => Committed \subseteq Committed'
  <2>1. RidsOf(table') = RidsOf(table)
    BY <1>4 DEF RidsOf
  <2>2. SameIndexes'
    BY <1>4 DEF RecInv, SameIndexes
  <2>3. Known'
    BY <1>2, <1>4, <2>1 DEF RecInv, Known
  <2>. QED BY <1>1, <2>2, <2>3 DEF RecInv
<1>5. CASE phase = "fetched" /\ phase' = "commit" /\ table' = table
  <2>1. SameIndexes'
    BY <1>5 DEF RecInv, SameIndexes, Window
  <2>2. Known'
    BY <1>2, <1>5 DEF RecInv, Known
  <2>. QED BY <1>1, <2>1, <2>2 DEF RecInv
<1>6. CASE /\ phase \in Window /\ phase' \in Window \ {"fetched", "commit"}
           /\ table' = table \/ (table' = CurrentTable /\ device' = device)
  <2>1. SameIndexes'
    BY <1>6, CurrentIs DEF RecInv, SameIndexes
  <2>. QED BY <1>1, <1>6, <2>1 DEF RecInv, Known
<1>. QED BY <1>3, <1>4, <1>5, <1>6

LEMMA RecordUsers ==
  ASSUME RecInv,
         \/ \E i \in Slots : DeviceModify(i) \/ DeviceDelete(i)
         \/ \E i \in Slots, rid \in RecordIds : DeviceAdd(i, rid)
         \/ \E uid \in HostUids : HostAdd(uid)
         \/ \E uid \in Uids : HostModify(uid) \/ HostDelete(uid)
  PROVE  RecInv'
<1>1. ASSUME NEW i, DeviceModify(i) PROVE RecInv'
  <2>1. /\ i \in DOMAIN device /\ UNCHANGED <<phase, table, idmap, pending>> /\ raced \subseteq raced'
        /\ device' = With(device, i, [rid |-> device[i].rid, version |-> version', dirty |-> TRUE])
    BY <1>1 DEF DeviceModify, DeviceWrites, Race, plugin, engine
  <2>2. DOMAIN device' = DOMAIN device /\ \A j \in DOMAIN device : device'[j].rid = device[j].rid
    BY <2>1 DEF With
  <2>3. Committed' = Committed
    BY <2>1 DEF Committed
  <2>. QED BY <2>1, <2>2, <2>3, RecordFewer
<1>2. ASSUME NEW i, DeviceDelete(i) PROVE RecInv'
  <2>1. /\ UNCHANGED <<phase, table, idmap, pending>> /\ raced \subseteq raced'
        /\ DOMAIN device' \subseteq DOMAIN device /\ \A j \in DOMAIN device' : device'[j].rid = device[j].rid
    BY <1>2 DEF DeviceDelete, Race, plugin, engine, Without
  <2>2. Committed' = Committed
    BY <2>1 DEF Committed
  <2>. QED BY <2>1, <2>2, RecordFewer
<1>3. ASSUME NEW i, NEW rid, DeviceAdd(i, rid) PROVE RecInv'
  <2>1. /\ i \notin DOMAIN device \cup DOMAIN table /\ rid \notin RidsOf(device)
        /\ UNCHANGED <<phase, table, idmap, pending>>
        /\ raced \subseteq raced' /\ (phase \in Window => rid \in raced')
        /\ device' = With(device, i, [rid |-> rid, version |-> version', dirty |-> TRUE])
    BY <1>3 DEF DeviceAdd, DeviceWrites, FreeSlots, Race, plugin, engine
  <2>2. /\ DOMAIN device' = DOMAIN device \cup {i} /\ device'[i].rid = rid
        /\ \A j \in DOMAIN device : j # i => device'[j] = device[j]
    BY <2>1, WithRecord
  <2>3. Committed' = Committed
    BY <2>1 DEF Committed
  <2>4. SameIndexes'
    BY <2>1, <2>2 DEF RecInv, SameIndexes
  <2>5. RidsOf(device') \subseteq RidsOf(device) \cup {rid}
    BY <2>2 DEF RidsOf
  <2>6. Known'
    BY <2>1, <2>3, <2>5 DEF RecInv, Known, Window
  <2>7. \A j \in DOMAIN device : device[j].rid # rid
    BY <2>1 DEF RidsOf
  <2>8. Single'
    <3>1. SUFFICES ASSUME NEW j \in DOMAIN device', NEW k \in DOMAIN device', device'[j].rid = device'[k].rid
                   PROVE  j = k \/ device'[j].rid \in raced'
      BY DEF Single
    <3>2. CASE j = i \/ k = i
      BY <2>2, <2>7, <3>1, <3>2
    <3>3. CASE j # i /\ k # i
      BY <2>1, <2>2, <3>1, <3>3 DEF RecInv, Single
    <3>. QED BY <3>2, <3>3
  <2>. QED BY <2>4, <2>6, <2>8 DEF RecInv
<1>4. ASSUME NEW uid, HostAdd(uid) \/ HostModify(uid) \/ HostDelete(uid) PROVE RecInv'
  <2>1. UNCHANGED <<phase, device, table, raced>> /\ phase \notin Window
    BY <1>4 DEF HostAdd, HostModify, HostWrites, HostDelete, plugin, Window
  <2>. QED BY <2>1, RecordFewer
<1>. QED BY <1>1, <1>2, <1>3, <1>4

LEMMA RecordSession ==
  ASSUME RecInv,
         \/ initialize \/ (\E slow \in BOOLEAN : get_changeinfo(slow))
         \/ GetChanges \/ GetChangesFails \/ sync_done \/ SaveCache \/ SaveMap \/ SaveIsCut
         \/ (\E i \in Slots : ClearDirty(i)) \/ sync_ends \/ Fails \/ finalize \/ CommitHangs
  PROVE  RecInv'
<1>1. CASE initialize \/ GetChangesFails \/ SaveIsCut \/ sync_ends \/ Fails \/ finalize \/ CommitHangs
  <2>1. phase' \notin Window /\ UNCHANGED <<device, raced>>
    BY <1>1 DEF initialize, GetChangesFails, SaveIsCut, sync_ends, Fails, finalize, CommitHangs, EndsBadly,
                history, Window
  <2>. QED BY <2>1, RecordFewer
<1>2. ASSUME NEW slow, get_changeinfo(slow) PROVE RecInv'
  <2>1. phase' = "fetched" /\ table' = CurrentTable /\ UNCHANGED <<device, raced>>
    BY <1>2 DEF get_changeinfo, GetRecordStateTable, history
  <2>2. SameIndexes'
    BY <2>1, CurrentIs DEF SameIndexes
  <2>3. Known'
    BY <2>1, CurrentIs DEF Known
  <2>4. Single'
    BY <2>1 DEF RecInv, Single
  <2>. QED BY <2>2, <2>3, <2>4 DEF RecInv
<1>3. CASE GetChanges
  <2>1. phase = "fetched" /\ phase' = "commit" /\ UNCHANGED <<device, table, raced>>
    BY <1>3 DEF GetChanges
  <2>. QED BY <2>1, RecordFewer
<1>4. CASE sync_done \/ SaveCache \/ SaveMap
  <2>1. /\ phase \in Window /\ phase' \in Window \ {"fetched", "commit"} /\ UNCHANGED <<device, raced>>
        /\ table' = table \/ table' = CurrentTable
    BY <1>4 DEF sync_done, SaveCache, SaveMap, GetRecordStateTable, plugin, history, Window
  <2>. QED BY <2>1, RecordFewer
<1>5. ASSUME NEW i \in Slots, ClearDirty(i) PROVE RecInv'
  <2>1. phase' = phase /\ phase = "clearing" /\ raced' = raced
    BY <1>5 DEF ClearDirty, history
  <2>2. DOMAIN device' = DOMAIN device /\ \A j \in DOMAIN device : device'[j].rid = device[j].rid
    BY <1>5 DEF ClearDirty
  <2>3. DOMAIN table' = DOMAIN table /\ \A j \in DOMAIN table : table'[j].rid = table[j].rid
    BY <1>5 DEF ClearDirty
  <2>. QED BY <2>1, <2>2, <2>3, RecordFewer
<1>. QED BY <1>1, <1>2, <1>3, <1>4, <1>5

LEMMA RecordEngine ==
  ASSUME RecInv, NEW r \in reports, Apply(r) \/ HostWins(r)
  PROVE  RecInv'
<1>1. /\ UNCHANGED <<phase, device, table, idmap, raced>>
      /\ DOMAIN pending' \subseteq DOMAIN pending
  <2>1. CASE Apply(r)
    BY <2>1 DEF Apply, Without, plugin
  <2>2. CASE HostWins(r)
    BY <2>2 DEF HostWins, Without, With, plugin
  <2>. QED BY <2>1, <2>2
<1>2. Committed \subseteq Committed'
  BY <1>1 DEF Committed
<1>. QED BY <1>1, <1>2, RecordFewer

\* An item that is added is not on the device: nobody knows a record of its id.
LEMMA AddedIsNew ==
  ASSUME RecInv, OneToOne(idmap), phase = "commit", NEW uid \in DOMAIN pending, NEW rid,
         GetMappedRecordId(uid, rid), rid \notin RidsOf(table)
  PROVE  \A j \in DOMAIN device : device[j].rid = rid => rid \in raced
<1>1. SUFFICES ASSUME NEW j \in DOMAIN device, device[j].rid = rid, rid \notin raced PROVE FALSE
  OBVIOUS
<1>2. rid \in RidsOf(device)
  BY <1>1 DEF RidsOf
<1>3. PICK p \in idmap : p[1] \notin DOMAIN pending /\ p[2] = rid
  BY <1>1, <1>2 DEF RecInv, Known, Committed
<1>4. \A q \in idmap : q[2] = rid => q[1] = uid
  BY GetsOwnId
<1>. QED BY <1>3, <1>4

LEMMA RecordCommits ==
  ASSUME RecInv, TInv, IdMapOneToOne, FirstIds, NEW uid \in DOMAIN pending, NEW rid \in RecordIds,
         \/ CommitRefused(uid, rid) \/ CommitUnparsable(uid, rid) \/ CommitFails(uid, rid)
         \/ CommitDeleted(uid, rid) \/ CommitAdded(uid, rid) \/ CommitModified(uid, rid)
  PROVE  RecInv'
<1>0. Typed /\ OneToOne(idmap)
  BY TypedIs DEF TInv, IdMapOneToOne
<1>a. /\ GetIndex(rid) = {} <=> rid \notin RidsOf(table)
      /\ \A i \in GetIndex(rid) : i \in DOMAIN table /\ table[i].rid = rid
  BY <1>0, GetIndexFinds DEF Typed
<1>1. CASE CommitRefused(uid, rid) \/ CommitUnparsable(uid, rid) \/ CommitFails(uid, rid)
  <2>1. phase' \notin Window /\ UNCHANGED <<device, raced>>
    BY <1>1 DEF CommitRefused, CommitUnparsable, CommitFails, EndsBadly, history, Window
  <2>. QED BY <2>1, RecordFewer
<1>2. CASE CommitDeleted(uid, rid)
  <2>1. /\ UNCHANGED <<phase, table, raced>>
        /\ DOMAIN device' \subseteq DOMAIN device /\ \A j \in DOMAIN device' : device'[j].rid = device[j].rid
        /\ idmap' = UnmapUid(idmap, uid) /\ pending' = Without(pending, uid)
    BY <1>2 DEF CommitDeleted, Without, history
  <2>2. Committed \subseteq Committed'
    BY <2>1 DEF Committed, UnmapUid, Without
  <2>. QED BY <2>1, <2>2, RecordFewer
<1>3. CASE CommitModified(uid, rid)
  <2>1. /\ UNCHANGED <<phase, table, raced>>
        /\ idmap' = idmap \cup {<<uid, rid>>} /\ pending' = Without(pending, uid) /\ phase = "commit"
    BY <1>3 DEF CommitModified, Commit, history
  <2>2. PICK i \in GetIndex(rid) \cap DOMAIN device, d \in BOOLEAN :
          device' = With(device, i, [rid |-> rid, version |-> host[uid], dirty |-> d])
    BY <1>3 DEF CommitModified
  <2>3. device[i].rid = rid
    BY <1>a, <2>1, <2>2 DEF RecInv, SameIndexes, Window
  <2>4. DOMAIN device' = DOMAIN device /\ \A j \in DOMAIN device' : device'[j].rid = device[j].rid
    <3>1. /\ DOMAIN device' = DOMAIN device \cup {i} /\ device'[i].rid = rid
          /\ \A j \in DOMAIN device : j # i => device'[j] = device[j]
      BY <2>2, WithRecord, Zenon
    <3>. QED BY <2>2, <2>3, <3>1
  <2>5. Committed \subseteq Committed'
    BY <2>1 DEF Committed, Without
  <2>. QED BY <2>1, <2>4, <2>5, RecordFewer
<1>4. CASE CommitAdded(uid, rid)
  <2>1. /\ UNCHANGED <<phase, table, raced>> /\ phase = "commit" /\ GetMappedRecordId(uid, rid)
        /\ idmap' = idmap \cup {<<uid, rid>>} /\ pending' = Without(pending, uid)
    BY <1>4 DEF CommitAdded, Commit, history
  <2>2. GetIndex(rid) = {}
    BY <1>4 DEF FirstIds
  <2>3. PICK i \in FreeSlots :
          device' = With(device, i, [rid |-> rid, version |-> host[uid], dirty |-> TRUE])
    BY <1>4, <2>2 DEF CommitAdded
  <2>4. /\ DOMAIN device' = DOMAIN device \cup {i} /\ device'[i].rid = rid
        /\ \A j \in DOMAIN device : j # i => device'[j] = device[j]
    BY <2>3, WithRecord
  <2>5. i \notin DOMAIN device /\ i \notin DOMAIN table
    BY <2>3 DEF FreeSlots
  <2>6. \A j \in DOMAIN device : device[j].rid = rid => rid \in raced
    BY <1>0, <1>a, <2>1, <2>2, AddedIsNew
  <2>7. Single'
    BY <2>1, <2>4, <2>5, <2>6 DEF RecInv, Single
  <2>8. SameIndexes'
    BY <2>1, <2>4, <2>5 DEF RecInv, SameIndexes
  <2>9. Known'
    <3>1. RidsOf(device') \subseteq RidsOf(device) \cup {rid}
      BY <2>4 DEF RidsOf
    <3>2. Committed \subseteq Committed'
      BY <2>1 DEF Committed, Without
    <3>3. <<uid, rid>> \in idmap' /\ uid \notin DOMAIN pending'
      BY <2>1 DEF Without
    <3>4. rid \in Committed'
      <4>1. <<uid, rid>> \in {q \in idmap' : q[1] \notin DOMAIN pending'}
        BY <3>3
      <4>2. <<uid, rid>>[2] = rid
        OBVIOUS
      <4>. QED BY <4>1, <4>2 DEF Committed
    <3>. QED BY <2>1, <3>1, <3>2, <3>4 DEF RecInv, Known
  <2>. QED BY <2>7, <2>8, <2>9 DEF RecInv
<1>. QED BY <1>1, <1>2, <1>3, <1>4

LEMMA RecordStep ==
  ASSUME RecInv, TInv, IdMapOneToOne, [Next]_vars, "renumbered" \notin lapses'
  PROVE  RecInv'
<1>1. CASE UNCHANGED vars
  <2>1. UNCHANGED <<phase, device, table, idmap, pending, raced>>
    BY <1>1 DEF vars, plugin, engine, history
  <2>2. Committed' = Committed
    BY <2>1 DEF Committed
  <2>. QED BY <2>1, <2>2, RecordFewer
<1>2. CASE Next
  BY <1>2, NoLapse, RecordUsers, RecordSession, RecordEngine, RecordCommits DEF Next
<1>. QED BY <1>1, <1>2

\* The device never holds two records of one id, but for ids its user has
\* edited in a session: whatever fails, whichever ids the device and the
\* plugin make up, and whatever the files hold, until a file is cut short or a
\* commit makes a second id for an item because the table of the session has a
\* record of the first.
THEOREM OneRecordPerIdAlways == Spec => []OneRecordPerId
<1> DEFINE Rec == "renumbered" \in lapses \/ RecInv
<1>1. Init => Rec
  BY RecordInit
<1>2. Spec => []TInv
  BY TypeInit, TypeStep, PTL DEF Spec
<1>3. Spec => []IdMapOneToOne
  BY IdMapOneToOneAlways
<1>4. Rec /\ TInv /\ IdMapOneToOne /\ [Next]_vars => Rec'
  BY RecordStep, LapsesStay
<1>5. Rec => OneRecordPerId
  BY DEF RecInv, Single, OneRecordPerId
<1>. QED BY <1>1, <1>2, <1>3, <1>4, <1>5, PTL DEF Spec
-----------------------------------------------------------------------------
(* The uid of a record.                                                    *)

\* Records of which nothing is promised.
Excused(rid) == rid \in raced \/ torn

Doomed(u) == u \in DOMAIN pending /\ pending[u] = "deleted"

Working == {"commit", "saving", "cleaning"}

\* A record is known by one item and an item by one record; an item that is to
\* be deleted is no longer there.
LinkOne == \A p, q \in link : p[1] = q[1] \/ p[2] = q[2] => p = q

DoomedGone == \A u \in Uids : Doomed(u) => u \notin DOMAIN host /\ \A p \in link : p[1] # u

\* What the files know: a uid for every record of the cache, and for a record
\* the other side knows the uid of its item.
FileMapped == phase # "cleaning" => \A rid \in cacheFile : rid \in RidsIn(mapFile) \/ Excused(rid)

KeptIn(p) == (p[1] \in settled => p[2] \in cacheFile) /\ (p[2] \in cacheFile => p \in mapFile)

FileKept == phase # "cleaning" /\ ~needSlow => \A p \in link : Excused(p[2]) \/ KeptIn(p)

\* When the memory holds what the files do.
Loaded ==
  /\ phase = "ready" => cache = cacheFile /\ idmap = mapFile
  /\ phase = "fetched" /\ needSlow => cache = {} /\ idmap = {}
  /\ phase = "fetched" /\ ~needSlow => cache = cacheFile /\ idmap = mapFile
  /\ phase = "cleaning" => cache = cacheFile
  /\ phase = "clearing" => cache = cacheFile /\ idmap = mapFile

\* A report is under the uid its record is mapped to; a deleted record is not
\* in the cache, and its uid is not taken by another one.
ReportMapped(r) ==
  /\ r.kind # "deleted" => <<r.uid, r.rid>> \in idmap /\ r.rid \in cache
  /\ r.kind = "deleted" => <<r.uid, r.rid>> \in idmap \/ r.uid \notin UidsIn(idmap)
  /\ r.kind = "deleted" /\ <<r.uid, r.rid>> \in idmap => r.rid \notin cache

ReportFiled(r) == ~needSlow /\ r.rid \in RidsIn(mapFile) => <<r.uid, r.rid>> \in mapFile

ReportsMapped == \A r \in reports : ReportMapped(r) /\ ReportFiled(r)

Idle ==
  /\ phase \in {"off", "ready", "failed", "fetched"} => reports = {}
  /\ phase \in {"saving", "cleaning", "clearing"} => reports = {} /\ DOMAIN pending = {}

\* The same of the memory while the changes are handled: what the files will
\* know is known already, or a report or a commit is still to come.
CacheMapped == phase \in Working => \A rid \in cache : rid \in RidsIn(idmap) \/ Excused(rid)

SettledIn(p) ==
  \/ Excused(p[2]) \/ p[1] \notin settled
  \/ p[2] \in cache /\ p \in idmap
  \/ \E r \in reports : r.kind = "deleted" /\ r.uid = p[1]

MappedIn(p) ==
  \/ Excused(p[2]) \/ p[2] \notin cache \/ p \in idmap
  \/ \E r \in reports : r.kind # "deleted" /\ r.rid = p[2]
  \/ \E q \in idmap : q[2] = p[2] /\ Doomed(q[1])

MemoryKept == phase \in Working => \A p \in link : SettledIn(p) /\ MappedIn(p)

\* Of the records that are not on the device the map in memory knows what the
\* one in the file does.
Unlisted ==
  phase = "commit" /\ ~needSlow =>
    /\ \A p \in idmap : p[2] \in RidsIn(mapFile) => p[2] \in RidsOf(table) \/ p \in mapFile
    /\ \A p \in mapFile : p[2] \in RidsOf(table) \/ p \in idmap

\* Records that are not on the device any more have been deleted there.
Present ==
  /\ phase = "fetched" => RidsOf(table) \subseteq RidsOf(device) \cup raced
  /\ phase = "commit" => cache \subseteq RidsOf(device) \cup raced
  /\ phase \in {"saving", "cleaning"} => cache \subseteq RidsOf(table) \cup raced

\* Both files have been written.
Written ==
  phase = "clearing" =>
    \A p \in link : \/ Excused(p[2]) \/ (p[2] \in cacheFile /\ p \in mapFile)
                    \/ (p[2] \notin cacheFile /\ p[1] \notin settled)

UInv ==
  /\ LinkOne /\ DoomedGone /\ FileMapped /\ FileKept /\ Loaded /\ ReportsMapped /\ Idle
  /\ CacheMapped /\ MemoryKept /\ Unlisted /\ Present /\ Written

LEMMA UidInit == Init => UInv
<1> SUFFICES ASSUME Init PROVE UInv
  OBVIOUS
<1>1. LinkOne /\ DoomedGone /\ FileMapped /\ FileKept
  BY DEF Init, LinkOne, DoomedGone, Doomed, FileMapped, FileKept
<1>2. Loaded /\ ReportsMapped /\ Idle
  BY DEF Init, Loaded, ReportsMapped, Idle
<1>3. CacheMapped /\ MemoryKept /\ Unlisted /\ Present /\ Written
  BY DEF Init, CacheMapped, MemoryKept, Unlisted, Present, Written, Working
<1>. QED BY <1>1, <1>2, <1>3 DEF UInv

-----------------------------------------------------------------------------
(* Steps that leave the maps and the links as they are.                    *)

\* A user of the device, a step that clears a dirty flag, or no step.
LEMMA UidDevice ==
  ASSUME UInv, raced \subseteq raced',
         UNCHANGED <<phase, cache, idmap, cacheFile, mapFile, host, pending, reports,
                     needSlow, link, settled, torn>>,
         RidsOf(table') = RidsOf(table),
         phase \in Window => RidsOf(device) \subseteq RidsOf(device') \cup raced'
  PROVE  UInv'
<1>1. \A rid : Excused(rid) => Excused(rid)'
  BY DEF Excused
<1>2. \A u : Doomed(u)' <=> Doomed(u)
  BY DEF Doomed
<1>3. LinkOne' /\ DoomedGone'
  BY <1>2 DEF UInv, LinkOne, DoomedGone
<1>4. FileMapped'
  BY <1>1 DEF UInv, FileMapped
<1>5. FileKept'
  <2>1. \A p : KeptIn(p) => KeptIn(p)'
    BY DEF KeptIn
  <2>. QED BY <1>1, <2>1 DEF UInv, FileKept
<1>6. Loaded'
  BY DEF UInv, Loaded
<1>7. ReportsMapped'
  <2>1. \A r : (ReportMapped(r) => ReportMapped(r)') /\ (ReportFiled(r) => ReportFiled(r)')
    BY DEF ReportMapped, ReportFiled
  <2>. QED BY <2>1 DEF UInv, ReportsMapped
<1>8. Idle'
  BY DEF UInv, Idle
<1>9. CacheMapped'
  BY <1>1 DEF UInv, CacheMapped
<1>10. MemoryKept'
  <2>1. \A p : SettledIn(p) => SettledIn(p)'
    BY <1>1 DEF SettledIn
  <2>2. \A p : MappedIn(p) => MappedIn(p)'
    BY <1>1, <1>2 DEF MappedIn
  <2>. QED BY <2>1, <2>2 DEF UInv, MemoryKept
<1>11. Unlisted'
  BY DEF UInv, Unlisted
<1>12. Present'
  BY DEF UInv, Present, Window
<1>13. Written'
  BY <1>1 DEF UInv, Written
<1>. QED BY <1>3, <1>4, <1>5, <1>6, <1>7, <1>8, <1>9, <1>10, <1>11, <1>12, <1>13 DEF UInv

\* A session that ends badly, and the end of the plugin.
LEMMA UidEnds ==
  ASSUME UInv, phase' \in {"off", "failed", "hung"},
         UNCHANGED <<host, pending, link, settled, raced, needSlow>>, torn => torn',
         reports' = {} \/ (phase' = "hung" /\ UNCHANGED <<reports, idmap, cache, mapFile>>),
         torn' \/ (phase # "cleaning" /\ UNCHANGED <<cacheFile, mapFile>>)
  PROVE  UInv'
<1>1. \A rid : Excused(rid) => Excused(rid)'
  BY DEF Excused
<1>2. \A u : Doomed(u)' <=> Doomed(u)
  BY DEF Doomed
<1>3. LinkOne' /\ DoomedGone'
  BY <1>2 DEF UInv, LinkOne, DoomedGone
<1>4. FileMapped'
  BY <1>1 DEF UInv, FileMapped, Excused
<1>5. FileKept'
  <2>1. CASE torn'
    BY <2>1 DEF FileKept, Excused
  <2>2. CASE phase # "cleaning" /\ UNCHANGED <<cacheFile, mapFile>>
    <3>1. \A p : KeptIn(p) => KeptIn(p)'
      BY <2>2 DEF KeptIn
    <3>. QED BY <1>1, <2>2, <3>1 DEF UInv, FileKept
  <2>. QED BY <2>1, <2>2
<1>6. ReportsMapped'
  <2>1. CASE reports' = {}
    BY <2>1 DEF ReportsMapped
  <2>2. CASE UNCHANGED <<reports, idmap, cache, mapFile>>
    <3>1. \A r : (ReportMapped(r) => ReportMapped(r)') /\ (ReportFiled(r) => ReportFiled(r)')
      BY <2>2 DEF ReportMapped, ReportFiled
    <3>. QED BY <2>2, <3>1 DEF UInv, ReportsMapped
  <2>. QED BY <2>1, <2>2
<1>7. Idle' /\ Loaded'
  BY DEF Idle, Loaded
<1>8. CacheMapped' /\ MemoryKept' /\ Unlisted' /\ Present' /\ Written'
  BY DEF CacheMapped, MemoryKept, Unlisted, Present, Written, Working
<1>. QED BY <1>3, <1>4, <1>5, <1>6, <1>7, <1>8 DEF UInv

\* The users of the two sides.
LEMMA UidUsers ==
  ASSUME UInv, TInv,
         \/ \E i \in Slots : DeviceModify(i) \/ DeviceDelete(i)
         \/ \E i \in Slots, rid \in RecordIds : DeviceAdd(i, rid)
         \/ \E uid \in HostUids : HostAdd(uid)
         \/ \E uid \in Uids : HostModify(uid) \/ HostDelete(uid)
  PROVE  UInv'
<1>1. ASSUME NEW i, NEW rid, DeviceWrites(i, rid), i \in DOMAIN device => device[i].rid = rid PROVE UInv'
  <2>1. /\ UNCHANGED <<phase, table, cache, idmap, cacheFile, mapFile, host, pending, reports,
                       needSlow, link, settled, torn>>
        /\ raced \subseteq raced'
        /\ device' = With(device, i, [rid |-> rid, version |-> version', dirty |-> TRUE])
    BY <1>1 DEF DeviceWrites, Race, plugin, files, engine
  <2>2. /\ DOMAIN device' = DOMAIN device \cup {i} /\ device'[i].rid = rid
        /\ \A j \in DOMAIN device : j # i => device'[j] = device[j]
    BY <2>1, WithRecord
  <2>3. RidsOf(device) \subseteq RidsOf(device')
    BY <1>1, <2>2 DEF RidsOf
  <2>. QED BY <2>1, <2>3, UidDevice
<1>2. ASSUME NEW i, DeviceDelete(i) PROVE UInv'
  <2>1. /\ UNCHANGED <<phase, table, cache, idmap, cacheFile, mapFile, host, pending, reports,
                       needSlow, link, settled, torn>>
        /\ raced \subseteq raced' /\ (phase \in Window => device[i].rid \in raced')
        /\ DOMAIN device' = DOMAIN device \ {i} /\ \A j \in DOMAIN device' : device'[j] = device[j]
    BY <1>2 DEF DeviceDelete, Race, plugin, files, engine, Without
  <2>2. RidsOf(device) \subseteq RidsOf(device') \cup {device[i].rid}
    BY <2>1 DEF RidsOf
  <2>. QED BY <2>1, <2>2, UidDevice
<1>3. ASSUME NEW i, DeviceModify(i) PROVE UInv'
  BY <1>1, <1>3 DEF DeviceModify
<1>4. ASSUME NEW i, NEW rid, DeviceAdd(i, rid) PROVE UInv'
  BY <1>1, <1>4 DEF DeviceAdd, FreeSlots
<1>5. ASSUME NEW uid, HostAdd(uid) \/ HostModify(uid) \/ HostDelete(uid) PROVE UInv'
  <2>1. /\ phase \in {"off", "ready", "failed"}
        /\ UNCHANGED <<phase, device, table, cache, idmap, cacheFile, mapFile, reports, needSlow, raced, torn>>
        /\ link' \subseteq link /\ settled' \subseteq settled
        /\ \A p \in link' : p[1] \in settled' => p[1] \in settled
    BY <1>5, KeepsSettled DEF HostAdd, HostModify, HostWrites, HostDelete, ClearedLinks, plugin, files
  <2>2. LinkOne'
    BY <2>1 DEF UInv, LinkOne
  <2>3. DoomedGone'
    <3>1. CASE HostDelete(uid)
      <4>1. /\ DOMAIN host' = DOMAIN host \ {uid} /\ \A p \in link' : p \in link /\ p[1] # uid
            /\ \A u \in Uids : u # uid /\ Doomed(u)' => Doomed(u)
        BY <3>1 DEF HostDelete, Without, With, ClearedLinks, Doomed
      <4>. QED BY <4>1 DEF UInv, DoomedGone
    <3>2. ASSUME NEW kind, HostWrites(uid, kind), kind # "deleted" PROVE DoomedGone'
      <4>1. /\ DOMAIN host' = DOMAIN host \cup {uid} /\ link' = link /\ ~Doomed(uid)'
            /\ \A u \in Uids : u # uid /\ Doomed(u)' => Doomed(u)
        BY <3>2 DEF HostWrites, With, Doomed
      <4>. QED BY <4>1 DEF UInv, DoomedGone
    <3>3. CASE HostAdd(uid)
      BY <3>2, <3>3 DEF HostAdd
    <3>4. CASE HostModify(uid)
      <4>1. uid \in DOMAIN host /\ uid \in Uids
        BY <3>4, TypedIs DEF HostModify, TInv, Typed, Into
      <4>2. ~Doomed(uid)
        BY <4>1 DEF UInv, DoomedGone
      <4>. QED BY <3>2, <3>4, <4>2 DEF HostModify, Doomed
    <3>. QED BY <1>5, <3>1, <3>3, <3>4
  <2>4. FileMapped' /\ Loaded' /\ Idle'
    BY <2>1 DEF UInv, FileMapped, Excused, Loaded, Idle
  <2>5. FileKept'
    <3>1. \A p \in link' : p \in link /\ (KeptIn(p) => KeptIn(p)')
      BY <2>1 DEF KeptIn
    <3>. QED BY <2>1, <3>1 DEF UInv, FileKept, Excused
  <2>6. ReportsMapped'
    BY <2>1 DEF UInv, ReportsMapped, Idle
  <2>7. CacheMapped' /\ MemoryKept' /\ Unlisted' /\ Present' /\ Written'
    BY <2>1 DEF CacheMapped, MemoryKept, Unlisted, Present, Written, Working
  <2>. QED BY <2>2, <2>3, <2>4, <2>5, <2>6, <2>7 DEF UInv
<1>. QED BY <1>2, <1>3, <1>4, <1>5
-----------------------------------------------------------------------------
(* GetChanges.                                                             *)

LEMMA MapsTo ==
  ASSUME NEW m \in SUBSET (Uids \X RecordIds), OneToOne(m), NEW rid
  PROVE  /\ rid \in RidsIn(m) => <<Map2Uid(m, rid), rid>> \in m
         /\ rid \notin RidsIn(m) => Map2Uid(m, rid) = Own(rid)
         /\ \A p \in m : p[2] = rid => Map2Uid(m, rid) = p[1]
<1>1. CASE rid \in RidsIn(m)
  <2>1. \E p \in m : p[2] = rid
    BY <1>1 DEF RidsIn
  <2>2. PICK p \in m : p[2] = rid /\ Map2Uid(m, rid) = p[1]
    BY <1>1, <2>1 DEF Map2Uid
  <2>3. p = <<p[1], p[2]>>
    BY <2>2
  <2>4. <<Map2Uid(m, rid), rid>> \in m
    BY <2>2, <2>3
  <2>5. \A q \in m : q[2] = rid => q[1] = p[1]
    BY <2>2 DEF OneToOne
  <2>. QED BY <1>1, <2>2, <2>4, <2>5
<1>2. CASE rid \notin RidsIn(m)
  BY <1>2 DEF Map2Uid, RidsIn
<1>. QED BY <1>1, <1>2

\* What is reported, and under which uid.
LEMMA ReportsAre ==
  ASSUME NEW r \in ReportsOf(Changed)
  PROVE  /\ r.uid = Map2Uid(idmap, r.rid)
         /\ r.kind = "deleted" => r.rid \in Deleted
         /\ r.kind # "deleted" => \E i \in Changed : table[i].rid = r.rid
<1>1. CASE \E i \in Changed :
             r = [kind |-> IF table[i].rid \in cache THEN "modified" ELSE "added",
                  uid |-> Map2Uid(idmap, table[i].rid), rid |-> table[i].rid,
                  version |-> device[i].version]
  <2>1. PICK i \in Changed :
             r = [kind |-> IF table[i].rid \in cache THEN "modified" ELSE "added",
                  uid |-> Map2Uid(idmap, table[i].rid), rid |-> table[i].rid,
                  version |-> device[i].version]
    BY <1>1
  <2>2. r.kind \in {"modified", "added"} /\ r.uid = Map2Uid(idmap, table[i].rid) /\ r.rid = table[i].rid
    BY <2>1
  <2>. QED BY <2>2
<1>2. CASE \E rid \in Deleted :
             r = [kind |-> "deleted", uid |-> Map2Uid(idmap, rid), rid |-> rid, version |-> 0]
  BY <1>2
<1>. QED BY <1>1, <1>2 DEF ReportsOf

\* Every record of the table that is not in the cache, or has changed, and
\* every one that was in the cache and is gone, is reported.
LEMMA AreReported ==
  /\ \A rid \in RidsOf(table) \ cache : \E r \in ReportsOf(Changed) : r.kind # "deleted" /\ r.rid = rid
  /\ \A rid \in cache \ RidsOf(table) : \E r \in ReportsOf(Changed) :
       r.kind = "deleted" /\ r.rid = rid /\ r.uid = Map2Uid(idmap, rid)
<1>1. ASSUME NEW rid \in RidsOf(table) \ cache
      PROVE  \E r \in ReportsOf(Changed) : r.kind # "deleted" /\ r.rid = rid
  <2>1. PICK i \in DOMAIN table : table[i].rid = rid
    BY DEF RidsOf
  <2>2. i \in Changed
    BY <2>1 DEF Changed
  <2> DEFINE q == [kind |-> IF table[i].rid \in cache THEN "modified" ELSE "added",
                   uid |-> Map2Uid(idmap, table[i].rid), rid |-> table[i].rid,
                   version |-> device[i].version]
  <2>3. q \in ReportsOf(Changed)
    BY <2>2 DEF ReportsOf
  <2>4. q.kind # "deleted" /\ q.rid = rid
    BY <2>1
  <2>. QED BY <2>3, <2>4
<1>2. ASSUME NEW rid \in cache \ RidsOf(table)
      PROVE  \E r \in ReportsOf(Changed) :
               r.kind = "deleted" /\ r.rid = rid /\ r.uid = Map2Uid(idmap, rid)
  <2> DEFINE q == [kind |-> "deleted", uid |-> Map2Uid(idmap, rid), rid |-> rid, version |-> 0]
  <2>1. q \in ReportsOf(Changed)
    BY <1>2 DEF ReportsOf, Deleted
  <2>. QED BY <2>1
<1>. QED BY <1>1, <1>2

\* The pairs Map adds.
LEMMA NewPairsAre ==
  ASSUME NEW p \in NewPairs
  PROVE  /\ p = <<Own(p[2]), p[2]>> /\ p[2] \in RidsOf(table)
         /\ p[1] \notin UidsIn(idmap) /\ p[2] \notin RidsIn(idmap)
<1>1. PICK i \in Changed : p = <<Map2Uid(idmap, table[i].rid), table[i].rid>>
  BY DEF NewPairs
<1>2. p[1] \notin UidsIn(idmap) /\ p[2] \notin RidsIn(idmap)
  BY DEF NewPairs, CanMap
<1>3. p[2] \in RidsOf(table)
  BY <1>1 DEF Changed, RidsOf
<1>. QED BY <1>1, <1>2, <1>3 DEF Map2Uid

\* When no uid clashes every record that is reported gets one.
LEMMA AreMapped ==
  ASSUME TInv, IdMapOneToOne, Unclashed, phase = "fetched", NEW i \in Changed
  PROVE  <<Map2Uid(idmap, table[i].rid), table[i].rid>> \in idmap \cup NewPairs
<1>0. idmap \in SUBSET (Uids \X RecordIds) /\ OneToOne(idmap)
  BY TypedIs DEF TInv, Typed, IdMapOneToOne
<1>1. table[i].rid \in RidsOf(table)
  BY DEF Changed, RidsOf
<1>2. CASE table[i].rid \in RidsIn(idmap)
  BY <1>0, <1>2, MapsTo
<1>3. CASE table[i].rid \notin RidsIn(idmap)
  <2>1. CanMap(idmap, Own(table[i].rid), table[i].rid)
    BY <1>1, <1>3 DEF Unclashed
  <2>2. Map2Uid(idmap, table[i].rid) = Own(table[i].rid)
    BY <1>3 DEF Map2Uid
  <2>3. <<Map2Uid(idmap, table[i].rid), table[i].rid>> \in NewPairs
    BY <2>1, <2>2 DEF NewPairs
  <2>. QED BY <2>3
<1>. QED BY <1>2, <1>3

LEMMA UidGetChanges ==
  ASSUME UInv, TInv, IdMapOneToOne, Unclashed, GetChanges
  PROVE  UInv'
<1>0. /\ idmap \in SUBSET (Uids \X RecordIds) /\ OneToOne(idmap)
      /\ link \subseteq Uids \X RecordIds /\ Into(table, Slots, States)
  BY TypedIs DEF TInv, Typed, IdMapOneToOne
<1>m. \A rid : /\ rid \notin RidsIn(idmap) => Map2Uid(idmap, rid) = Own(rid)
               /\ \A p \in idmap : p[2] = rid => Map2Uid(idmap, rid) = p[1]
  BY <1>0, MapsTo
<1>1. /\ phase = "fetched" /\ phase' = "commit" /\ Changed \subseteq DOMAIN device
      /\ idmap' = idmap \cup NewPairs /\ cache' = RidsOf(table)
      /\ UNCHANGED <<device, table, cacheFile, mapFile, needSlow, raced, torn>>
  BY DEF GetChanges, files
<1>2. PICK S \in SUBSET Reports : S = ReportsOf(Changed)
  BY <1>1, ReportsType
<1>3. /\ \A r \in S : r.uid = Map2Uid(idmap, r.rid)
      /\ \A r \in S : r.kind = "deleted" => r.rid \in Deleted
      /\ \A r \in S : r.kind # "deleted" => \E i \in Changed : table[i].rid = r.rid
  BY <1>2, ReportsAre
<1>4. ASSUME NEW r \in S PROVE ReportMapped(r)'
  <2>1. ASSUME r.kind # "deleted" PROVE <<r.uid, r.rid>> \in idmap' /\ r.rid \in cache'
    <3>1. PICK i \in Changed : table[i].rid = r.rid
      BY <1>3, <2>1
    <3>2. <<r.uid, r.rid>> \in idmap \cup NewPairs
      BY <1>1, <1>3, <3>1, AreMapped
    <3>3. r.rid \in RidsOf(table)
      BY <3>1 DEF Changed, RidsOf
    <3>. QED BY <1>1, <3>2, <3>3
  <2>2. ASSUME r.kind = "deleted"
        PROVE  r.rid \notin cache' /\ (<<r.uid, r.rid>> \in idmap' \/ r.uid \notin UidsIn(idmap'))
    <3>1. r.rid \in cache /\ r.rid \notin RidsOf(table)
      BY <1>3, <2>2 DEF Deleted
    <3>2. CASE r.rid \in RidsIn(idmap)
      BY <1>0, <1>1, <1>3, <3>1, <3>2, MapsTo
    <3>3. CASE r.rid \notin RidsIn(idmap)
      <4>1. r.uid = Own(r.rid)
        BY <1>3, <1>m, <3>3
      <4>2. r.uid \notin UidsIn(idmap)
        BY <1>1, <3>1, <3>3, <4>1 DEF Unclashed, CanMap
      <4>3. \A p \in NewPairs : p[1] = Own(p[2]) /\ p[2] \in RidsOf(table)
        BY NewPairsAre
      <4>4. \A p \in NewPairs : p[1] # r.uid
        BY <3>1, <4>1, <4>3 DEF Own
      <4>5. r.uid \notin UidsIn(idmap \cup NewPairs)
        BY <4>2, <4>4 DEF UidsIn
      <4>. QED BY <1>1, <3>1, <4>5
    <3>. QED BY <3>2, <3>3
  <2>. QED BY <2>1, <2>2 DEF ReportMapped
<1>5. \A rid : Excused(rid)' = Excused(rid)
  BY <1>1 DEF Excused
<1>6. ASSUME NEW rid \in cache PROVE rid \in RidsIn(idmap) \/ Excused(rid)
  BY <1>1, <1>6 DEF UInv, FileMapped, Loaded
<1>7. CacheMapped'
  <2>1. SUFFICES ASSUME NEW rid \in RidsOf(table) PROVE rid \in RidsIn(idmap \cup NewPairs) \/ Excused(rid)
    BY <1>1, <1>5 DEF CacheMapped
  <2>2. CASE rid \in cache
    BY <1>6, <2>2 DEF RidsIn
  <2>3. CASE rid \notin cache
    <3>1. PICK i \in Changed : table[i].rid = rid
      BY <2>3 DEF RidsOf, Changed
    <3>2. <<Map2Uid(idmap, rid), rid>> \in idmap \cup NewPairs
      BY <1>1, <3>1, AreMapped
    <3>. QED BY <3>2 DEF RidsIn
  <2>. QED BY <2>2, <2>3
<1>8. FileMapped'
  BY <1>1, <1>5 DEF UInv, FileMapped
<1>9. Loaded' /\ Idle' /\ Written' /\ Present'
  BY <1>1 DEF UInv, Loaded, Idle, Written, Present
<1>10. CASE ~needSlow
  <2>1. UNCHANGED <<host, pending, link, settled>> /\ reports' = S
    BY <1>2, <1>10 DEF GetChanges
  <2>2. cache = cacheFile /\ idmap = mapFile
    BY <1>1, <1>10 DEF UInv, Loaded
  <2>3. \A p \in link : Excused(p[2]) \/ KeptIn(p)
    BY <1>1, <1>10 DEF UInv, FileKept
  <2>4. LinkOne' /\ DoomedGone'
    BY <2>1 DEF UInv, LinkOne, DoomedGone, Doomed
  <2>5. FileKept'
    BY <1>1, <1>5, <2>1, <2>3 DEF FileKept, KeptIn
  <2>6. ReportsMapped'
    <3>1. \A r \in S : ReportFiled(r)'
      BY <1>0, <1>1, <1>3, <2>2, MapsTo DEF ReportFiled
    <3>. QED BY <1>4, <2>1, <3>1 DEF ReportsMapped
  <2>7. MemoryKept'
    <3>1. SUFFICES ASSUME NEW p \in link, ~Excused(p[2]) PROVE SettledIn(p)' /\ MappedIn(p)'
      BY <1>5, <2>1 DEF MemoryKept, SettledIn, MappedIn
    <3>2. KeptIn(p)
      BY <2>3, <3>1
    <3>3. ASSUME p[1] \in settled
          PROVE  (p[2] \in cache' /\ p \in idmap') \/ \E r \in S : r.kind = "deleted" /\ r.uid = p[1]
      <4>1. p[2] \in cache /\ p \in idmap
        BY <2>2, <3>2, <3>3 DEF KeptIn
      <4>2. CASE p[2] \in RidsOf(table)
        BY <1>1, <4>1, <4>2
      <4>3. CASE p[2] \notin RidsOf(table)
        <5>1. PICK r \in S : r.kind = "deleted" /\ r.uid = Map2Uid(idmap, p[2])
          BY <1>2, <4>1, <4>3, AreReported
        <5>2. Map2Uid(idmap, p[2]) = p[1]
          BY <1>m, <4>1
        <5>. QED BY <5>1, <5>2
      <4>. QED BY <4>2, <4>3
    <3>4. p[2] \notin cache' \/ p \in idmap' \/ \E r \in S : r.kind # "deleted" /\ r.rid = p[2]
      <4>1. CASE p[2] \in cache
        BY <1>1, <2>2, <3>2, <4>1 DEF KeptIn
      <4>2. CASE p[2] \in RidsOf(table) \ cache
        BY <1>2, <4>2, AreReported
      <4>. QED BY <1>1, <4>1, <4>2
    <3>5. SettledIn(p)'
      BY <2>1, <3>3 DEF SettledIn
    <3>6. MappedIn(p)'
      BY <2>1, <3>4 DEF MappedIn
    <3>. QED BY <3>5, <3>6
  <2>8. Unlisted'
    <3>1. \A p \in NewPairs : p[2] \in RidsOf(table)
      BY NewPairsAre
    <3>. QED BY <1>1, <2>2, <3>1 DEF Unlisted
  <2>. QED BY <1>7, <1>8, <1>9, <2>4, <2>5, <2>6, <2>7, <2>8 DEF UInv
<1>11. CASE needSlow
  <2>1. SlowMatch(S)
    BY <1>2, <1>11 DEF GetChanges
  <2>2. /\ \A u \in DOMAIN pending' : pending'[u] = "added"
        /\ reports' \subseteq S
        /\ link' \subseteq {<<r.uid, r.rid>> : r \in S}
        /\ settled' = {}
    BY <2>1, SlowMatchHost
  <2>3. cache = {} /\ idmap = {}
    BY <1>1, <1>11 DEF UInv, Loaded
  <2>4. \A r \in S : r.kind # "deleted" /\ r.uid = Own(r.rid)
    BY <1>3, <2>3 DEF Deleted, Map2Uid, RidsIn
  <2>5. \A p \in link' : p \in idmap' /\ p[1] = Own(p[2])
    BY <1>4, <2>2, <2>4 DEF ReportMapped
  <2>6. LinkOne'
    <3>1. SUFFICES ASSUME NEW p \in link', NEW q \in link', p[1] = q[1] \/ p[2] = q[2] PROVE p = q
      BY DEF LinkOne
    <3>2. PICK r \in S, t \in S : p = <<r.uid, r.rid>> /\ q = <<t.uid, t.rid>>
      BY <2>2
    <3>. QED BY <2>4, <3>1, <3>2 DEF Own
  <2>7. DoomedGone'
    BY <2>2 DEF DoomedGone, Doomed
  <2>8. FileKept' /\ Unlisted'
    BY <1>1, <1>11 DEF FileKept, Unlisted
  <2>9. ReportsMapped'
    <3>1. \A r \in S : ReportFiled(r)'
      BY <1>1, <1>11 DEF ReportFiled
    <3>. QED BY <1>4, <2>2, <3>1 DEF ReportsMapped
  <2>10. MemoryKept'
    BY <2>2, <2>5 DEF MemoryKept, SettledIn, MappedIn
  <2>. QED BY <1>7, <1>8, <1>9, <2>6, <2>7, <2>8, <2>9, <2>10 DEF UInv
<1>. QED BY <1>10, <1>11
-----------------------------------------------------------------------------
(* The rest of a session.                                                  *)

\* What most steps of a session leave alone.
LEMMA UidSame ==
  ASSUME UInv, UNCHANGED <<host, pending, link, settled, raced, torn, needSlow, mapFile, cacheFile>>
  PROVE  /\ LinkOne' /\ DoomedGone'
         /\ phase # "cleaning" => FileMapped' /\ FileKept'
         /\ \A rid : Excused(rid)' = Excused(rid)
         /\ \A u : Doomed(u)' = Doomed(u)
<1>1. (\A rid : Excused(rid)' = Excused(rid)) /\ (\A u : Doomed(u)' = Doomed(u))
  BY DEF Excused, Doomed
<1>2. LinkOne' /\ DoomedGone'
  BY <1>1 DEF UInv, LinkOne, DoomedGone
<1>3. ASSUME phase # "cleaning" PROVE FileMapped' /\ FileKept'
  BY <1>1, <1>3 DEF UInv, FileMapped, FileKept, KeptIn
<1>. QED BY <1>1, <1>2, <1>3

LEMMA UidInitialize ==
  ASSUME UInv, initialize
  PROVE  UInv'
<1>1. /\ phase = "off" /\ phase' = "ready" /\ cache' = cacheFile /\ idmap' = mapFile
      /\ UNCHANGED <<host, pending, link, settled, raced, torn, needSlow, mapFile, cacheFile, reports>>
  BY DEF initialize, files, engine, history
<1>2. LinkOne' /\ DoomedGone' /\ FileMapped' /\ FileKept'
  BY <1>1, UidSame
<1>3. Loaded' /\ Idle' /\ ReportsMapped'
  BY <1>1 DEF UInv, Loaded, Idle, ReportsMapped
<1>4. CacheMapped' /\ MemoryKept' /\ Unlisted' /\ Present' /\ Written'
  BY <1>1 DEF CacheMapped, MemoryKept, Unlisted, Present, Written, Working
<1>. QED BY <1>2, <1>3, <1>4 DEF UInv

LEMMA UidStarts ==
  ASSUME UInv, FromFiles, NEW slow \in BOOLEAN, get_changeinfo(slow)
  PROVE  UInv'
<1>1. /\ phase = "ready" /\ phase' = "fetched" /\ needSlow' = slow /\ (needSlow => slow)
      /\ cache' = IF slow THEN {} ELSE cache
      /\ idmap' = IF slow THEN {} ELSE idmap
      /\ table' = CurrentTable
      /\ UNCHANGED <<device, host, pending, link, settled, raced, torn, mapFile, cacheFile, reports>>
  BY DEF FromFiles, get_changeinfo, GetRecordStateTable, files
<1>2. \A rid : Excused(rid)' = Excused(rid)
  BY <1>1 DEF Excused
<1>3. LinkOne' /\ DoomedGone'
  BY <1>1 DEF UInv, LinkOne, DoomedGone, Doomed
<1>4. FileMapped' /\ FileKept'
  BY <1>1, <1>2 DEF UInv, FileMapped, FileKept, KeptIn
<1>5. Loaded' /\ Idle' /\ ReportsMapped'
  BY <1>1 DEF UInv, Loaded, Idle, ReportsMapped
<1>6. Present'
  BY <1>1, CurrentIs DEF Present
<1>7. CacheMapped' /\ MemoryKept' /\ Unlisted' /\ Written'
  BY <1>1 DEF CacheMapped, MemoryKept, Unlisted, Written, Working
<1>. QED BY <1>3, <1>4, <1>5, <1>6, <1>7 DEF UInv

LEMMA UidSyncDone ==
  ASSUME UInv, sync_done
  PROVE  UInv'
<1>1. /\ phase = "commit" /\ phase' = "saving" /\ table' = CurrentTable
      /\ reports = {} /\ pending = << >>
      /\ UNCHANGED <<device, cache, idmap, host, pending, link, settled, raced, torn, needSlow, mapFile,
                     cacheFile, reports>>
  BY DEF sync_done, GetRecordStateTable, files, engine, history
<1>2. /\ LinkOne' /\ DoomedGone' /\ FileMapped' /\ FileKept'
      /\ \A rid : Excused(rid)' = Excused(rid)
      /\ \A u : Doomed(u)' = Doomed(u)
  BY <1>1, UidSame
<1>3. Loaded' /\ Idle' /\ ReportsMapped' /\ Unlisted' /\ Written'
  <2>1. PICK f : f = pending
    OBVIOUS
  <2>2. DOMAIN f = {}
    BY <1>1, <2>1
  <2>. QED BY <1>1, <2>1, <2>2 DEF Loaded, Idle, ReportsMapped, Unlisted, Written
<1>4. CacheMapped'
  BY <1>1, <1>2 DEF UInv, CacheMapped, Working
<1>5. MemoryKept'
  <2>1. \A p : (SettledIn(p) => SettledIn(p)') /\ (MappedIn(p) => MappedIn(p)')
    BY <1>1, <1>2 DEF SettledIn, MappedIn
  <2>. QED BY <1>1, <2>1 DEF UInv, MemoryKept, Working
<1>6. Present'
  BY <1>1, CurrentIs DEF UInv, Present
<1>. QED BY <1>2, <1>3, <1>4, <1>5, <1>6 DEF UInv

LEMMA UidSaveCache ==
  ASSUME UInv, SaveCache
  PROVE  UInv'
<1>1. /\ phase = "saving" /\ phase' = "cleaning" /\ cacheFile' = cache
      /\ UNCHANGED <<device, table, cache, idmap, host, pending, link, settled, raced, torn, needSlow, mapFile, reports>>
  BY DEF SaveCache, plugin, engine, history
<1>2. (\A rid : Excused(rid)' = Excused(rid)) /\ (\A u : Doomed(u)' = Doomed(u))
  BY <1>1 DEF Excused, Doomed
<1>3. LinkOne' /\ DoomedGone' /\ FileMapped' /\ FileKept'
  BY <1>1, <1>2 DEF UInv, LinkOne, DoomedGone, FileMapped, FileKept
<1>4. Loaded' /\ Idle' /\ ReportsMapped' /\ Unlisted' /\ Written' /\ Present'
  BY <1>1 DEF UInv, Loaded, Idle, ReportsMapped, Unlisted, Written, Present
<1>5. CacheMapped'
  BY <1>1, <1>2 DEF UInv, CacheMapped, Working
<1>6. MemoryKept'
  <2>1. \A p : (SettledIn(p) => SettledIn(p)') /\ (MappedIn(p) => MappedIn(p)')
    BY <1>1, <1>2 DEF SettledIn, MappedIn
  <2>. QED BY <1>1, <2>1 DEF UInv, MemoryKept, Working
<1>. QED BY <1>3, <1>4, <1>5, <1>6 DEF UInv

\* Both files are written: CleanupMap removes no pair of a record that is in
\* the cache and on the device.
LEMMA UidSaveMap ==
  ASSUME UInv, SaveMap
  PROVE  UInv'
<1>1. /\ phase = "cleaning" /\ phase' = "clearing" /\ mapFile' = idmap'
      /\ UNCHANGED <<device, table, cache, cacheFile, host, pending, link, settled, raced, torn, needSlow, reports>>
      /\ reports = {} /\ DOMAIN pending = {} /\ cacheFile = cache
  BY DEF SaveMap, engine, history, UInv, Idle, Loaded
<1>2. (\A rid : Excused(rid)' = Excused(rid)) /\ (\A u : Doomed(u)' = Doomed(u))
  BY <1>1 DEF Excused, Doomed
<1>3. PICK S \in SUBSET Stale : idmap' = idmap \ S
  BY DEF SaveMap
<1>4. \A p \in idmap : p[2] \in cache => p \in idmap' \/ p[2] \in raced
  BY <1>1, <1>3 DEF Stale, UInv, Present
<1>5. LinkOne' /\ DoomedGone'
  BY <1>1, <1>2 DEF UInv, LinkOne, DoomedGone
<1>6. FileMapped'
  <2>1. SUFFICES ASSUME NEW rid \in cache, ~Excused(rid) PROVE rid \in RidsIn(idmap')
    BY <1>1, <1>2 DEF FileMapped
  <2>2. PICK p \in idmap : p[2] = rid
    BY <1>1, <2>1 DEF UInv, CacheMapped, Working, RidsIn
  <2>3. p \in idmap'
    BY <1>4, <2>1, <2>2 DEF Excused
  <2>. QED BY <2>2, <2>3 DEF RidsIn
<1>7. ASSUME NEW p \in link, ~Excused(p[2])
      PROVE  (p[2] \in cacheFile' /\ p \in mapFile') \/ (p[2] \notin cacheFile' /\ p[1] \notin settled)
  <2>1. SettledIn(p) /\ MappedIn(p)
    BY <1>1 DEF UInv, MemoryKept, Working
  <2>2. p[2] \in cache => p \in idmap
    BY <1>1, <1>7, <2>1 DEF MappedIn, Doomed
  <2>3. p[1] \in settled => p[2] \in cache
    BY <1>1, <1>7, <2>1 DEF SettledIn
  <2>. QED BY <1>1, <1>4, <1>7, <2>2, <2>3 DEF Excused
<1>8. Written'
  BY <1>1, <1>2, <1>7 DEF Written
<1>9. FileKept'
  BY <1>1, <1>2, <1>7 DEF FileKept, KeptIn
<1>10. Loaded' /\ Idle' /\ ReportsMapped'
  BY <1>1 DEF Loaded, Idle, ReportsMapped
<1>11. CacheMapped' /\ MemoryKept' /\ Unlisted' /\ Present'
  BY <1>1 DEF CacheMapped, MemoryKept, Unlisted, Present, Working
<1>. QED BY <1>5, <1>6, <1>8, <1>9, <1>10, <1>11 DEF UInv

LEMMA UidSyncEnds ==
  ASSUME UInv, sync_ends
  PROVE  UInv'
<1>1. /\ phase = "clearing" /\ phase' = "ready" /\ needSlow' = FALSE
      /\ settled' = settled \cup {p[1] : p \in {q \in link : q[2] \in cacheFile}}
      /\ UNCHANGED <<cache, idmap, cacheFile, mapFile, host, pending, link, raced, torn, reports>>
  BY DEF sync_ends, files
<1>2. (\A rid : Excused(rid)' = Excused(rid)) /\ (\A u : Doomed(u)' = Doomed(u))
  BY <1>1 DEF Excused, Doomed
<1>3. LinkOne' /\ DoomedGone' /\ FileMapped'
  BY <1>1, <1>2 DEF UInv, LinkOne, DoomedGone, FileMapped
<1>4. FileKept'
  <2>1. SUFFICES ASSUME NEW p \in link, ~Excused(p[2]) PROVE KeptIn(p)'
    BY <1>1, <1>2 DEF FileKept
  <2>2. \/ p[2] \in cacheFile /\ p \in mapFile
        \/ p[2] \notin cacheFile /\ p[1] \notin settled
    BY <1>1, <2>1 DEF UInv, Written
  <2>3. ASSUME p[1] \in settled', p[1] \notin settled PROVE p[2] \in cacheFile
    <3>1. PICK q \in link : q[2] \in cacheFile /\ p[1] = q[1]
      BY <1>1, <2>3
    <3>2. p = q
      BY <2>1, <3>1 DEF UInv, LinkOne
    <3>. QED BY <3>1, <3>2
  <2>. QED BY <1>1, <2>2, <2>3 DEF KeptIn
<1>5. Loaded' /\ Idle' /\ ReportsMapped'
  BY <1>1 DEF UInv, Loaded, Idle, ReportsMapped
<1>6. CacheMapped' /\ MemoryKept' /\ Unlisted' /\ Present' /\ Written'
  BY <1>1 DEF CacheMapped, MemoryKept, Unlisted, Present, Written, Working
<1>. QED BY <1>3, <1>4, <1>5, <1>6 DEF UInv

LEMMA UidSession ==
  ASSUME UInv, FromFiles,
         \/ initialize \/ (\E slow \in BOOLEAN : get_changeinfo(slow))
         \/ GetChangesFails \/ sync_done \/ SaveCache \/ SaveMap \/ SaveIsCut
         \/ (\E i \in Slots : ClearDirty(i)) \/ sync_ends \/ Fails \/ finalize \/ CommitHangs
  PROVE  UInv'
<1>1. CASE GetChangesFails \/ SaveIsCut \/ Fails \/ finalize
  <2>1. /\ phase' \in {"off", "failed", "hung"} /\ reports' = {} /\ (torn => torn')
        /\ UNCHANGED <<host, pending, link, settled, raced, needSlow>>
        /\ torn' \/ (phase # "cleaning" /\ UNCHANGED <<cacheFile, mapFile>>)
    <3>1. CASE GetChangesFails
      BY <3>1 DEF GetChangesFails, EndsBadly, files, history
    <3>2. CASE SaveIsCut
      BY <3>2 DEF SaveIsCut, EndsBadly
    <3>3. CASE Fails
      BY <3>3 DEF Fails, EndsBadly, files
    <3>4. CASE finalize
      BY <3>4 DEF finalize, files, history
    <3>. QED BY <1>1, <3>1, <3>2, <3>3, <3>4
  <2>. QED BY <2>1, UidEnds
<1>2. CASE CommitHangs
  <2>1. /\ phase = "commit" /\ phase' = "hung"
        /\ UNCHANGED <<host, pending, link, settled, raced, needSlow, torn, reports, idmap, cache, cacheFile, mapFile>>
    BY <1>2 DEF CommitHangs, plugin, files, engine, history
  <2>. QED BY <2>1, UidEnds
<1>3. ASSUME NEW i \in Slots, ClearDirty(i) PROVE UInv'
  <2>1. UNCHANGED <<phase, cache, idmap, cacheFile, mapFile, host, pending, reports,
                    needSlow, link, settled, torn, raced>>
    BY <1>3 DEF ClearDirty, files, engine, history
  <2>2. DOMAIN device' = DOMAIN device /\ \A j \in DOMAIN device' : device'[j].rid = device[j].rid
    BY <1>3 DEF ClearDirty
  <2>3. DOMAIN table' = DOMAIN table /\ \A j \in DOMAIN table : table'[j].rid = table[j].rid
    BY <1>3 DEF ClearDirty
  <2>4. RidsOf(device') = RidsOf(device) /\ RidsOf(table') = RidsOf(table)
    BY <2>2, <2>3 DEF RidsOf
  <2>. QED BY <2>1, <2>4, UidDevice
<1>. QED BY <1>1, <1>2, <1>3, UidInitialize, UidStarts, UidSyncDone, UidSaveCache, UidSaveMap, UidSyncEnds
-----------------------------------------------------------------------------
(* The engine handles a report.                                            *)

\* A report is handled: its record becomes that of the item, or the item has
\* none any more; in the last case the item is to be deleted.
ReportLeads(r) ==
  \/ /\ r.kind # "deleted" /\ link' = Linked(r.uid, r.rid) /\ ~Doomed(r.uid)'
     /\ r.uid \in settled' => <<r.uid, r.rid>> \in link
  \/ r.kind = "deleted" /\ link' = ClearedLinks(r.uid) /\ ~Doomed(r.uid)'
  \/ r.kind # "deleted" /\ link' = ClearedLinks(r.uid) /\ Doomed(r.uid)' /\ r.uid \notin DOMAIN host'

\* What is left of the links.
LEMMA LinksAre ==
  ASSUME NEW uid, NEW rid
  PROVE  /\ \A p \in Linked(uid, rid) : p = <<uid, rid>> \/ (p \in link /\ p[1] # uid /\ p[2] # rid)
         /\ \A p \in ClearedLinks(uid) : p \in link /\ p[1] # uid
BY DEF Linked, ClearedLinks

LEMMA LinkedOne ==
  ASSUME LinkOne, NEW uid, NEW rid, link' = Linked(uid, rid) \/ link' \subseteq link
  PROVE  LinkOne'
<1>1. CASE link' = Linked(uid, rid)
  <2>1. SUFFICES ASSUME NEW p \in link', NEW q \in link', p[1] = q[1] \/ p[2] = q[2] PROVE p = q
    BY DEF LinkOne
  <2>2. /\ p = <<uid, rid>> \/ (p \in link /\ p[1] # uid /\ p[2] # rid)
        /\ q = <<uid, rid>> \/ (q \in link /\ q[1] # uid /\ q[2] # rid)
    BY <1>1, LinksAre
  <2>. QED BY <2>1, <2>2 DEF LinkOne
<1>2. CASE link' \subseteq link
  BY <1>2 DEF LinkOne
<1>. QED BY <1>1, <1>2

LEMMA UidReport ==
  ASSUME UInv, OneToOne(idmap), phase = "commit", NEW r \in reports, reports' = reports \ {r},
         UNCHANGED <<phase, device, table, cache, idmap, cacheFile, mapFile, needSlow, raced, torn>>,
         settled' \subseteq settled, DOMAIN host' \subseteq DOMAIN host \cup {r.uid},
         \A v : v # r.uid => (Doomed(v)' <=> Doomed(v)),
         ReportLeads(r)
  PROVE  UInv'
<1>1. \A rid : Excused(rid)' = Excused(rid)
  BY DEF Excused
<1>2. ReportMapped(r) /\ ReportFiled(r)
  BY DEF UInv, ReportsMapped
<1>3. /\ \A p \in Linked(r.uid, r.rid) : p = <<r.uid, r.rid>> \/ (p \in link /\ p[1] # r.uid /\ p[2] # r.rid)
      /\ \A p \in ClearedLinks(r.uid) : p \in link /\ p[1] # r.uid
  BY LinksAre
<1>4. LinkOne'
  <2>1. link' = Linked(r.uid, r.rid) \/ link' \subseteq link
    BY <1>3 DEF ReportLeads
  <2>. QED BY <2>1, LinkedOne DEF UInv
<1>5. DoomedGone'
  <2>1. SUFFICES ASSUME NEW u \in Uids, Doomed(u)' PROVE u \notin DOMAIN host' /\ \A p \in link' : p[1] # u
    BY DEF DoomedGone
  <2>2. CASE u = r.uid
    BY <1>3, <2>1, <2>2 DEF ReportLeads
  <2>3. CASE u # r.uid
    <3>1. u \notin DOMAIN host /\ \A p \in link : p[1] # u
      BY <2>1, <2>3 DEF UInv, DoomedGone
    <3>2. \A p \in link' : p \in link \/ p = <<r.uid, r.rid>>
      BY <1>3 DEF ReportLeads
    <3>. QED BY <2>3, <3>1, <3>2
  <2>. QED BY <2>2, <2>3
<1>6. FileMapped' /\ Loaded' /\ Idle' /\ CacheMapped' /\ Unlisted' /\ Present' /\ Written'
  BY <1>1 DEF UInv, FileMapped, Loaded, Idle, CacheMapped, Unlisted, Present, Written
<1>7. ReportsMapped'
  <2>1. \A t : (ReportMapped(t) => ReportMapped(t)') /\ (ReportFiled(t) => ReportFiled(t)')
    BY DEF ReportMapped, ReportFiled
  <2>. QED BY <2>1 DEF UInv, ReportsMapped
<1>8. FileKept'
  <2>1. SUFFICES ASSUME ~needSlow, NEW p \in link', ~Excused(p[2]) PROVE KeptIn(p)'
    BY <1>1 DEF FileKept
  <2>2. CASE p \in link
    <3>1. KeptIn(p)
      BY <2>1, <2>2 DEF UInv, FileKept
    <3>. QED BY <3>1 DEF KeptIn
  <2>3. CASE p \notin link
    <3>1. p = <<r.uid, r.rid>> /\ p[1] \notin settled'
      BY <1>3, <2>1, <2>3 DEF ReportLeads
    <3>2. p[2] \in cacheFile => p \in mapFile
      BY <1>2, <2>1, <3>1 DEF UInv, FileMapped, ReportFiled
    <3>. QED BY <3>1, <3>2 DEF KeptIn
  <2>. QED BY <2>2, <2>3
<1>9. ASSUME NEW p \in link', ~Excused(p[2]) PROVE SettledIn(p)' /\ MappedIn(p)'
  <2>1. CASE p = <<r.uid, r.rid>> /\ r.kind # "deleted"
    <3>1. p \in idmap /\ p[2] \in cache
      BY <1>2, <2>1 DEF ReportMapped
    <3>. QED BY <3>1 DEF SettledIn, MappedIn
  <2>2. CASE ~(p = <<r.uid, r.rid>> /\ r.kind # "deleted")
    <3>1. p \in link /\ p[1] # r.uid
      BY <1>3, <1>9, <2>2 DEF ReportLeads
    <3>2. SettledIn(p) /\ MappedIn(p)
      BY <3>1 DEF UInv, MemoryKept, Working
    <3>3. SettledIn(p)'
      <4>1. \A t \in reports : t.uid = p[1] => t \in reports'
        BY <3>1
      <4>. QED BY <1>1, <3>2, <4>1 DEF SettledIn
    <3>4. ASSUME NEW t \in reports, t.kind # "deleted", t.rid = p[2] PROVE MappedIn(p)'
      <4>1. CASE t # r
        BY <3>4, <4>1 DEF MappedIn
      <4>2. CASE t = r
        <5>1. <<r.uid, r.rid>> \in idmap /\ r.rid = p[2] /\ r.kind # "deleted"
          BY <1>2, <3>4, <4>2 DEF ReportMapped
        <5>2. Doomed(r.uid)'
          BY <1>3, <1>9, <3>1, <5>1, <2>2 DEF ReportLeads
        <5>. QED BY <5>1, <5>2 DEF MappedIn
      <4>. QED BY <4>1, <4>2
    <3>5. ASSUME NEW q \in idmap, q[2] = p[2], Doomed(q[1]) PROVE MappedIn(p)'
      <4>1. CASE Doomed(q[1])'
        BY <3>5, <4>1 DEF MappedIn
      <4>2. CASE ~Doomed(q[1])'
        <5>1. q[1] = r.uid /\ ~Doomed(r.uid)'
          BY <3>5, <4>2
        <5>2. CASE r.kind = "deleted"
          <6>1. <<r.uid, r.rid>> \in idmap
            BY <1>2, <5>1, <5>2 DEF ReportMapped, UidsIn
          <6>2. r.rid \notin cache /\ q[2] = r.rid
            BY <1>2, <5>1, <5>2, <6>1 DEF ReportMapped, OneToOne
          <6>. QED BY <3>5, <6>2 DEF MappedIn
        <5>3. CASE r.kind # "deleted"
          <6>1. <<r.uid, r.rid>> \in idmap
            BY <1>2, <5>3 DEF ReportMapped
          <6>2. q[2] = r.rid
            BY <5>1, <6>1 DEF OneToOne
          <6>3. link' = Linked(r.uid, r.rid)
            BY <5>1, <5>3 DEF ReportLeads
          <6>. QED BY <1>3, <1>9, <2>2, <3>5, <5>3, <6>2, <6>3
        <5>. QED BY <5>2, <5>3
      <4>. QED BY <4>1, <4>2
    <3>6. MappedIn(p)'
      <4>1. CASE p[2] \notin cache \/ p \in idmap
        BY <4>1 DEF MappedIn
      <4>. QED BY <1>9, <3>2, <3>4, <3>5, <4>1 DEF MappedIn
    <3>. QED BY <3>3, <3>6
  <2>. QED BY <2>1, <2>2
<1>10. MemoryKept'
  <2>1. \A p : Excused(p[2]) => SettledIn(p)' /\ MappedIn(p)'
    BY <1>1 DEF SettledIn, MappedIn
  <2>. QED BY <1>9, <2>1 DEF MemoryKept
<1>. QED BY <1>4, <1>5, <1>6, <1>7, <1>8, <1>10 DEF UInv

LEMMA UidEngine ==
  ASSUME UInv, TInv, IdMapOneToOne, NEW r \in reports, Apply(r) \/ HostWins(r)
  PROVE  UInv'
<1>0. OneToOne(idmap) /\ r.uid \in Uids /\ PendingHost
  BY TypedIs DEF TInv, Typed, IdMapOneToOne, Reports
<1>1. CASE Apply(r)
  <2>1. /\ phase = "commit" /\ reports' = reports \ {r} /\ pending' = Without(pending, r.uid)
        /\ UNCHANGED <<phase, device, table, cache, idmap, cacheFile, mapFile, needSlow, raced, torn>>
        /\ KeepSettled
    BY <1>1 DEF Apply, plugin, files
  <2>2. DOMAIN host' \subseteq DOMAIN host \cup {r.uid}
    BY <1>1 DEF Apply, With, Without
  <2>3. (\A v : v # r.uid => (Doomed(v)' <=> Doomed(v))) /\ ~Doomed(r.uid)'
    BY <2>1 DEF Doomed, Without
  <2>4. settled' \subseteq settled /\ \A u \in settled' : \E p \in link \cap link' : p[1] = u
    BY <2>1, KeepsSettled
  <2>5. ReportLeads(r)
    <3>1. CASE r.kind = "deleted"
      BY <1>1, <2>3, <3>1 DEF Apply, ReportLeads
    <3>2. CASE r.kind # "deleted"
      <4>1. link' = Linked(r.uid, r.rid)
        BY <1>1, <3>2 DEF Apply
      <4>2. r.uid \in settled' => <<r.uid, r.rid>> \in link
        BY <2>4, <4>1, LinksAre
      <4>. QED BY <2>3, <3>2, <4>1, <4>2 DEF ReportLeads
    <3>. QED BY <3>1, <3>2
  <2>. QED BY <1>0, <2>1, <2>2, <2>3, <2>4, <2>5, UidReport
<1>2. CASE HostWins(r)
  <2>1. /\ phase = "commit" /\ reports' = reports \ {r} /\ r.uid \in DOMAIN pending
        /\ UNCHANGED <<phase, device, table, cache, idmap, cacheFile, mapFile, needSlow, raced, torn, host>>
        /\ settled' \subseteq settled /\ \A u \in settled' : \E p \in link \cap link' : p[1] = u
    BY <1>2, KeepsSettled DEF HostWins, plugin, files
  <2>2. \/ r.kind = "deleted" /\ Doomed(r.uid) /\ pending' = Without(pending, r.uid)
        \/ r.kind = "deleted" /\ pending' = With(pending, r.uid, "added")
        \/ r.kind # "deleted" /\ ~Doomed(r.uid) /\ pending' = With(pending, r.uid, "modified")
        \/ r.kind # "deleted" /\ pending' = pending
    BY <1>2, <2>1 DEF HostWins, Doomed
  <2>3. \A v : v # r.uid => (Doomed(v)' <=> Doomed(v))
    BY <2>2 DEF Doomed, With, Without
  <2>4. /\ r.kind = "deleted" => ~Doomed(r.uid)'
        /\ r.kind # "deleted" => (Doomed(r.uid)' <=> Doomed(r.uid))
    BY <2>2 DEF Doomed, With, Without
  <2>5. r.uid \in DOMAIN host <=> ~Doomed(r.uid)
    BY <1>0, <2>1 DEF UInv, DoomedGone, PendingHost, Doomed
  <2>6. ReportLeads(r)
    <3>1. CASE r.kind = "deleted"
      BY <1>2, <2>4, <3>1 DEF HostWins, ReportLeads
    <3>2. CASE r.kind # "deleted" /\ r.uid \in DOMAIN host
      <4>1. link' = Linked(r.uid, r.rid)
        BY <1>2, <3>2 DEF HostWins
      <4>2. r.uid \in settled' => <<r.uid, r.rid>> \in link
        BY <2>1, <4>1, LinksAre
      <4>. QED BY <2>4, <2>5, <3>2, <4>1, <4>2 DEF ReportLeads
    <3>3. CASE r.kind # "deleted" /\ r.uid \notin DOMAIN host
      BY <1>2, <2>1, <2>4, <2>5, <3>3 DEF HostWins, ReportLeads
    <3>. QED BY <3>1, <3>2, <3>3
  <2>7. settled' \subseteq settled /\ DOMAIN host' \subseteq DOMAIN host \cup {r.uid}
    BY <2>1
  <2>. QED BY <1>0, <2>1, <2>3, <2>6, <2>7, UidReport
<1>. QED BY <1>1, <1>2
-----------------------------------------------------------------------------
(* A change of the other side is committed.                                *)

\* An id that is not in the table and that the map in the file has is mapped
\* to the same uid by both.
LEMMA UnlistedIs ==
  ASSUME UInv, OneToOne(idmap), phase = "commit", ~needSlow, NEW uid, NEW rid, GetMappedRecordId(uid, rid),
         rid \notin RidsOf(table), rid \in RidsIn(mapFile)
  PROVE  <<uid, rid>> \in mapFile
<1>1. \A p \in idmap : p[2] = rid => p[1] = uid /\ <<uid, rid>> \in idmap
  BY GetsOwnId
<1>2. PICK p \in mapFile : p[2] = rid
  BY DEF RidsIn
<1>3. p \in idmap
  BY <1>2 DEF UInv, Unlisted
<1>4. <<uid, rid>> \in idmap
  BY <1>1, <1>2, <1>3
<1>. QED BY <1>4 DEF UInv, Unlisted

\* The plugin knows the item by the record it is written to.
LEMMA UidMaps ==
  ASSUME UInv, OneToOne(idmap), phase = "commit",
         NEW uid \in Uids, NEW rid, GetMappedRecordId(uid, rid),
         ~Doomed(uid), \A r \in reports : r.uid # uid,
         idmap' = idmap \cup {<<uid, rid>>}, pending' = Without(pending, uid),
         UNCHANGED <<phase, table, cacheFile, mapFile, host, reports, needSlow, raced, torn>>,
         RidsOf(device) \subseteq RidsOf(device'),
         \/ UNCHANGED <<cache, link, settled>> /\ rid \in RidsOf(table)
         \/ /\ cache' = cache \cup {rid} /\ link' = Linked(uid, rid)
            /\ settled' \subseteq settled /\ (uid \in settled' => <<uid, rid>> \in link)
            /\ rid \in RidsOf(device') /\ rid \notin RidsOf(table)
  PROVE  UInv'
<1>1. /\ \A p \in idmap : p[2] = rid => p[1] = uid /\ <<uid, rid>> \in idmap
      /\ \A p \in idmap : p[1] = uid => p[2] = rid /\ <<uid, rid>> \in idmap
  BY GetsOwnId
<1>2. \A c : Excused(c)' = Excused(c)
  BY DEF Excused
<1>3. ~Doomed(uid)' /\ \A v : Doomed(v)' <=> Doomed(v)
  BY DEF Doomed, Without
<1>4. \A p \in Linked(uid, rid) : p = <<uid, rid>> \/ (p \in link /\ p[1] # uid /\ p[2] # rid)
  BY LinksAre
<1>5. LinkOne'
  <2>1. link' = Linked(uid, rid) \/ link' \subseteq link
    OBVIOUS
  <2>. QED BY <2>1, LinkedOne DEF UInv
<1>6. DoomedGone'
  <2>1. SUFFICES ASSUME NEW u \in Uids, Doomed(u), u # uid PROVE u \notin DOMAIN host /\ \A p \in link' : p[1] # u
    BY <1>3 DEF DoomedGone
  <2>2. u \notin DOMAIN host /\ \A p \in link : p[1] # u
    BY <2>1 DEF UInv, DoomedGone
  <2>3. \A p \in link' : p \in link \/ p[1] = uid
    BY <1>4
  <2>. QED BY <2>1, <2>2, <2>3
<1>7. FileMapped' /\ Loaded' /\ Idle' /\ Written'
  BY <1>2 DEF UInv, FileMapped, Loaded, Idle, Written
<1>8. ASSUME ~needSlow, rid \notin RidsOf(table), rid \in RidsIn(mapFile)
      PROVE  <<uid, rid>> \in mapFile
  BY <1>8, UnlistedIs
<1>9. Unlisted'
  <2>1. SUFFICES ASSUME ~needSlow
                 PROVE  /\ \A p \in idmap' : p[2] \in RidsIn(mapFile) => p[2] \in RidsOf(table) \/ p \in mapFile
                        /\ \A p \in mapFile : p[2] \in RidsOf(table) \/ p \in idmap'
    BY DEF Unlisted
  <2>2. /\ \A p \in idmap : p[2] \in RidsIn(mapFile) => p[2] \in RidsOf(table) \/ p \in mapFile
        /\ \A p \in mapFile : p[2] \in RidsOf(table) \/ p \in idmap
    BY <2>1 DEF UInv, Unlisted
  <2>. QED BY <1>8, <2>1, <2>2
<1>10. FileKept'
  <2>1. SUFFICES ASSUME ~needSlow, NEW p \in link', ~Excused(p[2]) PROVE KeptIn(p)'
    BY <1>2 DEF FileKept
  <2>2. CASE p \in link
    <3>1. KeptIn(p)
      BY <2>1, <2>2 DEF UInv, FileKept
    <3>. QED BY <3>1 DEF KeptIn
  <2>3. CASE p \notin link
    <3>1. p = <<uid, rid>> /\ p[1] \notin settled' /\ rid \notin RidsOf(table)
      BY <1>4, <2>1, <2>3
    <3>2. p[2] \in cacheFile => p[2] \in RidsIn(mapFile)
      BY <2>1 DEF UInv, FileMapped
    <3>. QED BY <1>8, <2>1, <3>1, <3>2 DEF KeptIn
  <2>. QED BY <2>2, <2>3
<1>11. ReportsMapped'
  <2>1. SUFFICES ASSUME NEW r \in reports PROVE ReportMapped(r)' /\ ReportFiled(r)'
    BY DEF ReportsMapped
  <2>2. ReportMapped(r) /\ ReportFiled(r) /\ r.uid # uid
    BY DEF UInv, ReportsMapped
  <2>3. <<r.uid, r.rid>> \in idmap' <=> <<r.uid, r.rid>> \in idmap
    BY <2>2
  <2>4. r.uid \notin UidsIn(idmap) => r.uid \notin UidsIn(idmap')
    BY <2>2 DEF UidsIn
  <2>5. <<r.uid, r.rid>> \in idmap => r.rid # rid
    BY <1>1, <2>2
  <2>6. cache \subseteq cache' /\ cache' \subseteq cache \cup {rid}
    OBVIOUS
  <2>7. ReportMapped(r)'
    BY <2>2, <2>3, <2>4, <2>5, <2>6 DEF ReportMapped
  <2>8. ReportFiled(r)'
    BY <2>2 DEF ReportFiled
  <2>. QED BY <2>7, <2>8
<1>12. CacheMapped'
  <2>1. SUFFICES ASSUME NEW c \in cache' PROVE c \in RidsIn(idmap') \/ Excused(c)
    BY <1>2 DEF CacheMapped
  <2>2. c \in cache \/ c = rid
    BY <2>1
  <2>3. c \in RidsIn(idmap) => c \in RidsIn(idmap')
    BY DEF RidsIn
  <2>4. rid \in RidsIn(idmap')
    <3>1. <<uid, rid>> \in idmap' /\ <<uid, rid>>[2] = rid
      OBVIOUS
    <3>. QED BY <3>1 DEF RidsIn
  <2>. QED BY <2>2, <2>3, <2>4 DEF UInv, CacheMapped, Working
<1>13. MemoryKept'
  <2>1. SUFFICES ASSUME NEW p \in link' PROVE SettledIn(p)' /\ MappedIn(p)'
    BY DEF MemoryKept
  <2>2. CASE p = <<uid, rid>> /\ rid \in cache'
    <3>1. p \in idmap' /\ p[2] \in cache'
      BY <2>2
    <3>. QED BY <3>1 DEF SettledIn, MappedIn
  <2>3. CASE ~(p = <<uid, rid>> /\ rid \in cache')
    <3>1. p \in link /\ (p[2] \notin cache => p[2] \notin cache')
      BY <1>4, <2>1, <2>3
    <3>2. SettledIn(p) /\ MappedIn(p)
      BY <3>1 DEF UInv, MemoryKept, Working
    <3>3. SettledIn(p)'
      BY <1>2, <3>2 DEF SettledIn
    <3>4. MappedIn(p)'
      BY <1>2, <1>3, <3>1, <3>2 DEF MappedIn
    <3>. QED BY <3>3, <3>4
  <2>. QED BY <2>2, <2>3
<1>14. Present'
  BY DEF UInv, Present
<1>. QED BY <1>5, <1>6, <1>7, <1>9, <1>10, <1>11, <1>12, <1>13, <1>14 DEF UInv

\* The plugin forgets the item and its record.
LEMMA UidUnmaps ==
  ASSUME UInv, OneToOne(idmap), phase = "commit",
         NEW uid \in Uids, NEW rid, GetMappedRecordId(uid, rid),
         Doomed(uid), \A r \in reports : r.uid # uid,
         idmap' = UnmapUid(idmap, uid), pending' = Without(pending, uid), cache' = cache \ {rid},
         UNCHANGED <<phase, table, cacheFile, mapFile, host, reports, needSlow, raced, torn, link, settled>>,
         RidsOf(device) \subseteq RidsOf(device') \cup {rid}, rid \in RidsOf(table)
  PROVE  UInv'
<1>1. /\ \A p \in idmap : p[2] = rid => p[1] = uid /\ <<uid, rid>> \in idmap
      /\ \A p \in idmap : p[1] = uid => p[2] = rid /\ <<uid, rid>> \in idmap
  BY GetsOwnId
<1>2. \A c : Excused(c)' = Excused(c)
  BY DEF Excused
<1>3. ~Doomed(uid)' /\ \A v : v # uid => (Doomed(v)' <=> Doomed(v))
  BY DEF Doomed, Without
<1>4. idmap' \subseteq idmap /\ \A p \in idmap : p \in idmap' \/ (p[1] = uid /\ p[2] = rid)
  BY <1>1 DEF UnmapUid
<1>5. \A p \in link : p[1] # uid
  BY DEF UInv, DoomedGone
<1>6. LinkOne' /\ DoomedGone'
  BY <1>3 DEF UInv, LinkOne, DoomedGone
<1>7. FileMapped' /\ Loaded' /\ Idle' /\ Written'
  BY <1>2 DEF UInv, FileMapped, Loaded, Idle, Written
<1>8. FileKept'
  BY <1>2 DEF UInv, FileKept, KeptIn
<1>9. ReportsMapped'
  <2>1. SUFFICES ASSUME NEW r \in reports PROVE ReportMapped(r)' /\ ReportFiled(r)'
    BY DEF ReportsMapped
  <2>2. ReportMapped(r) /\ ReportFiled(r) /\ r.uid # uid
    BY DEF UInv, ReportsMapped
  <2>3. <<r.uid, r.rid>> \in idmap' <=> <<r.uid, r.rid>> \in idmap
    BY <1>4, <2>2
  <2>4. r.uid \notin UidsIn(idmap) => r.uid \notin UidsIn(idmap')
    BY <1>4 DEF UidsIn
  <2>5. <<r.uid, r.rid>> \in idmap => r.rid # rid
    BY <1>1, <2>2
  <2>6. ReportMapped(r)'
    BY <2>2, <2>3, <2>4, <2>5 DEF ReportMapped
  <2>7. ReportFiled(r)'
    BY <2>2 DEF ReportFiled
  <2>. QED BY <2>6, <2>7
<1>10. CacheMapped'
  <2>1. SUFFICES ASSUME NEW c \in cache, c # rid, ~Excused(c) PROVE c \in RidsIn(idmap')
    BY <1>2 DEF CacheMapped
  <2>2. PICK p \in idmap : p[2] = c
    BY <2>1 DEF UInv, CacheMapped, Working, RidsIn
  <2>3. p \in idmap'
    BY <1>4, <2>1, <2>2
  <2>. QED BY <2>2, <2>3 DEF RidsIn
<1>11. MemoryKept'
  <2>1. SUFFICES ASSUME NEW p \in link PROVE SettledIn(p)' /\ MappedIn(p)'
    BY DEF MemoryKept
  <2>2. SettledIn(p) /\ MappedIn(p) /\ p[1] # uid
    BY <1>5 DEF UInv, MemoryKept, Working
  <2>3. p \in idmap => p \in idmap' /\ p[2] # rid
    BY <1>1, <1>4, <2>2
  <2>4. SettledIn(p)'
    BY <1>2, <2>2, <2>3 DEF SettledIn
  <2>5. ASSUME NEW q \in idmap, q[2] = p[2], Doomed(q[1]) PROVE MappedIn(p)'
    <3>1. CASE q[1] = uid
      BY <1>1, <2>5, <3>1 DEF MappedIn
    <3>2. CASE q[1] # uid
      BY <1>3, <1>4, <2>5, <3>2 DEF MappedIn
    <3>. QED BY <3>1, <3>2
  <2>6. MappedIn(p)'
    BY <1>2, <2>2, <2>3, <2>5 DEF MappedIn
  <2>. QED BY <2>4, <2>6
<1>12. Unlisted'
  BY <1>4 DEF UInv, Unlisted
<1>13. Present'
  BY DEF UInv, Present
<1>. QED BY <1>6, <1>7, <1>8, <1>9, <1>10, <1>11, <1>12, <1>13 DEF UInv

LEMMA UidCommits ==
  ASSUME UInv, RecInv, TInv, IdMapOneToOne, FirstIds, NEW uid \in DOMAIN pending, NEW rid \in RecordIds,
         \/ CommitRefused(uid, rid) \/ CommitUnparsable(uid, rid) \/ CommitFails(uid, rid)
         \/ CommitDeleted(uid, rid) \/ CommitAdded(uid, rid) \/ CommitModified(uid, rid)
  PROVE  UInv'
<1>0. Typed /\ OneToOne(idmap) /\ uid \in Uids
  BY TypedIs DEF TInv, IdMapOneToOne, Typed, Into
<1>1. /\ GetIndex(rid) = {} <=> rid \notin RidsOf(table)
      /\ \A i \in GetIndex(rid) : i \in DOMAIN table /\ table[i].rid = rid
  BY <1>0, GetIndexFinds DEF Typed
<1>2. CASE CommitRefused(uid, rid) \/ CommitUnparsable(uid, rid) \/ CommitFails(uid, rid)
  <2>1. /\ phase = "commit" /\ phase' \in {"off", "failed", "hung"} /\ reports' = {}
        /\ UNCHANGED <<host, pending, link, settled, raced, needSlow, torn, cacheFile, mapFile>>
    BY <1>2 DEF CommitRefused, CommitUnparsable, CommitFails, Commit, EndsBadly, files, history
  <2>. QED BY <2>1, UidEnds
<1>3. CASE CommitDeleted(uid, rid)
  <2>1. /\ phase = "commit" /\ GetMappedRecordId(uid, rid) /\ Doomed(uid) /\ (\A r \in reports : r.uid # uid)
        /\ idmap' = UnmapUid(idmap, uid) /\ pending' = Without(pending, uid) /\ cache' = cache \ {rid}
        /\ UNCHANGED <<phase, table, cacheFile, mapFile, host, reports, needSlow, raced, torn, link, settled>>
    BY <1>3 DEF CommitDeleted, Commit, files, history, Doomed
  <2>2. PICK i \in GetIndex(rid) : device' = Without(device, i)
    BY <1>3 DEF CommitDeleted
  <2>3. i \in DOMAIN device => device[i].rid = rid
    BY <1>1, <2>1, <2>2 DEF RecInv, SameIndexes, Window
  <2>4. RidsOf(device) \subseteq RidsOf(device') \cup {rid}
    BY <2>2, <2>3 DEF RidsOf, Without
  <2>5. rid \in RidsOf(table)
    BY <1>1, <2>2
  <2>. QED BY <1>0, <2>1, <2>4, <2>5, UidUnmaps
<1>4. CASE CommitModified(uid, rid)
  <2>1. /\ phase = "commit" /\ GetMappedRecordId(uid, rid) /\ ~Doomed(uid) /\ (\A r \in reports : r.uid # uid)
        /\ idmap' = idmap \cup {<<uid, rid>>} /\ pending' = Without(pending, uid)
        /\ UNCHANGED <<phase, table, cacheFile, mapFile, host, reports, needSlow, raced, torn, cache, link, settled>>
    BY <1>4 DEF CommitModified, Commit, files, history, Doomed
  <2>2. PICK i \in GetIndex(rid) \cap DOMAIN device, d \in BOOLEAN :
          device' = With(device, i, [rid |-> rid, version |-> host[uid], dirty |-> d])
    BY <1>4 DEF CommitModified
  <2>3. device[i].rid = rid
    BY <1>1, <2>1, <2>2 DEF RecInv, SameIndexes, Window
  <2>4. /\ DOMAIN device' = DOMAIN device \cup {i} /\ device'[i].rid = rid
        /\ \A j \in DOMAIN device : j # i => device'[j] = device[j]
    BY <2>2, WithRecord, Zenon
  <2>5. RidsOf(device) \subseteq RidsOf(device')
    BY <2>3, <2>4 DEF RidsOf
  <2>6. rid \in RidsOf(table)
    BY <1>1, <2>2
  <2>. QED BY <1>0, <2>1, <2>5, <2>6, UidMaps
<1>5. CASE CommitAdded(uid, rid)
  <2>1. /\ phase = "commit" /\ GetMappedRecordId(uid, rid) /\ ~Doomed(uid) /\ (\A r \in reports : r.uid # uid)
        /\ idmap' = idmap \cup {<<uid, rid>>} /\ pending' = Without(pending, uid)
        /\ cache' = cache \cup {rid} /\ KeepSettled
        /\ UNCHANGED <<phase, table, cacheFile, mapFile, host, reports, needSlow, raced, torn>>
    BY <1>5 DEF CommitAdded, Commit, files, Doomed
  <2>2. GetIndex(rid) = {}
    BY <1>5 DEF FirstIds
  <2>3. PICK i \in FreeSlots :
          /\ device' = With(device, i, [rid |-> rid, version |-> host[uid], dirty |-> TRUE])
          /\ link' = Linked(uid, rid)
    BY <1>5, <2>2 DEF CommitAdded
  <2>4. /\ DOMAIN device' = DOMAIN device \cup {i} /\ device'[i].rid = rid
        /\ \A j \in DOMAIN device : j # i => device'[j] = device[j]
    BY <2>3, WithRecord, Zenon
  <2>5. i \notin DOMAIN device
    BY <2>3 DEF FreeSlots
  <2>6. RidsOf(device) \subseteq RidsOf(device') /\ rid \in RidsOf(device')
    BY <2>4, <2>5 DEF RidsOf
  <2>7. settled' \subseteq settled /\ (uid \in settled' => <<uid, rid>> \in link)
    BY <2>1, <2>3, KeepsSettled, LinksAre
  <2>. QED BY <1>0, <1>1, <2>1, <2>2, <2>3, <2>6, <2>7, UidMaps
<1>. QED BY <1>2, <1>3, <1>4, <1>5

LEMMA UidStep ==
  ASSUME UInv, RecInv, TInv, IdMapOneToOne, [Next]_vars, lapses' = {}
  PROVE  UInv'
<1>1. CASE UNCHANGED vars
  <2>1. UNCHANGED <<phase, device, table, cache, idmap, cacheFile, mapFile, host, pending, reports,
                    needSlow, link, settled, torn, raced>>
    BY <1>1 DEF vars, plugin, files, engine, history
  <2>. QED BY <2>1, UidDevice
<1>2. CASE Next
  <2>1. FirstIds /\ FromFiles /\ (GetChanges => Unclashed)
    BY NoLapse
  <2>. QED BY <1>2, <2>1, UidUsers, UidSession, UidGetChanges, UidEngine, UidCommits DEF Next
<1>. QED BY <1>1, <1>2

\* The promise is kept by the files alone.
LEMMA FilesKeep == UInv /\ TInv /\ IdMapOneToOne => UidKept
<1> SUFFICES ASSUME UInv, TInv, IdMapOneToOne, phase = "off", ~needSlow, ~torn,
                    NEW p \in link, p[1] \in settled, p[2] \notin raced
             PROVE  Map2Uid(mapFile, p[2]) = p[1] /\ p[2] \in cacheFile
  BY DEF UidKept, Resting
<1>1. mapFile \in SUBSET (Uids \X RecordIds) /\ OneToOne(mapFile)
  BY TypedIs DEF TInv, Typed, IdMapOneToOne
<1>2. p[2] \in cacheFile /\ p \in mapFile
  BY DEF UInv, FileKept, KeptIn, Excused
<1>3. \A rid : \A q \in mapFile : q[2] = rid => Map2Uid(mapFile, rid) = q[1]
  BY <1>1, MapsTo
<1>. QED BY <1>2, <1>3

\* What happens to a record that both sides know is reported under the uid of
\* its item: through sessions that fail, slow sessions, conflicts that either
\* side wins, items and records that are deleted and made again, and a clean-up
\* of the map with an invalid iterator, until
\*   - a session begins with what a failed one left in memory,
\*   - the uid made up for a record is one that another record has, or
\*   - a commit makes a second id for an item.
THEOREM UidKeptAlways == Spec => []UidKept
<1> DEFINE Kept == lapses # {} \/ (UInv /\ RecInv)
<1>1. Init => Kept
  BY UidInit, RecordInit
<1>2. Spec => []TInv
  BY TypeInit, TypeStep, PTL DEF Spec
<1>3. Spec => []IdMapOneToOne
  BY IdMapOneToOneAlways
<1>4. Kept /\ TInv /\ IdMapOneToOne /\ [Next]_vars => Kept'
  <2> SUFFICES ASSUME Kept, TInv, IdMapOneToOne, [Next]_vars, lapses' = {} PROVE UInv' /\ RecInv'
    OBVIOUS
  <2>1. UInv /\ RecInv
    BY LapsesStay
  <2>2. RecInv'
    BY <2>1, RecordStep
  <2>3. UInv'
    BY <2>1, UidStep
  <2>. QED BY <2>2, <2>3
<1>5. Kept /\ TInv /\ IdMapOneToOne => UidKept
  BY FilesKeep DEF UidKept
<1>. QED BY <1>1, <1>2, <1>3, <1>4, <1>5, PTL DEF Spec
-----------------------------------------------------------------------------
(* Both sides agree.                                                       *)

\* The other side has the item with this version.
Has(u, v) == u \in DOMAIN host /\ host[u] = v

\* An item is linked as long as it is settled.
SettledLinked == \A u \in settled : \E p \in link : p[1] = u

\* A record the table has is where the table has it.
TableIs ==
  phase \in {"fetched", "commit"} =>
    \A i \in DOMAIN device, j \in DOMAIN table :
      device[i].rid = table[j].rid => i = j \/ Excused(device[i].rid)

\* From the reports on the cache has the records of the device, and after the
\* commits the table has them too.
Listed ==
  /\ phase \in Working => \A rid \in RidsOf(device) : rid \in cache \/ Excused(rid)
  /\ phase \in {"saving", "cleaning"} => \A rid \in RidsOf(device) : rid \in RidsOf(table) \/ Excused(rid)
  /\ phase \in {"saving", "cleaning", "clearing"} => \A rid \in cache : rid \in RidsOf(device) \/ Excused(rid)

\* A report is of what its record holds, and under a uid that the file has for
\* this record if it has it at all.
ReportAgrees(r) ==
  /\ r.kind # "deleted" =>
       \A i \in DOMAIN device : device[i].rid = r.rid => Excused(r.rid) \/ device[i].version = r.version
  /\ ~needSlow => <<r.uid, r.rid>> \in mapFile \cap idmap \/ r.uid \notin UidsIn(mapFile)

ReportsAgree == phase = "commit" => \A r \in reports : ReportAgrees(r)

\* For a record of the device the map in memory has the uid the file has.
MapsAgree ==
  phase = "commit" /\ ~needSlow =>
    \A i \in DOMAIN device : ~Excused(device[i].rid) =>
      \A p \in idmap : p[2] = device[i].rid /\ p[2] \in RidsIn(mapFile) => p \in mapFile

\* What a report or a commit is still to do for the item of a record.
Due(u) == u \in DOMAIN pending \/ \E r \in reports : r.kind # "deleted" /\ r.uid = u

\* In a session each record is of an item that has its data or is due.
Matched ==
  phase \in Working \cup {"clearing"} =>
    \A i \in DOMAIN device :
      \/ Excused(device[i].rid)
      \/ \E u \in Uids : <<u, device[i].rid>> \in idmap /\ (Due(u) \/ Has(u, device[i].version))

\* Between sessions that is so of the records that will not be reported.
Filed ==
  phase \notin {"cleaning", "clearing"} /\ ~needSlow =>
    \A i \in DOMAIN device :
      \/ Excused(device[i].rid) \/ device[i].rid \notin cacheFile \/ device[i].dirty
      \/ \E u \in Uids : /\ <<u, device[i].rid>> \in mapFile
                         /\ IF u \in DOMAIN pending THEN pending[u] # "added" ELSE Has(u, device[i].version)

AInv == TableIs /\ Listed /\ ReportsAgree /\ MapsAgree /\ Matched /\ Filed

LEMMA AgreeInit == Init => AInv /\ SettledLinked
<1> SUFFICES ASSUME Init PROVE AInv /\ SettledLinked
  OBVIOUS
<1>1. TableIs /\ Listed /\ ReportsAgree /\ MapsAgree
  BY DEF Init, TableIs, Listed, ReportsAgree, MapsAgree, Working
<1>2. Matched /\ Filed /\ SettledLinked
  BY DEF Init, Matched, Filed, SettledLinked, Working
<1>. QED BY <1>1, <1>2 DEF AInv

\* A settled item keeps its link, whatever is done.
LEMMA SettledStep == SettledLinked /\ [Next]_vars => SettledLinked'
<1> SUFFICES ASSUME SettledLinked, [Next]_vars PROVE SettledLinked'
  OBVIOUS
<1>1. CASE UNCHANGED <<link, settled>>
  BY <1>1 DEF SettledLinked
<1>2. CASE KeepSettled
  BY <1>2, KeepsSettled DEF SettledLinked
<1>3. CASE settled' = {}
  BY <1>3 DEF SettledLinked
<1>4. CASE sync_ends
  BY <1>4 DEF sync_ends, SettledLinked
<1>5. CASE UNCHANGED vars
  BY <1>1, <1>5 DEF vars, history
<1>6. CASE \/ \E i \in Slots : DeviceModify(i) \/ DeviceDelete(i) \/ ClearDirty(i)
           \/ \E i \in Slots, rid \in RecordIds : DeviceAdd(i, rid)
           \/ \E uid \in HostUids : HostAdd(uid)
           \/ \E uid \in Uids : HostModify(uid)
  BY <1>1, <1>6 DEF DeviceModify, DeviceDelete, ClearDirty, DeviceAdd, DeviceWrites, HostAdd, HostModify, HostWrites,
                    history
<1>7. ASSUME NEW uid, HostDelete(uid) PROVE SettledLinked'
  BY <1>2, <1>7 DEF HostDelete
<1>8. CASE initialize \/ (\E slow \in BOOLEAN : get_changeinfo(slow)) \/ GetChangesFails \/ CommitHangs
  BY <1>1, <1>8 DEF initialize, get_changeinfo, GetChangesFails, CommitHangs, history
<1>9. CASE sync_done \/ SaveCache \/ SaveMap \/ SaveIsCut \/ Fails \/ finalize
  BY <1>1, <1>9 DEF sync_done, SaveCache, SaveMap, SaveIsCut, Fails, finalize, history
<1>10. CASE GetChanges
  <2>1. CASE needSlow
    <3>1. SlowMatch(ReportsOf(Changed))
      BY <1>10, <2>1 DEF GetChanges
    <3>2. settled' = {}
      BY <3>1 DEF SlowMatch
    <3>. QED BY <1>3, <3>2
  <2>2. CASE ~needSlow
    BY <1>1, <1>10, <2>2 DEF GetChanges
  <2>. QED BY <2>1, <2>2
<1>11. ASSUME NEW r \in reports, Apply(r) \/ HostWins(r) PROVE SettledLinked'
  <2>1. KeepSettled
    BY <1>11 DEF Apply, HostWins
  <2>. QED BY <1>2, <2>1
<1>12. ASSUME NEW uid \in DOMAIN pending, NEW rid \in RecordIds,
              \/ CommitRefused(uid, rid) \/ CommitUnparsable(uid, rid) \/ CommitFails(uid, rid)
              \/ CommitDeleted(uid, rid) \/ CommitModified(uid, rid)
       PROVE  SettledLinked'
  BY <1>1, <1>12 DEF CommitRefused, CommitUnparsable, CommitFails, CommitDeleted, CommitModified, history
<1>13. ASSUME NEW uid \in DOMAIN pending, NEW rid \in RecordIds, CommitAdded(uid, rid) PROVE SettledLinked'
  BY <1>2, <1>13 DEF CommitAdded
<1>. QED BY <1>4, <1>5, <1>6, <1>7, <1>8, <1>9, <1>10, <1>11, <1>12, <1>13 DEF Next

\* A step of the device's user, or one that changes nothing here: what is new
\* on the device is excused in a session and dirty outside of one.
LEMMA AgreeDevice ==
  ASSUME AInv, raced \subseteq raced',
         UNCHANGED <<phase, table, cache, idmap, cacheFile, mapFile, host, pending, reports, needSlow, torn>>,
         \A i \in DOMAIN device' :
           \/ i \in DOMAIN device /\ device'[i] = device[i]
           \/ phase \in Window /\ device'[i].rid \in raced'
           \/ phase \notin Window /\ device'[i].dirty,
         phase \in Window => RidsOf(device) \subseteq RidsOf(device') \cup raced'
  PROVE  AInv'
<1>1. \A rid : Excused(rid) => Excused(rid)'
  BY DEF Excused
<1>2. ASSUME phase \in Window, NEW i \in DOMAIN device', ~Excused(device[i].rid)'
      PROVE  i \in DOMAIN device /\ device'[i] = device[i] /\ ~Excused(device[i].rid)
  BY <1>1, <1>2 DEF Excused
<1>3. TableIs'
  BY <1>2 DEF AInv, TableIs, Window
<1>4. Listed'
  <2>1. ASSUME phase \in Window, NEW rid \in RidsOf(device'), ~Excused(rid)' PROVE rid \in RidsOf(device) /\ ~Excused(rid)
    BY <1>2, <2>1 DEF RidsOf
  <2>2. Working \cup {"saving", "cleaning", "clearing"} \subseteq Window
    BY DEF Working, Window
  <2>3. ASSUME phase \in Window, NEW rid \in RidsOf(device), ~Excused(rid)' PROVE rid \in RidsOf(device')
    BY <2>3 DEF Excused
  <2>. QED BY <1>1, <2>1, <2>2, <2>3 DEF AInv, Listed
<1>5. ReportsAgree'
  <2>1. ASSUME phase = "commit", NEW r, ReportAgrees(r) PROVE ReportAgrees(r)'
    BY <1>1, <1>2, <2>1 DEF ReportAgrees, Window
  <2>. QED BY <2>1 DEF AInv, ReportsAgree
<1>6. MapsAgree'
  BY <1>2 DEF AInv, MapsAgree, Window
<1>7. Matched'
  <2>1. Working \cup {"clearing"} \subseteq Window
    BY DEF Working, Window
  <2>2. \A u : (Due(u) => Due(u)') /\ \A v : Has(u, v) => Has(u, v)'
    BY DEF Due, Has
  <2>. QED BY <1>2, <2>1, <2>2 DEF AInv, Matched
<1>8. Filed'
  <2>1. SUFFICES ASSUME phase \notin {"cleaning", "clearing"}, ~needSlow, NEW i \in DOMAIN device',
                        ~Excused(device[i].rid)', device'[i].rid \in cacheFile, ~device'[i].dirty
                 PROVE  \E u \in Uids : /\ <<u, device'[i].rid>> \in mapFile
                          /\ IF u \in DOMAIN pending THEN pending[u] # "added" ELSE Has(u, device'[i].version)
    <3>1. \A u, v : Has(u, v)' <=> Has(u, v)
      BY DEF Has
    <3>. QED BY <3>1 DEF Filed
  <2>2. i \in DOMAIN device /\ device'[i] = device[i] /\ ~Excused(device[i].rid)
    BY <1>1, <2>1 DEF Excused
  <2>. QED BY <2>1, <2>2 DEF AInv, Filed
<1>. QED BY <1>3, <1>4, <1>5, <1>6, <1>7, <1>8 DEF AInv

\* The user of the other side, between sessions.
LEMMA AgreeHosts ==
  ASSUME AInv, NEW uid, HostAdd(uid) \/ HostModify(uid) \/ HostDelete(uid)
  PROVE  AInv'
<1>1. /\ phase \in {"off", "ready", "failed"}
      /\ UNCHANGED <<phase, device, cacheFile, mapFile, needSlow, raced, torn>>
  BY DEF HostAdd, HostModify, HostWrites, HostDelete, plugin, files
<1>2. TableIs' /\ Listed' /\ ReportsAgree' /\ MapsAgree' /\ Matched'
  BY <1>1 DEF TableIs, Listed, ReportsAgree, MapsAgree, Matched, Working
<1>3. ASSUME NEW u, NEW v, IF u \in DOMAIN pending THEN pending[u] # "added" ELSE Has(u, v)
      PROVE  IF u \in DOMAIN pending' THEN pending'[u] # "added" ELSE Has(u, v)'
  <2>1. CASE HostDelete(uid)
    <3>1. /\ host' = Without(host, uid)
          /\ pending' = IF uid \in DOMAIN pending /\ pending[uid] = "added"
                          THEN Without(pending, uid) ELSE With(pending, uid, "deleted")
      BY <2>1 DEF HostDelete
    <3>. QED BY <1>3, <3>1 DEF With, Without, Has
  <2>2. CASE HostAdd(uid)
    <3>1. /\ uid \notin DOMAIN host \cup DOMAIN pending
          /\ host' = With(host, uid, version') /\ pending' = With(pending, uid, "added")
      BY <2>2 DEF HostAdd, HostWrites
    <3>2. u # uid
      BY <1>3, <3>1 DEF Has
    <3>. QED BY <1>3, <3>1, <3>2 DEF With, Has
  <2>3. CASE HostModify(uid)
    <3>1. /\ host' = With(host, uid, version')
          /\ pending' = With(pending, uid, IF uid \in DOMAIN pending THEN pending[uid] ELSE "modified")
      BY <2>3 DEF HostModify, HostWrites
    <3>. QED BY <1>3, <3>1 DEF With, Has
  <2>. QED BY <2>1, <2>2, <2>3
<1>4. Filed'
  <2>1. \A rid : Excused(rid)' <=> Excused(rid)
    BY <1>1 DEF Excused
  <2>. QED BY <1>1, <1>3, <2>1 DEF AInv, Filed
<1>. QED BY <1>2, <1>4 DEF AInv

\* The end of a session, well or badly, and what is done out of one.
LEMMA AgreeEnds ==
  ASSUME AInv, UInv, phase' \in {"off", "ready", "failed", "hung"}, torn => torn',
         UNCHANGED <<device, host, pending, raced>>,
         \/ torn'
         \/ phase = "clearing" /\ UNCHANGED <<cacheFile, mapFile>>
         \/ phase \notin {"cleaning", "clearing"} /\ UNCHANGED <<cacheFile, mapFile, needSlow>>
  PROVE  AInv'
<1>1. TableIs' /\ Listed' /\ ReportsAgree' /\ MapsAgree' /\ Matched'
  BY DEF TableIs, Listed, ReportsAgree, MapsAgree, Matched, Working
<1>2. /\ \A rid : Excused(rid) => Excused(rid)'
      /\ \A u, v : Has(u, v)' <=> Has(u, v)
  BY DEF Excused, Has
<1>3. Filed'
  <2>1. CASE torn'
    BY <2>1 DEF Filed, Excused
  <2>2. CASE phase = "clearing" /\ UNCHANGED <<cacheFile, mapFile>>
    <3>1. idmap = mapFile /\ reports = {} /\ DOMAIN pending = {}
      BY <2>2 DEF UInv, Loaded, Idle
    <3>2. \A i \in DOMAIN device :
            \/ Excused(device[i].rid)
            \/ \E u \in Uids : <<u, device[i].rid>> \in mapFile /\ Has(u, device[i].version)
      BY <2>2, <3>1 DEF AInv, Matched, Due
    <3>. QED BY <1>2, <2>2, <3>1, <3>2 DEF Filed
  <2>3. CASE phase \notin {"cleaning", "clearing"} /\ UNCHANGED <<cacheFile, mapFile, needSlow>>
    BY <1>2, <2>3 DEF AInv, Filed
  <2>. QED BY <2>1, <2>2, <2>3
<1>. QED BY <1>1, <1>3 DEF AInv

\* A session begins.
LEMMA AgreeStarts ==
  ASSUME AInv, RecInv, NEW slow \in BOOLEAN, get_changeinfo(slow)
  PROVE  AInv'
<1>1. /\ phase \in {"ready", "failed"} /\ phase' = "fetched" /\ needSlow' = slow /\ (needSlow => slow)
      /\ table' = CurrentTable
      /\ UNCHANGED <<device, cacheFile, mapFile, host, pending, raced, torn>>
  BY DEF get_changeinfo, GetRecordStateTable, files, history
<1>2. (\A rid : Excused(rid)' <=> Excused(rid)) /\ \A u, v : Has(u, v)' <=> Has(u, v)
  BY <1>1 DEF Excused, Has
<1>3. TableIs'
  BY <1>1, <1>2, CurrentIs DEF TableIs, RecInv, Single, Excused
<1>4. Listed' /\ ReportsAgree' /\ MapsAgree' /\ Matched'
  BY <1>1 DEF Listed, ReportsAgree, MapsAgree, Matched, Working
<1>5. Filed'
  BY <1>1, <1>2 DEF AInv, Filed
<1>. QED BY <1>3, <1>4, <1>5 DEF AInv

-----------------------------------------------------------------------------
(* The reports are made.                                                   *)

\* A report that is not of a deletion has the data of its record.
LEMMA ReportsHave ==
  /\ \A r \in ReportsOf(Changed) : r.kind # "deleted" =>
       \E i \in Changed : table[i].rid = r.rid /\ r.version = device[i].version
  /\ \A i \in Changed : \E r \in ReportsOf(Changed) :
       r.kind # "deleted" /\ r.rid = table[i].rid /\ r.uid = Map2Uid(idmap, table[i].rid)
<1> DEFINE q(i) == [kind |-> IF table[i].rid \in cache THEN "modified" ELSE "added",
                    uid |-> Map2Uid(idmap, table[i].rid), rid |-> table[i].rid,
                    version |-> device[i].version]
<1>1. \A i \in Changed : q(i) \in ReportsOf(Changed)
  BY DEF ReportsOf
<1>2. \A i : /\ q(i).kind # "deleted" /\ q(i).rid = table[i].rid
             /\ q(i).uid = Map2Uid(idmap, table[i].rid) /\ q(i).version = device[i].version
  OBVIOUS
<1>3. ASSUME NEW r \in ReportsOf(Changed), r.kind # "deleted" PROVE \E i \in Changed : r = q(i)
  <2>1. \/ \E i \in Changed : r = q(i)
        \/ \E rid \in Deleted : r = [kind |-> "deleted", uid |-> Map2Uid(idmap, rid), rid |-> rid, version |-> 0]
    BY DEF ReportsOf
  <2>. QED BY <1>3, <2>1
<1> HIDE DEF q
<1>. QED BY <1>1, <1>2, <1>3

\* An item that a slow sync has recognised has the data of a report under its uid.
LEMMA SlowMatchTwins ==
  ASSUME NEW S \in SUBSET Reports, SlowMatch(S)
  PROVE  \A r \in S \ reports' : r.uid \in DOMAIN host' /\ \E t \in S : t.uid = r.uid /\ host'[r.uid] = t.version
<1> DEFINE Same(r) == {u \in DOMAIN host : host[u] = r.version /\ (r.uid \in DOMAIN host => u = r.uid)}
           Twins == {r \in S : Same(r) # {}}
           Twin(r) == CHOOSE u \in Same(r) : TRUE
           Left == DOMAIN host \ {Twin(r) : r \in Twins}
<1>1. /\ host' = [u \in Left \cup {r.uid : r \in Twins} |->
                    IF u \in Left THEN host[u] ELSE (CHOOSE r \in Twins : r.uid = u).version]
      /\ reports' = S \ Twins
  BY DEF SlowMatch
<1>2. SUFFICES ASSUME NEW r \in Twins
               PROVE  r.uid \in DOMAIN host' /\ \E t \in S : t.uid = r.uid /\ host'[r.uid] = t.version
  BY <1>1
<1>3. r.uid \notin Left
  <2>1. CASE r.uid \in DOMAIN host
    <3>1. Twin(r) \in Same(r)
      OBVIOUS
    <3>2. Twin(r) = r.uid
      BY <2>1, <3>1
    <3>. QED BY <3>2
  <2>2. CASE r.uid \notin DOMAIN host
    BY <2>2
  <2>. QED BY <2>1, <2>2
<1>4. PICK t \in Twins : t = CHOOSE q \in Twins : q.uid = r.uid
  OBVIOUS
<1>5. t.uid = r.uid
  BY <1>4
<1>6. r.uid \in DOMAIN host' /\ host'[r.uid] = t.version
  BY <1>1, <1>3, <1>4
<1>. QED BY <1>5, <1>6

LEMMA AgreeGetChanges ==
  ASSUME AInv, EInv, UInv, IdMapOneToOne, Unclashed, GetChanges
  PROVE  AInv'
<1>0. /\ TInv /\ idmap \in SUBSET (Uids \X RecordIds) /\ OneToOne(idmap)
      /\ host' = host \/ SlowMatch(ReportsOf(Changed))
      /\ Into(device, Slots, Records) /\ Into(table, Slots, States)
  BY TypedIs DEF TInv, Typed, IdMapOneToOne, EInv, GetChanges
<1>1. /\ phase = "fetched" /\ phase' = "commit" /\ Changed \subseteq DOMAIN device
      /\ idmap' = idmap \cup NewPairs /\ cache' = RidsOf(table)
      /\ UNCHANGED <<device, table, cacheFile, mapFile, needSlow, raced, torn>>
  BY DEF GetChanges, files
<1>2. PICK S \in SUBSET Reports : S = ReportsOf(Changed)
  BY <1>0, <1>1, ReportsType
<1>3. /\ \A r \in S : r.uid = Map2Uid(idmap, r.rid)
      /\ \A r \in S : r.kind = "deleted" => r.rid \in Deleted
      /\ \A r \in S : r.kind # "deleted" => \E i \in Changed : table[i].rid = r.rid /\ r.version = device[i].version
      /\ \A i \in Changed : \E r \in S :
           r.kind # "deleted" /\ r.rid = table[i].rid /\ r.uid = Map2Uid(idmap, table[i].rid)
  BY <1>2, ReportsAre, ReportsHave
<1>4. /\ needSlow => SlowMatch(S)
      /\ ~needSlow => reports' = S /\ host' = host /\ pending' = pending
      /\ reports' \subseteq S
  <2>1. needSlow => SlowMatch(S)
    BY <1>2 DEF GetChanges
  <2>2. ~needSlow => reports' = S /\ host' = host /\ pending' = pending
    BY <1>2 DEF GetChanges
  <2>. QED BY <2>1, <2>2, SlowMatchHost
<1>5. \A rid : Excused(rid)' <=> Excused(rid)
  BY <1>1 DEF Excused
<1>6. \A i \in DOMAIN device :
        \/ Excused(device[i].rid)
        \/ i \in DOMAIN table /\ table[i].rid = device[i].rid /\ table[i].dirty = device[i].dirty
  BY <1>1 DEF EInv, Snapshot, Excused
<1>7. ASSUME NEW i \in DOMAIN device, NEW r \in S, r.kind # "deleted", device[i].rid = r.rid, ~Excused(r.rid)
      PROVE  device[i].version = r.version
  <2>1. PICK j \in Changed : table[j].rid = r.rid /\ r.version = device[j].version
    BY <1>3, <1>7
  <2>2. j \in DOMAIN table
    BY DEF Changed
  <2>. QED BY <1>1, <1>7, <2>1, <2>2 DEF AInv, TableIs
<1>8. TableIs'
  BY <1>1, <1>5 DEF AInv, TableIs
<1>9. Listed'
  <2>1. \A rid \in RidsOf(device) : rid \in RidsOf(table) \/ Excused(rid)
    BY <1>6 DEF RidsOf
  <2>. QED BY <1>1, <1>5, <2>1 DEF Listed
<1>10. ReportsAgree'
  <2>1. ASSUME NEW r \in S, ~needSlow
        PROVE  <<r.uid, r.rid>> \in mapFile \cap idmap' \/ r.uid \notin UidsIn(mapFile)
    <3>1. idmap = mapFile
      BY <1>1, <2>1 DEF UInv, Loaded
    <3>2. r.rid \in cache \cup RidsOf(table)
      BY <1>3 DEF Deleted, Changed, RidsOf
    <3>3. CASE r.rid \in RidsIn(idmap)
      BY <1>0, <1>1, <1>3, <3>1, <3>3, MapsTo
    <3>4. CASE r.rid \notin RidsIn(idmap)
      <4>1. r.uid = Own(r.rid)
        BY <1>3, <3>4 DEF Map2Uid
      <4>2. CanMap(idmap, Own(r.rid), r.rid)
        BY <1>1, <3>2, <3>4 DEF Unclashed
      <4>. QED BY <3>1, <4>1, <4>2 DEF CanMap
    <3>. QED BY <3>3, <3>4
  <2>2. ASSUME NEW r \in S PROVE ReportAgrees(r)'
    <3>1. r.kind # "deleted" =>
            \A i \in DOMAIN device : device[i].rid = r.rid => Excused(r.rid) \/ device[i].version = r.version
      BY <1>7
    <3>2. (\A rid : Excused(rid)' <=> Excused(rid)) /\ device' = device /\ needSlow' = needSlow /\ mapFile' = mapFile
      BY <1>1, <1>5
    <3>. QED BY <2>1, <3>1, <3>2 DEF ReportAgrees
  <2>. QED BY <1>4, <2>2 DEF ReportsAgree
<1>11. MapsAgree'
  <2>1. SUFFICES ASSUME ~needSlow, NEW p \in idmap', p[2] \in RidsIn(mapFile) PROVE p \in mapFile
    BY <1>1 DEF MapsAgree
  <2>2. idmap = mapFile
    BY <1>1, <2>1 DEF UInv, Loaded
  <2>3. \A q \in NewPairs : q[2] \notin RidsIn(idmap)
    BY NewPairsAre
  <2>. QED BY <1>1, <2>1, <2>2, <2>3
<1>12. Matched'
  <2>1. SUFFICES ASSUME NEW i \in DOMAIN device, ~Excused(device[i].rid)
                 PROVE  \E u \in Uids : <<u, device[i].rid>> \in idmap' /\ (Due(u)' \/ Has(u, device[i].version)')
    BY <1>1, <1>5 DEF Matched
  <2>2. i \in DOMAIN table /\ table[i].rid = device[i].rid /\ table[i].dirty = device[i].dirty
    BY <1>6, <2>1
  <2>3. CASE i \in Changed
    <3>1. PICK r \in S : r.kind # "deleted" /\ r.rid = device[i].rid /\ r.uid = Map2Uid(idmap, device[i].rid)
      BY <1>3, <2>2, <2>3
    <3>2. <<r.uid, device[i].rid>> \in idmap' /\ r.uid \in Uids
      <4>1. <<Map2Uid(idmap, table[i].rid), table[i].rid>> \in idmap \cup NewPairs
        BY <1>0, <1>1, <2>3, AreMapped
      <4>. QED BY <1>1, <2>2, <3>1, <4>1 DEF Reports
    <3>3. CASE r \in reports'
      <4>1. Due(r.uid)'
        BY <3>1, <3>3 DEF Due
      <4>. QED BY <3>2, <4>1
    <3>4. CASE r \notin reports'
      <4>1. needSlow /\ SlowMatch(S)
        BY <1>4, <3>4
      <4>2. PICK t \in S : r.uid \in DOMAIN host' /\ t.uid = r.uid /\ host'[r.uid] = t.version
        BY <3>4, <4>1, SlowMatchTwins
      <4>3. cache = {} /\ idmap = {}
        BY <1>1, <4>1 DEF UInv, Loaded
      <4>4. t.uid = Own(t.rid) /\ r.uid = Own(r.rid) /\ t.kind # "deleted"
        BY <1>3, <4>3 DEF Map2Uid, RidsIn, Deleted
      <4>5. t.rid = device[i].rid
        BY <3>1, <4>2, <4>4 DEF Own
      <4>6. device[i].version = t.version
        BY <1>7, <2>1, <4>4, <4>5
      <4>7. Has(r.uid, device[i].version)'
        BY <1>1, <4>2, <4>6 DEF Has
      <4>. QED BY <3>2, <4>7
    <3>. QED BY <3>3, <3>4
  <2>4. CASE i \notin Changed
    <3>1. device[i].rid \in cache /\ ~device[i].dirty
      BY <2>2, <2>4 DEF Changed
    <3>2. ~needSlow /\ cache = cacheFile /\ idmap = mapFile
      BY <1>1, <3>1 DEF UInv, Loaded
    <3>3. PICK u \in Uids : /\ <<u, device[i].rid>> \in mapFile
                            /\ IF u \in DOMAIN pending THEN pending[u] # "added" ELSE Has(u, device[i].version)
      BY <1>1, <2>1, <3>1, <3>2 DEF AInv, Filed
    <3>4. <<u, device[i].rid>> \in idmap'
      BY <1>1, <3>2, <3>3
    <3>5. Due(u)' \/ Has(u, device[i].version)'
      BY <1>1, <1>4, <3>2, <3>3 DEF Due, Has
    <3>. QED BY <3>4, <3>5
  <2>. QED BY <2>3, <2>4
<1>13. Filed'
  <2>1. CASE needSlow
    BY <1>1, <2>1 DEF Filed
  <2>2. CASE ~needSlow
    <3>1. UNCHANGED <<device, cacheFile, mapFile, host, pending>>
      BY <1>1, <1>4, <2>2
    <3>2. \A u, v : Has(u, v)' <=> Has(u, v)
      BY <3>1 DEF Has
    <3>. QED BY <1>1, <1>5, <2>2, <3>1, <3>2 DEF AInv, Filed
  <2>. QED BY <2>1, <2>2
<1>. QED BY <1>8, <1>9, <1>10, <1>11, <1>12, <1>13 DEF AInv

-----------------------------------------------------------------------------
(* The reports and the changes are handled.                                *)

\* The engine handles a report: its item gets the data of the report, or has
\* other data for the device.
LEMMA AgreeEngine ==
  ASSUME AInv, UInv, TInv, IdMapOneToOne, NEW r \in reports, Apply(r) \/ HostWins(r)
  PROVE  AInv'
<1>0. OneToOne(idmap) /\ OneToOne(mapFile)
  BY DEF IdMapOneToOne
<1>1. /\ phase = "commit" /\ reports' = reports \ {r}
      /\ UNCHANGED <<phase, device, table, cache, idmap, cacheFile, mapFile, needSlow, raced, torn>>
  BY DEF Apply, HostWins, plugin, files
<1>2. /\ \A u : u # r.uid => /\ u \in DOMAIN pending' <=> u \in DOMAIN pending
                             /\ u \in DOMAIN pending => pending'[u] = pending[u]
                             /\ \A v : Has(u, v) => Has(u, v)'
      /\ r.kind # "deleted" =>
           IF r.uid \in DOMAIN pending' THEN pending'[r.uid] # "added" ELSE Has(r.uid, r.version)'
  <2>1. CASE Apply(r)
    <3>1. /\ pending' = Without(pending, r.uid)
          /\ r.kind # "deleted" => host' = With(host, r.uid, r.version)
          /\ host' = With(host, r.uid, r.version) \/ host' = Without(host, r.uid)
      BY <2>1 DEF Apply
    <3>2. \A u : u # r.uid => /\ u \in DOMAIN host => u \in DOMAIN host' /\ host'[u] = host[u]
      BY <3>1 DEF With, Without
    <3>. QED BY <3>1, <3>2 DEF With, Without, Has
  <2>2. CASE HostWins(r)
    <3>1. host' = host /\ r.uid \in DOMAIN pending
      BY <2>2 DEF HostWins
    <3>2. \/ r.kind = "deleted" /\ pending' = Without(pending, r.uid)
          \/ r.kind = "deleted" /\ pending' = With(pending, r.uid, "added")
          \/ r.kind # "deleted" /\ pending' = With(pending, r.uid, "modified")
          \/ r.kind # "deleted" /\ pending[r.uid] # "added" /\ pending' = pending
      BY <2>2 DEF HostWins
    <3>3. \A u, v : Has(u, v) => Has(u, v)'
      BY <3>1 DEF Has
    <3>. QED BY <3>1, <3>2, <3>3 DEF With, Without
  <2>. QED BY <2>1, <2>2
<1>3. ReportMapped(r) /\ ReportAgrees(r)
  BY <1>1 DEF UInv, ReportsMapped, AInv, ReportsAgree
<1>4. \A rid : Excused(rid)' <=> Excused(rid)
  BY <1>1 DEF Excused
<1>5. \A rid \in RidsOf(device) : rid \in cache \/ Excused(rid)
  BY <1>1 DEF AInv, Listed, Working
\* A record whose uid is that of the report is the record of the report.
<1>6. ASSUME NEW i \in DOMAIN device, ~Excused(device[i].rid),
             \/ <<r.uid, device[i].rid>> \in idmap
             \/ ~needSlow /\ <<r.uid, device[i].rid>> \in mapFile
      PROVE  r.kind # "deleted" /\ device[i].version = r.version
  <2>1. <<r.uid, r.rid>> \in idmap /\ r.rid = device[i].rid
    <3>1. CASE <<r.uid, device[i].rid>> \in idmap
      <4>1. r.uid \in UidsIn(idmap)
        <5>1. <<r.uid, device[i].rid>>[1] = r.uid
          OBVIOUS
        <5>. QED BY <3>1, <5>1 DEF UidsIn
      <4>2. <<r.uid, r.rid>> \in idmap
        BY <1>3, <4>1 DEF ReportMapped
      <4>. QED BY <1>0, <3>1, <4>2 DEF OneToOne
    <3>2. CASE ~needSlow /\ <<r.uid, device[i].rid>> \in mapFile
      <4>1. r.uid \in UidsIn(mapFile)
        <5>1. <<r.uid, device[i].rid>>[1] = r.uid
          OBVIOUS
        <5>. QED BY <3>2, <5>1 DEF UidsIn
      <4>2. <<r.uid, r.rid>> \in mapFile \cap idmap
        BY <1>3, <3>2, <4>1 DEF ReportAgrees
      <4>. QED BY <1>0, <3>2, <4>2 DEF OneToOne
    <3>. QED BY <1>6, <3>1, <3>2
  <2>2. device[i].rid \in cache
    BY <1>5, <1>6 DEF RidsOf
  <2>3. r.kind # "deleted"
    BY <1>3, <2>1, <2>2 DEF ReportMapped
  <2>. QED BY <1>3, <1>6, <2>1, <2>3 DEF ReportAgrees
<1>7. TableIs' /\ Listed' /\ MapsAgree'
  BY <1>1, <1>4 DEF AInv, TableIs, Listed, MapsAgree
<1>8. ReportsAgree'
  <2>1. \A t : ReportAgrees(t) => ReportAgrees(t)'
    BY <1>1, <1>4 DEF ReportAgrees
  <2>. QED BY <1>1, <2>1 DEF AInv, ReportsAgree
<1>9. Matched'
  <2>1. SUFFICES ASSUME NEW i \in DOMAIN device, ~Excused(device[i].rid)
                 PROVE  \E u \in Uids : <<u, device[i].rid>> \in idmap /\ (Due(u)' \/ Has(u, device[i].version)')
    BY <1>1, <1>4 DEF Matched
  <2>2. PICK u \in Uids : <<u, device[i].rid>> \in idmap /\ (Due(u) \/ Has(u, device[i].version))
    BY <1>1, <2>1 DEF AInv, Matched, Working
  <2>3. Due(u)' \/ Has(u, device[i].version)'
    <3>1. CASE u = r.uid
      <4>1. r.kind # "deleted" /\ device[i].version = r.version
        BY <1>6, <2>1, <2>2, <3>1
      <4>2. u \in DOMAIN pending' \/ Has(u, r.version)'
        BY <1>2, <3>1, <4>1
      <4>. QED BY <1>1, <4>1, <4>2 DEF Due
    <3>2. CASE u # r.uid
      <4>1. Due(u) => Due(u)'
        BY <1>1, <1>2, <3>2 DEF Due
      <4>. QED BY <1>1, <1>2, <2>2, <3>2, <4>1
    <3>. QED BY <3>1, <3>2
  <2>. QED BY <2>2, <2>3
<1>10. Filed'
  <2>1. SUFFICES ASSUME ~needSlow, NEW i \in DOMAIN device, ~Excused(device[i].rid),
                        device[i].rid \in cacheFile, ~device[i].dirty
                 PROVE  \E u \in Uids :
                          /\ <<u, device[i].rid>> \in mapFile
                          /\ IF u \in DOMAIN pending' THEN pending'[u] # "added" ELSE Has(u, device[i].version)'
    BY <1>1, <1>4 DEF Filed
  <2>2. PICK u \in Uids :
          /\ <<u, device[i].rid>> \in mapFile
          /\ IF u \in DOMAIN pending THEN pending[u] # "added" ELSE Has(u, device[i].version)
    BY <1>1, <2>1 DEF AInv, Filed
  <2>3. IF u \in DOMAIN pending' THEN pending'[u] # "added" ELSE Has(u, device[i].version)'
    <3>1. CASE u = r.uid
      <4>1. r.kind # "deleted" /\ device[i].version = r.version
        BY <1>6, <2>1, <2>2, <3>1
      <4>. QED BY <1>1, <1>2, <3>1, <4>1
    <3>2. CASE u # r.uid
      BY <1>1, <1>2, <2>2, <3>2
    <3>. QED BY <3>1, <3>2
  <2>. QED BY <2>2, <2>3
<1>. QED BY <1>7, <1>8, <1>9, <1>10 DEF AInv

\* The uid the file has for a record of the device is the one in memory.
LEMMA BothMaps ==
  ASSUME AInv, IdMapOneToOne, phase = "commit", ~needSlow,
         NEW i \in DOMAIN device, ~Excused(device[i].rid), NEW u, <<u, device[i].rid>> \in mapFile
  PROVE  <<u, device[i].rid>> \in idmap
<1>1. PICK v \in Uids : <<v, device[i].rid>> \in idmap
  BY DEF AInv, Matched, Working
<1>2. device[i].rid \in RidsIn(mapFile)
  <2>1. <<u, device[i].rid>>[2] = device[i].rid
    OBVIOUS
  <2>. QED BY <2>1 DEF RidsIn
<1>3. <<v, device[i].rid>> \in mapFile
  <2>1. <<v, device[i].rid>>[2] = device[i].rid
    OBVIOUS
  <2>. QED BY <1>1, <1>2, <2>1 DEF AInv, MapsAgree
<1>4. v = u
  BY <1>3 DEF IdMapOneToOne, OneToOne
<1>. QED BY <1>1, <1>4

\* An item is deleted, and its record.
LEMMA AgreeDeleted ==
  ASSUME AInv, IdMapOneToOne, TInv, NEW uid \in DOMAIN pending, NEW rid \in RecordIds, CommitDeleted(uid, rid)
  PROVE  AInv'
<1>0. OneToOne(idmap) /\ Into(table, Slots, States)
  BY TypedIs DEF TInv, Typed, IdMapOneToOne
<1>1. /\ phase = "commit" /\ GetMappedRecordId(uid, rid) /\ (\A r \in reports : r.uid # uid)
      /\ idmap' = UnmapUid(idmap, uid) /\ pending' = Without(pending, uid) /\ cache' = cache \ {rid}
      /\ UNCHANGED <<phase, table, cacheFile, mapFile, host, reports, needSlow, raced, torn>>
  BY DEF CommitDeleted, Commit, files, history
<1>2. /\ \A p \in idmap : p[2] = rid => p[1] = uid /\ <<uid, rid>> \in idmap
      /\ \A p \in idmap : p[1] = uid => p[2] = rid /\ <<uid, rid>> \in idmap
  BY <1>0, <1>1, GetsOwnId
<1>3. PICK i \in GetIndex(rid) : device' = Without(device, i)
  BY DEF CommitDeleted
<1>4. i \in DOMAIN table /\ table[i].rid = rid
  BY <1>0, <1>3, GetIndexFinds
<1>5. \A c : Excused(c)' <=> Excused(c)
  BY <1>1 DEF Excused
<1>6. /\ DOMAIN device' \subseteq DOMAIN device
      /\ \A j \in DOMAIN device' : device'[j] = device[j] /\ (device[j].rid = rid => Excused(rid))
  <2>1. DOMAIN device' = DOMAIN device \ {i} /\ \A j \in DOMAIN device' : device'[j] = device[j]
    BY <1>3 DEF Without
  <2>2. \A j \in DOMAIN device : device[j].rid = rid => j = i \/ Excused(rid)
    BY <1>1, <1>4 DEF AInv, TableIs
  <2>. QED BY <2>1, <2>2
<1>7. \A u : u # uid => /\ u \in DOMAIN pending' <=> u \in DOMAIN pending
                        /\ u \in DOMAIN pending => pending'[u] = pending[u]
                        /\ Due(u) => Due(u)'
                        /\ \A c : <<u, c>> \in idmap => <<u, c>> \in idmap'
  BY <1>1 DEF Without, Due, UnmapUid
<1>8. \A u, v : Has(u, v)' <=> Has(u, v)
  BY <1>1 DEF Has
<1>9. TableIs'
  BY <1>1, <1>5, <1>6 DEF AInv, TableIs
<1>10. Listed'
  <2>1. \A c \in RidsOf(device') : c \in RidsOf(device) /\ (c = rid => Excused(rid))
    BY <1>6 DEF RidsOf
  <2>. QED BY <1>1, <1>5, <2>1 DEF AInv, Listed, Working
<1>11. ReportsAgree'
  <2>1. ASSUME NEW r \in reports, ReportAgrees(r) PROVE ReportAgrees(r)'
    <3>1. <<r.uid, r.rid>> \in idmap => <<r.uid, r.rid>> \in idmap'
      BY <1>1, <1>7
    <3>2. <<r.uid, r.rid>> \in mapFile \cap idmap => <<r.uid, r.rid>> \in mapFile \cap idmap'
      BY <3>1
    <3>. QED BY <1>1, <1>5, <1>6, <2>1, <3>2 DEF ReportAgrees
  <2>. QED BY <1>1, <2>1 DEF AInv, ReportsAgree
<1>12. MapsAgree'
  BY <1>1, <1>5, <1>6 DEF AInv, MapsAgree, UnmapUid
<1>13. Matched'
  <2>1. SUFFICES ASSUME NEW j \in DOMAIN device', ~Excused(device[j].rid)
                 PROVE  \E u \in Uids : <<u, device[j].rid>> \in idmap' /\ (Due(u)' \/ Has(u, device[j].version))
    BY <1>5, <1>6, <1>8 DEF Matched
  <2>2. PICK u \in Uids : <<u, device[j].rid>> \in idmap /\ (Due(u) \/ Has(u, device[j].version))
    BY <1>1, <1>6, <2>1 DEF AInv, Matched, Working
  <2>3. u # uid
    <3>1. <<u, device[j].rid>>[1] = u /\ <<u, device[j].rid>>[2] = device[j].rid
      OBVIOUS
    <3>. QED BY <1>2, <1>6, <2>1, <2>2, <3>1
  <2>. QED BY <1>7, <2>2, <2>3
<1>14. Filed'
  <2>1. SUFFICES ASSUME ~needSlow, NEW j \in DOMAIN device', ~Excused(device[j].rid),
                        device[j].rid \in cacheFile, ~device[j].dirty
                 PROVE  \E u \in Uids :
                          /\ <<u, device[j].rid>> \in mapFile
                          /\ IF u \in DOMAIN pending' THEN pending'[u] # "added" ELSE Has(u, device[j].version)
    BY <1>1, <1>5, <1>6, <1>8 DEF Filed
  <2>2. PICK u \in Uids :
          /\ <<u, device[j].rid>> \in mapFile
          /\ IF u \in DOMAIN pending THEN pending[u] # "added" ELSE Has(u, device[j].version)
    BY <1>1, <1>6, <2>1 DEF AInv, Filed
  <2>3. <<u, device[j].rid>> \in idmap
    BY <1>1, <1>6, <2>1, <2>2, BothMaps
  <2>4. u # uid
    <3>1. <<u, device[j].rid>>[1] = u /\ <<u, device[j].rid>>[2] = device[j].rid
      OBVIOUS
    <3>. QED BY <1>2, <1>6, <2>1, <2>3, <3>1
  <2>. QED BY <1>7, <2>2, <2>4
<1>. QED BY <1>9, <1>10, <1>11, <1>12, <1>13, <1>14 DEF AInv

\* An item is written over its record.
LEMMA AgreeModified ==
  ASSUME AInv, UInv, RecInv, TInv, IdMapOneToOne,
         NEW uid \in DOMAIN pending, NEW rid \in RecordIds, CommitModified(uid, rid)
  PROVE  AInv'
<1>0. OneToOne(idmap) /\ Into(table, Slots, States) /\ uid \in Uids
  BY TypedIs DEF TInv, Typed, IdMapOneToOne, Into
<1>1. /\ phase = "commit" /\ pending[uid] = "modified" /\ GetMappedRecordId(uid, rid)
      /\ \A r \in reports : r.uid # uid
      /\ idmap' = idmap \cup {<<uid, rid>>} /\ pending' = Without(pending, uid)
      /\ UNCHANGED <<phase, table, cache, cacheFile, mapFile, host, reports, needSlow, raced, torn>>
  BY DEF CommitModified, Commit, files, history
<1>2. /\ \A p \in idmap : p[2] = rid => p[1] = uid /\ <<uid, rid>> \in idmap
      /\ \A p \in idmap : p[1] = uid => p[2] = rid /\ <<uid, rid>> \in idmap
  BY <1>0, <1>1, GetsOwnId
<1>3. PICK i \in GetIndex(rid) \cap DOMAIN device, d \in BOOLEAN :
        device' = With(device, i, [rid |-> rid, version |-> host[uid], dirty |-> d])
  BY DEF CommitModified
<1>4. i \in DOMAIN device /\ i \in DOMAIN table /\ table[i].rid = rid /\ device[i].rid = rid
  <2>1. i \in DOMAIN table /\ table[i].rid = rid
    BY <1>0, <1>3, GetIndexFinds
  <2>. QED BY <1>1, <1>3, <2>1 DEF RecInv, SameIndexes, Window
<1>5. /\ DOMAIN device' = DOMAIN device /\ device'[i].rid = rid /\ device'[i].version = host[uid]
      /\ \A j \in DOMAIN device : j # i => device'[j] = device[j]
  BY <1>3, <1>4 DEF With
<1>6. /\ \A c : Excused(c)' <=> Excused(c)
      /\ \A u, v : Has(u, v)' <=> Has(u, v)
      /\ \A u : u # uid => (Due(u) => Due(u)')
  BY <1>1 DEF Excused, Has, Due, Without
<1>7. /\ \A j \in DOMAIN device : device[j].rid = rid => j = i \/ Excused(rid)
      /\ \A j \in DOMAIN device : device'[j].rid = device[j].rid
  BY <1>1, <1>4, <1>5 DEF AInv, TableIs
<1>8. ~Excused(rid) => <<uid, rid>> \in idmap
  <2>1. ASSUME ~Excused(rid) PROVE \E u \in Uids : <<u, rid>> \in idmap
    BY <1>1, <1>4, <2>1 DEF AInv, Matched, Working
  <2>2. \A u : <<u, rid>>[2] = rid
    OBVIOUS
  <2>. QED BY <1>2, <2>1, <2>2
\* No other record is of this item.
<1>9. ASSUME NEW j \in DOMAIN device, j # i, ~Excused(device[j].rid) PROVE <<uid, device[j].rid>> \notin idmap
  <2>1. <<uid, device[j].rid>>[1] = uid /\ <<uid, device[j].rid>>[2] = device[j].rid
    OBVIOUS
  <2>. QED BY <1>2, <1>7, <1>9, <2>1
<1>10. uid \notin DOMAIN pending' /\ Has(uid, host[uid])
  BY <1>1 DEF Without, Has, TInv, PendingHost
<1>11. TableIs'
  BY <1>1, <1>5, <1>6, <1>7 DEF AInv, TableIs
<1>12. Listed'
  <2>1. RidsOf(device') = RidsOf(device)
    BY <1>5, <1>7 DEF RidsOf
  <2>. QED BY <1>1, <1>6, <2>1 DEF AInv, Listed, Working
<1>13. ReportsAgree'
  <2>1. SUFFICES ASSUME NEW r \in reports PROVE ReportAgrees(r)'
    BY <1>1 DEF ReportsAgree
  <2>2. ReportAgrees(r) /\ ReportMapped(r) /\ r.uid # uid
    BY <1>1 DEF AInv, ReportsAgree, UInv, ReportsMapped
  <2>3. r.kind # "deleted" => r.rid # rid
    <3>1. <<r.uid, r.rid>>[1] = r.uid /\ <<r.uid, r.rid>>[2] = r.rid
      OBVIOUS
    <3>. QED BY <1>2, <2>2, <3>1 DEF ReportMapped
  <2>4. r.kind # "deleted" => \A j \in DOMAIN device' : device'[j].rid = r.rid => device'[j] = device[j]
    BY <1>5, <2>3
  <2>5. <<r.uid, r.rid>> \in mapFile \cap idmap => <<r.uid, r.rid>> \in mapFile \cap idmap'
    BY <1>1
  <2>. QED BY <1>1, <1>5, <1>6, <1>7, <2>2, <2>4, <2>5 DEF ReportAgrees
<1>14. MapsAgree'
  <2>1. SUFFICES ASSUME ~needSlow, NEW j \in DOMAIN device, ~Excused(device[j].rid),
                        NEW p \in idmap', p[2] = device[j].rid, p[2] \in RidsIn(mapFile)
                 PROVE  p \in mapFile
    BY <1>1, <1>5, <1>6, <1>7 DEF MapsAgree
  <2>2. p \in idmap
    <3>1. <<uid, rid>>[2] = rid
      OBVIOUS
    <3>. QED BY <1>1, <1>8, <2>1, <3>1
  <2>. QED BY <1>1, <2>1, <2>2 DEF AInv, MapsAgree
<1>15. Matched'
  <2>1. SUFFICES ASSUME NEW j \in DOMAIN device, ~Excused(device[j].rid)
                 PROVE  \E u \in Uids : <<u, device[j].rid>> \in idmap' /\ (Due(u)' \/ Has(u, device'[j].version))
    BY <1>5, <1>6, <1>7 DEF Matched
  <2>2. CASE j = i
    BY <1>0, <1>1, <1>4, <1>5, <1>10, <2>2
  <2>3. CASE j # i
    <3>1. PICK u \in Uids : <<u, device[j].rid>> \in idmap /\ (Due(u) \/ Has(u, device[j].version))
      BY <1>1, <2>1 DEF AInv, Matched, Working
    <3>2. u # uid
      BY <1>9, <2>1, <2>3, <3>1
    <3>. QED BY <1>1, <1>5, <1>6, <2>3, <3>1, <3>2
  <2>. QED BY <2>2, <2>3
<1>16. Filed'
  <2>1. SUFFICES ASSUME ~needSlow, NEW j \in DOMAIN device, ~Excused(device[j].rid),
                        device[j].rid \in cacheFile, ~device'[j].dirty
                 PROVE  \E u \in Uids :
                          /\ <<u, device[j].rid>> \in mapFile
                          /\ IF u \in DOMAIN pending' THEN pending'[u] # "added" ELSE Has(u, device'[j].version)
    BY <1>1, <1>5, <1>6, <1>7 DEF Filed
  <2>2. CASE j = i
    <3>1. rid \in RidsIn(mapFile) /\ <<uid, rid>> \in idmap /\ <<uid, rid>>[2] = rid
      BY <1>1, <1>4, <1>8, <2>1, <2>2 DEF UInv, FileMapped
    <3>2. <<uid, rid>> \in mapFile
      BY <1>1, <1>4, <2>1, <2>2, <3>1 DEF AInv, MapsAgree
    <3>. QED BY <1>0, <1>4, <1>5, <1>10, <2>2, <3>2
  <2>3. CASE j # i
    <3>1. PICK u \in Uids :
            /\ <<u, device[j].rid>> \in mapFile
            /\ IF u \in DOMAIN pending THEN pending[u] # "added" ELSE Has(u, device[j].version)
      BY <1>1, <1>5, <2>1, <2>3 DEF AInv, Filed
    <3>2. <<u, device[j].rid>> \in idmap
      BY <1>1, <2>1, <3>1, BothMaps
    <3>3. u # uid
      BY <1>9, <2>1, <2>3, <3>2
    <3>. QED BY <1>1, <1>5, <2>3, <3>1, <3>3 DEF Without
  <2>. QED BY <2>2, <2>3
<1>. QED BY <1>11, <1>12, <1>13, <1>14, <1>15, <1>16 DEF AInv

\* An item is given a record.
LEMMA AgreeAdded ==
  ASSUME AInv, UInv, RecInv, TInv, IdMapOneToOne, FirstIds,
         NEW uid \in DOMAIN pending, NEW rid \in RecordIds, CommitAdded(uid, rid)
  PROVE  AInv'
<1>0. /\ OneToOne(idmap) /\ Into(table, Slots, States) /\ uid \in Uids
      /\ idmap \in SUBSET (Uids \X RecordIds)
  BY TypedIs DEF TInv, Typed, IdMapOneToOne, Into
<1>1. /\ phase = "commit" /\ pending[uid] = "added" /\ GetMappedRecordId(uid, rid)
      /\ \A r \in reports : r.uid # uid
      /\ idmap' = idmap \cup {<<uid, rid>>} /\ pending' = Without(pending, uid) /\ cache' = cache \cup {rid}
      /\ UNCHANGED <<phase, table, cacheFile, mapFile, host, reports, needSlow, raced, torn>>
  BY DEF CommitAdded, Commit, files
<1>2. /\ \A p \in idmap : p[2] = rid => p[1] = uid /\ <<uid, rid>> \in idmap
      /\ \A p \in idmap : p[1] = uid => p[2] = rid /\ <<uid, rid>> \in idmap
  BY <1>0, <1>1, GetsOwnId
<1>3. GetIndex(rid) = {} /\ rid \notin RidsOf(table)
  <2>1. GetIndex(rid) = {}
    BY DEF FirstIds
  <2>. QED BY <1>0, <2>1, GetIndexFinds
<1>4. PICK i \in FreeSlots : device' = With(device, i, [rid |-> rid, version |-> host[uid], dirty |-> TRUE])
  BY <1>3 DEF CommitAdded
<1>5. /\ DOMAIN device' = DOMAIN device \cup {i} /\ i \notin DOMAIN device
      /\ device'[i].rid = rid /\ device'[i].version = host[uid] /\ device'[i].dirty
      /\ \A j \in DOMAIN device : device'[j] = device[j]
  BY <1>4 DEF With, FreeSlots
<1>6. /\ \A c : Excused(c)' <=> Excused(c)
      /\ \A u, v : Has(u, v)' <=> Has(u, v)
      /\ \A u : u # uid => (Due(u) => Due(u)')
  BY <1>1 DEF Excused, Has, Due, Without
<1>7. \A j \in DOMAIN device : device[j].rid = rid => Excused(rid)
  BY <1>0, <1>1, <1>3, AddedIsNew DEF Excused
<1>8. uid \notin DOMAIN pending' /\ Has(uid, host[uid])
  BY <1>1 DEF Without, Has, TInv, PendingHost
<1>9. TableIs'
  BY <1>1, <1>3, <1>5, <1>6 DEF AInv, TableIs, RidsOf
<1>10. Listed'
  <2>1. \A c \in RidsOf(device') : c \in RidsOf(device) \/ c = rid
    BY <1>5 DEF RidsOf
  <2>. QED BY <1>1, <1>6, <2>1 DEF AInv, Listed, Working
<1>11. ReportsAgree'
  <2>1. SUFFICES ASSUME NEW r \in reports PROVE ReportAgrees(r)'
    BY <1>1 DEF ReportsAgree
  <2>2. ReportAgrees(r) /\ ReportMapped(r) /\ r.uid # uid
    BY <1>1 DEF AInv, ReportsAgree, UInv, ReportsMapped
  <2>3. r.kind # "deleted" => r.rid # rid
    <3>1. <<r.uid, r.rid>>[1] = r.uid /\ <<r.uid, r.rid>>[2] = r.rid
      OBVIOUS
    <3>. QED BY <1>2, <2>2, <3>1 DEF ReportMapped
  <2>4. r.kind # "deleted" =>
          \A j \in DOMAIN device' : device'[j].rid = r.rid => j \in DOMAIN device /\ device'[j] = device[j]
    BY <1>5, <2>3
  <2>5. <<r.uid, r.rid>> \in mapFile \cap idmap => <<r.uid, r.rid>> \in mapFile \cap idmap'
    BY <1>1
  <2>. QED BY <1>1, <1>6, <2>2, <2>4, <2>5 DEF ReportAgrees
<1>12. MapsAgree'
  <2>1. SUFFICES ASSUME ~needSlow, NEW j \in DOMAIN device', ~Excused(device'[j].rid),
                        NEW p \in idmap', p[2] = device'[j].rid, p[2] \in RidsIn(mapFile)
                 PROVE  p \in mapFile
    BY <1>1, <1>6 DEF MapsAgree
  <2>2. <<uid, rid>>[2] = rid
    OBVIOUS
  <2>3. CASE p[2] = rid
    <3>1. p = <<uid, rid>>
      <4>1. CASE p \in idmap
        BY <1>0, <1>2, <2>3, <4>1
      <4>. QED BY <1>1, <4>1
    <3>. QED BY <1>0, <1>1, <1>3, <2>1, <2>3, <3>1, UnlistedIs
  <2>4. CASE p[2] # rid
    <3>1. p \in idmap /\ j \in DOMAIN device /\ device'[j] = device[j]
      BY <1>1, <1>5, <2>1, <2>2, <2>4
    <3>. QED BY <1>1, <2>1, <3>1 DEF AInv, MapsAgree
  <2>. QED BY <2>3, <2>4
<1>13. Matched'
  <2>1. SUFFICES ASSUME NEW j \in DOMAIN device', ~Excused(device'[j].rid)
                 PROVE  \E u \in Uids : <<u, device'[j].rid>> \in idmap' /\ (Due(u)' \/ Has(u, device'[j].version))
    BY <1>6 DEF Matched
  <2>2. CASE j = i
    BY <1>0, <1>1, <1>5, <1>8, <2>2
  <2>3. CASE j # i
    <3>1. j \in DOMAIN device /\ device'[j] = device[j]
      BY <1>5, <2>3
    <3>2. PICK u \in Uids : <<u, device[j].rid>> \in idmap /\ (Due(u) \/ Has(u, device[j].version))
      BY <1>1, <2>1, <3>1 DEF AInv, Matched, Working
    <3>3. u # uid
      <4>1. <<u, device[j].rid>>[1] = u /\ <<u, device[j].rid>>[2] = device[j].rid
        OBVIOUS
      <4>. QED BY <1>2, <1>7, <2>1, <3>1, <3>2, <4>1
    <3>. QED BY <1>1, <1>6, <3>1, <3>2, <3>3
  <2>. QED BY <2>2, <2>3
<1>14. Filed'
  <2>1. SUFFICES ASSUME ~needSlow, NEW j \in DOMAIN device', ~Excused(device'[j].rid),
                        device'[j].rid \in cacheFile, ~device'[j].dirty
                 PROVE  \E u \in Uids :
                          /\ <<u, device'[j].rid>> \in mapFile
                          /\ IF u \in DOMAIN pending' THEN pending'[u] # "added" ELSE Has(u, device'[j].version)
    BY <1>1, <1>6 DEF Filed
  <2>2. j \in DOMAIN device /\ device'[j] = device[j]
    BY <1>5, <2>1
  <2>3. PICK u \in Uids :
          /\ <<u, device[j].rid>> \in mapFile
          /\ IF u \in DOMAIN pending THEN pending[u] # "added" ELSE Has(u, device[j].version)
    BY <1>1, <2>1, <2>2 DEF AInv, Filed
  <2>4. u # uid
    BY <1>1, <2>3
  <2>. QED BY <1>1, <2>2, <2>3, <2>4 DEF Without
<1>. QED BY <1>9, <1>10, <1>11, <1>12, <1>13, <1>14 DEF AInv

LEMMA AgreeCommits ==
  ASSUME AInv, UInv, RecInv, TInv, IdMapOneToOne, FirstIds, NEW uid \in DOMAIN pending, NEW rid \in RecordIds,
         \/ CommitRefused(uid, rid) \/ CommitUnparsable(uid, rid) \/ CommitFails(uid, rid)
         \/ CommitDeleted(uid, rid) \/ CommitAdded(uid, rid) \/ CommitModified(uid, rid)
  PROVE  AInv'
<1>1. CASE CommitRefused(uid, rid) \/ CommitUnparsable(uid, rid) \/ CommitFails(uid, rid)
  <2>1. /\ phase = "commit" /\ phase' = "failed"
        /\ UNCHANGED <<device, host, pending, raced, torn, cacheFile, mapFile, needSlow>>
    BY <1>1 DEF CommitRefused, CommitUnparsable, CommitFails, Commit, EndsBadly, files, history
  <2>. QED BY <2>1, AgreeEnds
<1>. QED BY <1>1, AgreeDeleted, AgreeAdded, AgreeModified

\* The table is read again: it is what the device has.
LEMMA AgreeSyncDone ==
  ASSUME AInv, UInv, sync_done
  PROVE  AInv'
<1>1. /\ phase = "commit" /\ phase' = "saving" /\ table' = CurrentTable
      /\ UNCHANGED <<device, cache, idmap, cacheFile, mapFile, host, pending, reports, needSlow, raced, torn>>
  BY DEF sync_done, GetRecordStateTable, files, engine, history
<1>2. /\ \A rid : Excused(rid)' <=> Excused(rid)
      /\ \A u, v : Has(u, v)' <=> Has(u, v)
      /\ \A u : Due(u)' <=> Due(u)
  BY <1>1 DEF Excused, Has, Due
<1>3. TableIs' /\ ReportsAgree' /\ MapsAgree'
  BY <1>1 DEF TableIs, ReportsAgree, MapsAgree
<1>4. Listed'
  <2>1. RidsOf(table') = RidsOf(device)
    BY <1>1, CurrentIs
  <2>2. \A rid \in RidsOf(device) : rid \in cache \/ Excused(rid)
    BY <1>1 DEF AInv, Listed, Working
  <2>3. \A rid \in cache : rid \in RidsOf(device) \/ Excused(rid)
    BY <1>1 DEF UInv, Present, Excused
  <2>. QED BY <1>1, <1>2, <2>1, <2>2, <2>3 DEF Listed
<1>5. Matched'
  BY <1>1, <1>2 DEF AInv, Matched, Working
<1>6. Filed'
  BY <1>1, <1>2 DEF AInv, Filed
<1>. QED BY <1>3, <1>4, <1>5, <1>6 DEF AInv

LEMMA AgreeSaves ==
  ASSUME AInv, SaveCache \/ SaveMap
  PROVE  AInv'
<1>1. /\ \/ phase = "saving" /\ phase' = "cleaning" /\ idmap' = idmap
         \/ phase = "cleaning" /\ phase' = "clearing" /\ \E S \in SUBSET Stale : idmap' = idmap \ S
      /\ UNCHANGED <<device, table, cache, host, pending, reports, needSlow, raced, torn>>
  BY DEF SaveCache, SaveMap, plugin, engine, history
<1>2. /\ \A rid : Excused(rid)' <=> Excused(rid)
      /\ \A u, v : Has(u, v)' <=> Has(u, v)
      /\ \A u : Due(u)' <=> Due(u)
  BY <1>1 DEF Excused, Has, Due
<1>3. TableIs' /\ ReportsAgree' /\ MapsAgree' /\ Filed'
  BY <1>1 DEF TableIs, ReportsAgree, MapsAgree, Filed
<1>4. Listed'
  BY <1>1, <1>2 DEF AInv, Listed, Working
<1>5. Matched'
  <2>1. SUFFICES ASSUME NEW i \in DOMAIN device, ~Excused(device[i].rid)
                 PROVE  \E u \in Uids : <<u, device[i].rid>> \in idmap' /\ (Due(u) \/ Has(u, device[i].version))
    BY <1>1, <1>2 DEF Matched
  <2>2. PICK u \in Uids : <<u, device[i].rid>> \in idmap /\ (Due(u) \/ Has(u, device[i].version))
    BY <1>1, <2>1 DEF AInv, Matched, Working
  <2>3. device[i].rid \in RidsOf(table)
    BY <1>1, <2>1 DEF AInv, Listed, RidsOf
  <2>4. <<u, device[i].rid>>[2] = device[i].rid
    OBVIOUS
  <2>5. <<u, device[i].rid>> \in idmap'
    BY <1>1, <2>2, <2>3, <2>4 DEF Stale
  <2>. QED BY <2>2, <2>5
<1>. QED BY <1>3, <1>4, <1>5 DEF AInv

\* The flags are cleared after both files are written.
LEMMA AgreeClears ==
  ASSUME AInv, NEW i, ClearDirty(i)
  PROVE  AInv'
<1>1. /\ phase = "clearing" /\ UNCHANGED <<phase, cache, idmap, host, pending, reports, raced, torn>>
  BY DEF ClearDirty, files, engine, history
<1>2. /\ DOMAIN device' = DOMAIN device
      /\ \A j \in DOMAIN device' : device'[j].rid = device[j].rid /\ device'[j].version = device[j].version
  BY DEF ClearDirty
<1>3. /\ \A rid : Excused(rid)' <=> Excused(rid)
      /\ \A u, v : Has(u, v)' <=> Has(u, v)
      /\ \A u : Due(u)' <=> Due(u)
  BY <1>1 DEF Excused, Has, Due
<1>4. TableIs' /\ ReportsAgree' /\ MapsAgree' /\ Filed'
  BY <1>1 DEF TableIs, ReportsAgree, MapsAgree, Filed
<1>5. Listed'
  <2>1. RidsOf(device') = RidsOf(device)
    BY <1>2 DEF RidsOf
  <2>. QED BY <1>1, <1>3, <2>1 DEF AInv, Listed, Working
<1>6. Matched'
  <2>1. SUFFICES ASSUME NEW j \in DOMAIN device, ~Excused(device[j].rid)
                 PROVE  \E u \in Uids : <<u, device[j].rid>> \in idmap /\ (Due(u) \/ Has(u, device[j].version))
    BY <1>1, <1>2, <1>3 DEF Matched
  <2>. QED BY <1>1, <2>1 DEF AInv, Matched
<1>. QED BY <1>4, <1>5, <1>6 DEF AInv

LEMMA AgreeSession ==
  ASSUME AInv, UInv, RecInv,
         \/ initialize \/ (\E slow \in BOOLEAN : get_changeinfo(slow))
         \/ GetChangesFails \/ sync_done \/ SaveCache \/ SaveMap \/ SaveIsCut
         \/ (\E i \in Slots : ClearDirty(i)) \/ sync_ends \/ Fails \/ finalize \/ CommitHangs
  PROVE  AInv'
<1>1. CASE initialize \/ GetChangesFails \/ SaveIsCut \/ Fails \/ finalize \/ CommitHangs \/ sync_ends
  <2>1. /\ phase' \in {"off", "ready", "failed", "hung"} /\ (torn => torn')
        /\ UNCHANGED <<device, host, pending, raced>>
        /\ \/ torn'
           \/ phase = "clearing" /\ UNCHANGED <<cacheFile, mapFile>>
           \/ phase \notin {"cleaning", "clearing"} /\ UNCHANGED <<cacheFile, mapFile, needSlow>>
    <3>1. CASE initialize
      BY <3>1 DEF initialize, files, engine, history
    <3>2. CASE GetChangesFails
      BY <3>2 DEF GetChangesFails, EndsBadly, files, history
    <3>3. CASE SaveIsCut
      BY <3>3 DEF SaveIsCut, EndsBadly
    <3>4. CASE Fails
      BY <3>4 DEF Fails, EndsBadly, files
    <3>5. CASE finalize
      BY <3>5 DEF finalize, files, history
    <3>6. CASE CommitHangs
      BY <3>6 DEF CommitHangs, files, engine, history
    <3>7. CASE sync_ends
      BY <3>7 DEF sync_ends, files
    <3>. QED BY <1>1, <3>1, <3>2, <3>3, <3>4, <3>5, <3>6, <3>7
  <2>. QED BY <2>1, AgreeEnds
<1>. QED BY <1>1, AgreeStarts, AgreeSyncDone, AgreeSaves, AgreeClears

LEMMA AgreeUsers ==
  ASSUME AInv,
         \/ \E i \in Slots : DeviceModify(i) \/ DeviceDelete(i)
         \/ \E i \in Slots, rid \in RecordIds : DeviceAdd(i, rid)
         \/ \E uid \in HostUids : HostAdd(uid)
         \/ \E uid \in Uids : HostModify(uid) \/ HostDelete(uid)
  PROVE  AInv'
<1>1. ASSUME NEW i, NEW rid, DeviceWrites(i, rid), i \in DOMAIN device => device[i].rid = rid PROVE AInv'
  <2>1. /\ UNCHANGED <<phase, table, cache, idmap, cacheFile, mapFile, host, pending, reports, needSlow, torn>>
        /\ raced \subseteq raced' /\ (phase \in Window => rid \in raced')
        /\ device' = With(device, i, [rid |-> rid, version |-> version', dirty |-> TRUE])
    BY <1>1 DEF DeviceWrites, Race, plugin, files, engine
  <2>2. /\ DOMAIN device' = DOMAIN device \cup {i} /\ device'[i].rid = rid /\ device'[i].dirty
        /\ \A j \in DOMAIN device : j # i => device'[j] = device[j]
    BY <2>1 DEF With
  <2>3. RidsOf(device) \subseteq RidsOf(device')
    BY <1>1, <2>2 DEF RidsOf
  <2>4. \A j \in DOMAIN device' :
          \/ j \in DOMAIN device /\ device'[j] = device[j]
          \/ phase \in Window /\ device'[j].rid \in raced'
          \/ phase \notin Window /\ device'[j].dirty
    BY <2>1, <2>2
  <2>. QED BY <2>1, <2>3, <2>4, AgreeDevice
<1>2. ASSUME NEW i, DeviceDelete(i) PROVE AInv'
  <2>1. /\ UNCHANGED <<phase, table, cache, idmap, cacheFile, mapFile, host, pending, reports, needSlow, torn>>
        /\ raced \subseteq raced' /\ (phase \in Window => device[i].rid \in raced')
        /\ DOMAIN device' = DOMAIN device \ {i} /\ \A j \in DOMAIN device' : device'[j] = device[j]
    BY <1>2 DEF DeviceDelete, Race, plugin, files, engine, Without
  <2>2. RidsOf(device) \subseteq RidsOf(device') \cup {device[i].rid}
    BY <2>1 DEF RidsOf
  <2>. QED BY <2>1, <2>2, AgreeDevice
<1>3. ASSUME NEW i, DeviceModify(i) PROVE AInv'
  BY <1>1, <1>3 DEF DeviceModify
<1>4. ASSUME NEW i, NEW rid, DeviceAdd(i, rid) PROVE AInv'
  BY <1>1, <1>4 DEF DeviceAdd, FreeSlots
<1>. QED BY <1>2, <1>3, <1>4, AgreeHosts

LEMMA AgreeStep ==
  ASSUME AInv, EInv, UInv, RecInv, IdMapOneToOne, [Next]_vars, lapses' = {}
  PROVE  AInv'
<1>1. TInv
  BY DEF EInv
<1>2. CASE UNCHANGED vars
  <2>1. UNCHANGED <<phase, device, table, cache, idmap, cacheFile, mapFile, host, pending, reports,
                    needSlow, torn, raced>>
    BY <1>2 DEF vars, plugin, files, engine, history
  <2>2. \A i \in DOMAIN device' : i \in DOMAIN device /\ device'[i] = device[i]
    BY <2>1
  <2>3. RidsOf(device) \subseteq RidsOf(device') \cup raced'
    BY <2>1
  <2>. QED BY <2>1, <2>2, <2>3, AgreeDevice
<1>3. CASE Next
  <2>1. FirstIds /\ FromFiles /\ (GetChanges => Unclashed)
    BY NoLapse
  <2>. QED BY <1>1, <1>3, <2>1, AgreeUsers, AgreeSession, AgreeGetChanges, AgreeEngine, AgreeCommits DEF Next
<1>. QED BY <1>2, <1>3

\* At the end of a session that went well the files have a pair for each
\* record, the item of the pair has its data, and every settled item has one.
LEMMA SessionAgrees ==
  ASSUME AInv, UInv, TInv, SettledLinked, IdMapOneToOne, sync_ends
  PROVE  Agree' \/ torn
<1>1. /\ phase = "clearing"
      /\ settled' = settled \cup {p[1] : p \in {q \in link : q[2] \in cacheFile}}
      /\ UNCHANGED <<device, host, link, raced, torn>>
  BY DEF sync_ends
<1>2. SUFFICES ASSUME ~torn PROVE Agree'
  OBVIOUS
<1>3. /\ cache = cacheFile /\ idmap = mapFile /\ reports = {} /\ DOMAIN pending = {}
      /\ OneToOne(mapFile) /\ link \in SUBSET (Uids \X RecordIds)
  BY <1>1, TypedIs DEF UInv, Loaded, Idle, IdMapOneToOne, TInv, Typed
<1>4. \A i \in DOMAIN device :
        \/ device[i].rid \in raced
        \/ \E u \in Uids : <<u, device[i].rid>> \in mapFile /\ Has(u, device[i].version)
  BY <1>1, <1>2, <1>3 DEF AInv, Matched, Due, Excused
<1>5. ASSUME NEW u \in DOMAIN host, u \in settled', \A p \in link : p[1] = u => p[2] \notin raced
      PROVE  \E i \in DOMAIN device : device[i].version = host[u]
  <2>1. PICK p \in link : p[1] = u
    BY <1>1, <1>5 DEF SettledLinked
  <2>2. p[2] \notin raced
    BY <1>5, <2>1
  <2>3. p[2] \in cacheFile /\ p \in mapFile
    <3>1. \/ p[2] \in cacheFile /\ p \in mapFile
          \/ p[2] \notin cacheFile /\ p[1] \notin settled
      BY <1>1, <1>2, <2>2 DEF UInv, Written, Excused
    <3>2. ASSUME u \notin settled PROVE p[2] \in cacheFile
      <4>1. PICK q \in link : q[2] \in cacheFile /\ q[1] = u
        BY <1>1, <1>5, <3>2
      <4>. QED BY <2>1, <4>1 DEF UInv, LinkOne
    <3>. QED BY <2>1, <3>1, <3>2
  <2>4. PICK i \in DOMAIN device : device[i].rid = p[2]
    BY <1>1, <1>2, <1>3, <2>2, <2>3 DEF AInv, Listed, Excused, RidsOf
  <2>5. PICK v \in Uids : <<v, device[i].rid>> \in mapFile /\ Has(v, device[i].version)
    BY <1>4, <2>2, <2>4
  <2>6. <<v, device[i].rid>>[1] = v /\ <<v, device[i].rid>>[2] = device[i].rid
    OBVIOUS
  <2>7. v = u
    BY <1>3, <2>1, <2>3, <2>4, <2>5, <2>6 DEF OneToOne
  <2>. QED BY <2>5, <2>7 DEF Has
<1>. QED BY <1>1, <1>4, <1>5 DEF Agree, Has

\* When a session ends well both sides hold the same data, but for records the
\* user of the device was editing: whatever was edited on both sides, lost in
\* sessions that failed, or decided by a conflict, and however slow the
\* session was, until one of the three lapses of UidKeptAlways.
THEOREM ConvergesAlways == Spec => Converges
<1> DEFINE Sound == lapses # {} \/ (UInv /\ RecInv /\ AInv)
<1>1. Init => EInv /\ SettledLinked /\ Sound
  BY EditInit, UidInit, RecordInit, AgreeInit
<1>2. Spec => []IdMapOneToOne
  BY IdMapOneToOneAlways
<1>3. EInv /\ [Next]_vars => EInv'
  BY EditStep
<1>4. SettledLinked /\ [Next]_vars => SettledLinked'
  BY SettledStep
<1>5. Sound /\ EInv /\ IdMapOneToOne /\ [Next]_vars => Sound'
  <2> SUFFICES ASSUME Sound, EInv, IdMapOneToOne, [Next]_vars, lapses' = {} PROVE UInv' /\ RecInv' /\ AInv'
    OBVIOUS
  <2>1. UInv /\ RecInv /\ AInv /\ TInv
    BY LapsesStay DEF EInv
  <2>2. RecInv'
    BY <2>1, RecordStep
  <2>3. UInv'
    BY <2>1, UidStep
  <2>4. AInv'
    BY <2>1, AgreeStep
  <2>. QED BY <2>2, <2>3, <2>4
<1>6. Sound /\ EInv /\ SettledLinked /\ IdMapOneToOne => [sync_ends => Agree' \/ torn \/ lapses # {}]_vars
  <2> SUFFICES ASSUME UInv, RecInv, AInv, EInv, SettledLinked, IdMapOneToOne, sync_ends PROVE Agree' \/ torn
    OBVIOUS
  <2>. QED BY SessionAgrees DEF EInv
<1>. QED BY <1>1, <1>2, <1>3, <1>4, <1>5, <1>6, PTL DEF Spec, Converges
=============================================================================
