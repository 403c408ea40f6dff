----------------------------- MODULE ChangeLog ------------------------------
(***************************************************************************)
(* The change log of the SQL backends of the PIM library                   *)
(* (opiepim/backend/opimchangelog_sql.cpp) under the address book          *)
(* (ocontactaccessbackend_sql.cpp).  Applications change one database; a   *)
(* synchronisation tells a peer the uids that the log names since the last *)
(* one, by a number the peer's row keeps.  One peer synchronises at a time.*)
(*                                                                         *)
(* Each SQL statement is a step: nothing opens a transaction.              *)
(***************************************************************************)
EXTENDS Integers, FiniteSetsExt

CONSTANTS
  Apps, Sync,   \* the applications, and the one that synchronises
  Peers, Uids,
  MaxChanges,   \* bound on the changes to the database
  MaxSyncs,     \* bound on the synchronisations
  MaxClears,    \* bound on clear() and purge()
  MaxFailures   \* bound on crashes and on statements that fail

ASSUME ConstantsAssumption ==
  /\ Sync \in Apps /\ IsFiniteSet(Peers)
  /\ {MaxChanges, MaxSyncs, MaxClears, MaxFailures} \subseteq Nat

NoRow == -1
Versions == 0 .. MaxChanges  \* of a record; 0: there is none

VARIABLES
  db,         \* table addressbook: the version of each record
  log,        \* table changelog
  rows,       \* table peers: lastsynclogid of each
  synced,     \* m_peersSynced of each application
  pc, uid,    \* the change an application is in the middle of
  newRecord,  \* local to addDeleteEntry
  phase,      \* of the synchronisation
  peer, slow, last,  \* m_peer, m_slowSync, m_peerLastSyncLogId
  got,        \* what that peer has read so far
  copy,       \* what each peer has, as of its last synchronisation
  missed,     \* what others were changing when that peer read, or since
  hole,       \* peers and records the log may be wrong about, see below
  changes, syncs, clears, failures

tables == <<db, log, rows>>
app == <<synced, pc, uid, newRecord>>
sync == <<phase, peer, slow, last, got, missed>>
bounds == <<changes, syncs, clears, failures>>
vars == <<tables, app, sync, copy, hole, bounds>>

Entries == [id : 1 .. MaxChanges, uid : Uids, chgtype : {"A", "U", "D"}]
LogSteps == {"logA", "findU", "logU", "findD", "logD", "insertD"}
Points == {"idle", "insert"} \cup LogSteps
Phases == {"none", "started", "read", "removed", "purge", "wiped"}

(* SELECT COALESCE(MAX(logid), 0) *)
MaxLogId == Max({0} \cup {e.id : e \in log})

(* SELECT COALESCE(MAX(lastsynclogid), 0) *)
MaxLastSync == Max({0} \cup {rows[p] : p \in Peers})

(* Mutant of SinceSync: since the oldest peer's synchronisation *)
SinceOldestSync(u) ==
  {e \in log : e.uid = u /\ \E p \in Peers : rows[p] # NoRow /\ e.id > rows[p]}

SinceSync(u) == {e \in log : e.uid = u /\ e.id > MaxLastSync}

PeersSynced == \E p \in Peers : rows[p] # NoRow

(* Mutant of Told: the removals are left out *)
ToldChangesOnly(n) == {e.uid : e \in {f \in log : f.id > n /\ f.chgtype # "D"}}

(* What a synchronisation that starts from number n tells *)
Told(n) == {e.uid : e \in {f \in log : f.id > n}}

Init ==
  /\ db = [u \in Uids |-> 0] /\ log = {} /\ rows = [p \in Peers |-> NoRow]
  /\ synced = [a \in Apps |-> FALSE]
  /\ pc = [a \in Apps |-> "idle"]
  /\ uid \in [Apps -> Uids]
  /\ newRecord = [a \in Apps |-> FALSE]
  /\ phase = "none" /\ peer \in Peers /\ slow = TRUE /\ last = 0
  /\ got = [u \in Uids |-> 0]
  /\ copy = [p \in Peers |-> [u \in Uids |-> 0]]
  /\ missed = {} /\ hole = {}
  /\ changes = 0 /\ syncs = 0 /\ clears = 0 /\ failures = 0

(***************************************************************************)
(* What the log does not cover                                             *)
(***************************************************************************)
(* Between what the peer has read and its new row *)
Window == phase \in {"read", "removed"}

(* Records that no peer can count on to be told of *)
Holes(us) ==
  /\ hole' = hole \cup Peers \X us
  /\ missed' = IF Window THEN missed \cup us ELSE missed

(* A statement of a about u, seen by the synchronisation under way *)
Seen(a, u) ==
  /\ missed' = IF Window /\ a # Sync THEN missed \cup {u} ELSE missed
  /\ UNCHANGED hole

(* Another application is in the middle of a change of u, or a peer has    *)
(* the u that is added: a uid that is used again                           *)
Clashes(a, u) == \E b \in Apps \ {a} : pc[b] # "idle" /\ uid[b] = u
UsedAgain(u) == \E p \in Peers : copy[p][u] # 0

(***************************************************************************)
(* The backend                                                             *)
(***************************************************************************)
(* load() and reload(): CREATE TABLE, update() and init() of the log *)
Load(a) ==
  /\ pc[a] = "idle"
  /\ synced' = [synced EXCEPT ![a] = PeersSynced]
  /\ UNCHANGED <<tables, pc, uid, newRecord, sync, copy, hole, bounds>>

InFlight(u) == \E a \in Apps : pc[a] # "idle" /\ uid[a] = u

Goes(a, to) == pc' = [pc EXCEPT ![a] = to]

(* A statement on the table addressbook. What is written during a          *)
(* synchronisation comes from the peer                                     *)
Writes(a, u, v) ==
  /\ db' = [db EXCEPT ![u] = v]
  /\ got' = IF a = Sync /\ phase = "read" THEN [got EXCEPT ![u] = v] ELSE got
  /\ UNCHANGED <<log, rows, synced, newRecord, phase, peer, slow, last, copy>>

Begins(a, u) ==
  /\ pc[a] = "idle" /\ changes < MaxChanges
  /\ a = Sync => phase \in {"none", "read"}
  /\ uid' = [uid EXCEPT ![a] = u]
  /\ changes' = changes + 1
  /\ UNCHANGED <<syncs, clears, failures>>

(* INSERT does nothing when there is such a uid, and add() goes on *)
Inserted(u, v) == IF db[u] = 0 THEN v ELSE db[u]

Add(a, u) ==
  /\ Begins(a, u)
  /\ Writes(a, u, Inserted(u, changes + 1))
  /\ Goes(a, "logA")
  /\ IF Clashes(a, u) \/ UsedAgain(u) THEN Holes({u}) ELSE Seen(a, u)

(* the record may be gone already *)
Remove(a, u) ==
  /\ Begins(a, u)
  /\ Writes(a, u, 0)
  /\ Goes(a, "findD")
  /\ IF Clashes(a, u) THEN Holes({u}) ELSE Seen(a, u)

(* replace(): remove() and add() with the log disabled *)
Replace(a, u) ==
  /\ Begins(a, u)
  /\ Writes(a, u, 0)
  /\ Goes(a, "insert")
  /\ IF Clashes(a, u) THEN Holes({u}) ELSE Seen(a, u)

ReplaceInserts(a) ==
  /\ pc[a] = "insert"
  /\ Writes(a, uid[a], Inserted(uid[a], changes))
  /\ Goes(a, "findU")
  /\ Seen(a, uid[a])
  /\ UNCHANGED <<uid, bounds>>

(* drop table, without a word to the log; then reload() *)
Clear(a) ==
  /\ pc[a] = "idle" /\ clears < MaxClears
  /\ a = Sync => phase = "none"
  /\ clears' = clears + 1
  /\ db' = [u \in Uids |-> 0]
  /\ synced' = [synced EXCEPT ![a] = PeersSynced]
  /\ Holes(Uids)
  /\ UNCHANGED <<log, rows, pc, uid, newRecord, phase, peer, slow, last, got, copy,
                 changes, syncs, failures>>

(***************************************************************************)
(* The log                                                                 *)
(***************************************************************************)
(* addAddEntry, addUpdateEntry and addDeleteEntry do nothing before a peer *)
(* has synchronised, as far as this application knows                      *)
Unlogged(a) ==
  /\ pc[a] \in {"logA", "findU", "findD"} /\ ~ synced[a]
  /\ Goes(a, "idle")
  /\ IF PeersSynced \/ Window THEN Holes({uid[a]}) ELSE Seen(a, uid[a])
  /\ UNCHANGED <<tables, synced, uid, newRecord, phase, peer, slow, last, got, copy,
                 bounds>>

LogStep(a, from) ==
  /\ pc[a] = from
  /\ Seen(a, uid[a])
  /\ UNCHANGED <<db, rows, synced, uid, phase, peer, slow, last, got, copy, bounds>>

(* logid INTEGER PRIMARY KEY *)
Inserts(a, type) ==
  log' = log \cup {[id |-> MaxLogId + 1, uid |-> uid[a], chgtype |-> type]}

LogAdd(a) ==
  /\ synced[a]
  /\ LogStep(a, "logA")
  /\ Inserts(a, "A")
  /\ Goes(a, "idle") /\ UNCHANGED newRecord

(* entryExists(uid, false) *)
FindUpdate(a) ==
  /\ synced[a]
  /\ LogStep(a, "findU")
  /\ Goes(a, IF \E e \in SinceSync(uid[a]) : e.chgtype \in {"U", "A"}
             THEN "idle" ELSE "logU")
  /\ UNCHANGED <<log, newRecord>>

LogUpdate(a) ==
  /\ LogStep(a, "logU")
  /\ Inserts(a, "U")
  /\ Goes(a, "idle") /\ UNCHANGED newRecord

(* entryExists(uid, true) *)
FindAdded(a) ==
  /\ synced[a]
  /\ LogStep(a, "findD")
  /\ newRecord' = [newRecord EXCEPT ![a] =
                     \E e \in SinceSync(uid[a]) : e.chgtype = "A"]
  /\ Goes(a, "logD") /\ UNCHANGED log

(* entryExists() is FALSE when its SELECT fails as well *)
FindFails(a) ==
  /\ synced[a] /\ failures < MaxFailures /\ failures' = failures + 1
  /\ \/ pc[a] = "findU" /\ Goes(a, "logU") /\ UNCHANGED newRecord
     \/ pc[a] = "findD" /\ Goes(a, "logD")
          /\ newRecord' = [newRecord EXCEPT ![a] = FALSE]
  /\ Seen(a, uid[a])
  /\ UNCHANGED <<tables, synced, uid, phase, peer, slow, last, got, copy, changes,
                 syncs, clears>>

(* "Any entries for this record since the last sync are no longer useful" *)
DeleteEntries(a) ==
  /\ LogStep(a, "logD")
  /\ log' = log \ SinceSync(uid[a])
  /\ Goes(a, IF newRecord[a] THEN "idle" ELSE "insertD") /\ UNCHANGED newRecord

LogDelete(a) ==
  /\ LogStep(a, "insertD")
  /\ Inserts(a, "D")
  /\ Goes(a, "idle") /\ UNCHANGED newRecord

(***************************************************************************)
(* Synchronisation                                                         *)
(***************************************************************************)
SyncIdle == pc[Sync] = "idle"

SyncRest == UNCHANGED <<db, pc, uid, newRecord, changes, clears, failures>>

(* SyncAccessManager::startSync(): init() and startSync() of the log;      *)
(* wanted: the caller asks for a slow one, or the SELECT fails             *)
StartSync(p, wanted) ==
  /\ phase = "none" /\ SyncIdle /\ syncs < MaxSyncs
  /\ phase' = "started" /\ peer' = p /\ syncs' = syncs + 1
  /\ slow' = (wanted \/ rows[p] = NoRow)
  /\ last' = IF slow' THEN 0 ELSE rows[p]
  /\ synced' = [synced EXCEPT ![Sync] = PeersSynced]
  /\ UNCHANGED <<log, rows, got, missed, copy, hole>> /\ SyncRest

(* The peer reads the uids and their records: all of them in a slow sync *)
SyncRead ==
  /\ phase = "started"
  /\ phase' = "read"
  /\ got' = [u \in Uids |->
               IF slow \/ u \in Told(last) THEN db[u] ELSE copy[peer][u]]
  /\ missed' = {u \in Uids : InFlight(u)}
  /\ UNCHANGED <<log, rows, synced, peer, slow, last, copy, hole, syncs>> /\ SyncRest

Abandon ==
  /\ phase \in {"started", "read"} /\ SyncIdle
  /\ phase' = "none"
  /\ UNCHANGED <<log, rows, synced, peer, slow, last, got, missed, copy, hole, syncs>>
  /\ SyncRest

(* syncDone(), first statement *)
SyncRemoveRow ==
  /\ phase = "read" /\ SyncIdle
  /\ phase' = "removed"
  /\ rows' = [rows EXCEPT ![peer] = NoRow]
  /\ UNCHANGED <<log, synced, peer, slow, last, got, missed, copy, hole, syncs>>
  /\ SyncRest

(* second statement: what the peer was told of is no hole any more, what   *)
(* others have changed since is one                                        *)
SyncInsertRow ==
  /\ phase = "removed"
  /\ phase' = "purge"
  /\ rows' = [rows EXCEPT ![peer] = MaxLogId]
  /\ synced' = [synced EXCEPT ![Sync] = TRUE]
  /\ copy' = [copy EXCEPT ![peer] = got]
  /\ hole' = {h \in hole : h[1] # peer \/ ~ (slow \/ h[2] \in Told(last))}
             \cup {peer} \X missed
  /\ UNCHANGED <<log, peer, slow, last, got, missed, syncs>> /\ SyncRest

(* Mutant of RemovePeer: it leaves the old entries *)
RemovePeerOnly(p) ==
  /\ phase = "none" /\ SyncIdle /\ rows[p] # NoRow
  /\ rows' = [rows EXCEPT ![p] = NoRow]
  /\ UNCHANGED <<log, synced, phase, peer, slow, last, got, missed, copy, hole, syncs>>
  /\ SyncRest

(* removePeer() *)
RemovePeer(p) ==
  /\ phase = "none" /\ SyncIdle /\ rows[p] # NoRow
  /\ phase' = "purge"
  /\ rows' = [rows EXCEPT ![p] = NoRow]
  /\ UNCHANGED <<log, synced, peer, slow, last, got, missed, copy, hole, syncs>>
  /\ SyncRest

(* Mutant of PurgeOldData: the entry of the lowest number goes as well *)
PurgeLast ==
  /\ phase = "purge"
  /\ phase' = "none"
  /\ log' = {e \in log : \A p \in Peers :
                (\A q \in Peers : rows[q] # NoRow => rows[p] <= rows[q])
                  /\ rows[p] # NoRow => e.id > rows[p]}
  /\ UNCHANGED <<rows, synced, peer, slow, last, got, missed, copy, hole, syncs>>
  /\ SyncRest

(* Without a row MIN is NULL, and nothing is deleted *)
PurgeOldData ==
  /\ phase = "purge"
  /\ phase' = "none"
  /\ log' = {e \in log : \A p \in Peers :
                (\A q \in Peers : rows[q] # NoRow => rows[p] <= rows[q])
                  /\ rows[p] # NoRow => e.id >= rows[p]}
  /\ UNCHANGED <<rows, synced, peer, slow, last, got, missed, copy, hole, syncs>>
  /\ SyncRest

(* purge(): both tables, one after the other *)
Purge ==
  /\ phase = "none" /\ SyncIdle /\ clears < MaxClears
  /\ clears' = clears + 1
  /\ phase' = "wiped"
  /\ log' = {}
  /\ hole' = Peers \X Uids
  /\ UNCHANGED <<db, rows, app, peer, slow, last, got, missed, copy, changes, syncs,
                 failures>>

PurgePeers ==
  /\ phase = "wiped"
  /\ phase' = "none"
  /\ rows' = [p \in Peers |-> NoRow]
  /\ UNCHANGED <<log, synced, peer, slow, last, got, missed, copy, hole, syncs>>
  /\ SyncRest

(***************************************************************************)
(* Failures                                                                *)
(***************************************************************************)
Failure(a) ==
  /\ failures < MaxFailures /\ failures' = failures + 1
  /\ Goes(a, "idle")
  /\ IF pc[a] # "idle" THEN Holes({uid[a]}) ELSE UNCHANGED <<hole, missed>>
  /\ UNCHANGED <<tables, uid, newRecord, peer, slow, last, got, copy, changes, syncs,
                 clears>>

(* The process dies, and starts again *)
Crash(a) ==
  /\ Failure(a)
  /\ synced' = [synced EXCEPT ![a] = PeersSynced]
  /\ phase' = IF a = Sync THEN "none" ELSE phase

(* A statement on the log fails, mostly because the database is locked; the*)
(* driver reports success all the same                                     *)
Busy(a) ==
  /\ pc[a] \in {"logA", "logU", "logD", "insertD"} /\ synced[a]
  /\ Failure(a)
  /\ UNCHANGED <<synced, phase>>

(* The peer gets no number, or the old entries stay: the next synchronisation*)
(* is slow, the next purge deletes more                                      *)
SyncBusy ==
  /\ failures < MaxFailures /\ failures' = failures + 1
  /\ \/ /\ phase = "removed" /\ phase' = "purge"
        /\ synced' = [synced EXCEPT ![Sync] = TRUE]
        /\ copy' = [copy EXCEPT ![peer] = got]
     \/ phase = "purge" /\ phase' = "none" /\ UNCHANGED <<synced, copy>>
  /\ UNCHANGED <<tables, pc, uid, newRecord, peer, slow, last, got, missed, hole,
                 changes, syncs, clears>>

Next ==
  \/ \E a \in Apps :
       \/ Load(a) \/ Clear(a) \/ ReplaceInserts(a)
       \/ Unlogged(a) \/ LogAdd(a) \/ FindUpdate(a) \/ LogUpdate(a)
       \/ FindAdded(a) \/ FindFails(a) \/ DeleteEntries(a) \/ LogDelete(a)
       \/ Crash(a) \/ Busy(a)
       \/ \E u \in Uids : Add(a, u) \/ Remove(a, u) \/ Replace(a, u)
  \/ \E p \in Peers : RemovePeer(p) \/ \E w \in BOOLEAN : StartSync(p, w)
  \/ SyncRead \/ Abandon \/ SyncRemoveRow \/ SyncInsertRow
  \/ PurgeOldData \/ Purge \/ PurgePeers \/ SyncBusy

Spec == Init /\ [][Next]_vars

(***************************************************************************)
(* Properties                                                              *)
(***************************************************************************)
(* The type of every variable (tables, members of OPimChangeLog_SQL, the   *)
(* points a change may be at).                                             *)
TypeOK ==
  /\ db \in [Uids -> Versions] /\ log \subseteq Entries
  /\ rows \in [Peers -> {NoRow} \cup Versions]
  /\ synced \in [Apps -> BOOLEAN] /\ newRecord \in [Apps -> BOOLEAN]
  /\ pc \in [Apps -> Points] /\ uid \in [Apps -> Uids]
  /\ phase \in Phases /\ peer \in Peers /\ slow \in BOOLEAN /\ last \in Versions
  /\ got \in [Uids -> Versions] /\ copy \in [Peers -> [Uids -> Versions]]
  /\ missed \subseteq Uids /\ hole \subseteq Peers \X Uids
  /\ changes \in 0 .. MaxChanges /\ syncs \in 0 .. MaxSyncs
  /\ clears \in 0 .. MaxClears /\ failures \in 0 .. MaxFailures
  /\ \A e, f \in log : e.id = f.id => e = f

(* "We can filter for changes since each peer last synced": whatever a     *)
(* peer's copy differs in, the log names since that peer's number, however *)
(* many other peers have synchronised, been removed or made entries        *)
(* superfluous meanwhile (opimchangelog.h:48).  But for holes: a record that *)
(* changes while the peer reads or later in the same synchronisation, that *)
(* two applications change at once, whose uid is used again, that an       *)
(* application changes which has not noticed the first synchronisation, or *)
(* whose entry a crash, a failing statement, clear() or purge() kept out   *)
(* of the log.                                                             *)
ChangesAreTold ==
  \A p \in Peers, u \in Uids :
    rows[p] # NoRow /\ copy[p][u] # db[u] /\ <<p, u>> \notin hole /\ ~ InFlight(u)
      => u \in Told(rows[p])

(* "We must leave at least one entry in the table": the next entry's number*)
(* is new to every peer (purgeOldData, addDeleteEntry).                    *)
NextIsNew ==
  \A p \in Peers : rows[p] > MaxLogId => {p} \X Uids \subseteq hole

(* "Safe to delete entries that are no longer needed by any peer": nothing *)
(* older than every peer's number stays, as long as nothing failed between *)
(* two statements (syncDone, removePeer).                                  *)
OnlyNeeded ==
  phase \in {"none", "started", "read"} /\ failures = 0 /\ PeersSynced =>
    \A e \in log :
      \E p \in Peers : rows[p] # NoRow /\ rows[p] <= e.id

(* "Only items logged as being changed after the specified peer last       *)
(* successfully synced will be returned", and no more are needed: with its *)
(* new number a peer has what the database has, but for holes              *)
(* (opimchangelog.h:104, syncDone).                                        *)
SyncedIsRight ==
  [][SyncInsertRow =>
       \A u \in Uids : <<peer, u>> \in hole' \/ copy'[peer][u] = db[u]]_vars
=============================================================================
