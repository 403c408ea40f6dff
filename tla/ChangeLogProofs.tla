-------------------------- MODULE ChangeLogProofs ---------------------------
(* The change log: ChangeLog, for any applications, peers and records and   *)
(* any number of changes, synchronisations, purges and failures.            *)
EXTENDS ChangeLog, FiniteSetTheorems, TLAPS

-----------------------------------------------------------------------------
(* The inductive invariant                                                  *)

Busies == {a \in Apps : pc[a] # "idle"}

(* Every change has one entry at most: numbers do not run out *)
Numbers ==
  /\ IsFiniteSet(Busies) /\ Cardinality(Busies) <= changes
  /\ \A e \in log : e.id + Cardinality(Busies) <= changes

(* The entry a peer's number was taken from stays as long as the number *)
RowHasEntry ==
  \A p \in Peers : rows[p] > 0 =>
    \/ \E e \in log : e.id = rows[p]
    \/ {p} \X Uids \subseteq hole /\ (failures > 0 \/ phase = "wiped")

(* Where the application that synchronises may be *)
Alone ==
  /\ phase \notin {"none", "read"} => SyncIdle
  /\ phase \in {"started", "read"} => last = IF slow THEN 0 ELSE rows[peer]

(* The log has to be right about u for p *)
Counts(p, u) == rows[p] # NoRow /\ <<p, u>> \notin hole

Changing(a, u) == pc[a] # "idle" /\ uid[a] = u

AtMostOne ==
  \A p \in Peers, u \in Uids : Counts(p, u) =>
    \A a, b \in Apps : Changing(a, u) /\ Changing(b, u) => a = b

(* A record that was added since a peer synchronised is not in its copy *)
AddedIsNew ==
  \A p \in Peers : \A e \in log :
    Counts(p, e.uid) /\ e.chgtype = "A" /\ e.id > rows[p] => copy[p][e.uid] = 0

AddingIsNew ==
  \A p \in Peers, a \in Apps :
    /\ Counts(p, uid[a])
    /\ pc[a] = "logA" \/ (pc[a] = "logD" /\ newRecord[a])
    => copy[p][uid[a]] = 0

RemovingIsGone ==
  \A p \in Peers, a \in Apps :
    Counts(p, uid[a]) /\ pc[a] \in {"findD", "logD", "insertD"} => db[uid[a]] = 0

(* What the peer has read is right unless another application has been at   *)
(* the record since, or nobody told it                                      *)
ReadIsRight ==
  Window => \A u \in Uids \ missed :
    /\ \A a \in Apps : Changing(a, u) => a = Sync
    /\ Changing(Sync, u) => got[u] = db[u]
    /\ slow \/ u \in Told(last) \/ <<peer, u>> \notin hole => got[u] = db[u]

TellingInv == AtMostOne /\ AddedIsNew /\ AddingIsNew /\ RemovingIsGone /\ ReadIsRight

IInv ==
  /\ TypeOK /\ Numbers /\ RowHasEntry /\ Alone /\ TellingInv
  /\ ChangesAreTold /\ OnlyNeeded

-----------------------------------------------------------------------------
(* Numbers                                                                  *)

LEMMA Constants ==
  /\ Sync \in Apps /\ MaxChanges \in Nat /\ MaxSyncs \in Nat
  /\ MaxClears \in Nat /\ MaxFailures \in Nat /\ NoRow = -1
  /\ Versions = 0 .. MaxChanges
BY ConstantsAssumption DEF NoRow, Versions

Less == {ss \in Nat \X Nat : ss[1] < ss[2]}

(* A set of natural numbers that is not empty has a least one *)
LEMMA Smallest ==
  ASSUME NEW T, T \subseteq Nat, T # {}
  PROVE  \E t \in T : \A y \in T : t <= y
<1>1. IsWellFoundedOn(Less, Nat)
  BY NatLessThanWellFounded DEF OpToRel, Less
<1>2. PICK t \in T : \A y \in T : ~ (<<y, t>> \in Less)
  BY <1>1, WFMin
<1>3. \A y \in T : ~ (y < t)
  BY <1>2 DEF Less
<1> QED BY <1>3

(* and one that is bounded has a largest one, which is what Max chooses *)
LEMMA MaxIsMaximum ==
  ASSUME NEW N \in Nat, NEW S \in SUBSET (-1 .. N), S # {}
  PROVE  Max(S) \in S /\ \A x \in S : x <= Max(S)
<1> DEFINE T == {N - x : x \in S}
<1>1. \A x \in S : x \in Int /\ N - x \in Nat
  OBVIOUS
<1>2. T \subseteq Nat
  BY <1>1
<1>3. T # {}
  OBVIOUS
<1>4. PICK t \in T : \A y \in T : t <= y
  <2> HIDE DEF T
  <2> QED BY <1>2, <1>3, Smallest
<1>5. PICK m \in S : t = N - m
  OBVIOUS
<1>6. ASSUME NEW x \in S PROVE m >= x
  <2>1. N - x \in T /\ m \in Int /\ x \in Int
    BY <1>1
  <2> QED BY <1>4, <1>5, <2>1
<1> QED BY <1>5, <1>6 DEF Max

(* MAX(logid) *)
LEMMA LastEntry ==
  ASSUME TypeOK
  PROVE  /\ MaxLogId \in Versions
         /\ \A e \in log : e.id \in Nat /\ e.id >= 1 /\ e.id <= MaxLogId
         /\ MaxLogId = 0 \/ \E e \in log : e.id = MaxLogId
<1> DEFINE S == {0} \cup {e.id : e \in log}
<1>1. \A e \in log : e.id \in 1 .. MaxChanges
  BY DEF TypeOK, Entries
<1>2. S \in SUBSET (-1 .. MaxChanges) /\ S # {}
  BY <1>1, Constants
<1>3. MaxLogId \in S /\ \A x \in S : x <= MaxLogId
  <2> HIDE DEF S
  <2>1. Max(S) \in S /\ \A x \in S : x <= Max(S)
    BY <1>2, Constants, MaxIsMaximum
  <2> QED BY <2>1 DEF MaxLogId, S
<1> QED BY <1>1, <1>3, Constants

(* MAX(lastsynclogid) *)
LEMMA LastSync ==
  ASSUME TypeOK
  PROVE  MaxLastSync \in Versions /\ \A p \in Peers : rows[p] <= MaxLastSync
<1> DEFINE S == {0} \cup {rows[p] : p \in Peers}
<1>1. \A p \in Peers : rows[p] \in -1 .. MaxChanges
  BY Constants DEF TypeOK
<1>2. S \in SUBSET (-1 .. MaxChanges) /\ S # {}
  BY <1>1, Constants
<1>3. MaxLastSync \in S /\ \A x \in S : x <= MaxLastSync
  <2> HIDE DEF S
  <2>1. Max(S) \in S /\ \A x \in S : x <= Max(S)
    BY <1>2, Constants, MaxIsMaximum
  <2> QED BY <2>1 DEF MaxLastSync, S
<1> QED BY <1>1, <1>3, Constants

LEMMA Ranges ==
  ASSUME TypeOK
  PROVE  /\ MaxLogId \in Int /\ MaxLastSync \in Int
         /\ \A p \in Peers : rows[p] \in Int /\ rows[p] >= -1 /\ (rows[p] # NoRow => rows[p] >= 0)
         /\ \A e \in log : e.id \in Int
<1>1. MaxLogId \in Int /\ MaxLastSync \in Int /\ \A e \in log : e.id \in Int
  BY LastEntry, LastSync, Constants
<1>2. \A p \in Peers : rows[p] \in Int /\ rows[p] >= -1 /\ (rows[p] # NoRow => rows[p] >= 0)
  BY Constants DEF TypeOK
<1> QED BY <1>1, <1>2

(* MIN(lastsynclogid): purgeOldData compares with a peer's number *)
LEMMA SlowestPeer ==
  ASSUME TypeOK, PeersSynced
  PROVE  \E p \in Peers :
           rows[p] # NoRow /\ \A q \in Peers : rows[q] # NoRow => rows[p] <= rows[q]
<1> DEFINE T == {rows[p] : p \in {q \in Peers : rows[q] # NoRow}}
<1>1. \A p \in Peers : rows[p] # NoRow => rows[p] \in Nat
  BY Constants DEF TypeOK
<1>2. T \subseteq Nat /\ T # {}
  BY <1>1 DEF PeersSynced
<1>3. PICK t \in T : \A y \in T : t <= y
  <2> HIDE DEF T
  <2> QED BY <1>2, Smallest
<1> QED BY <1>3

(* The next number is above those of the peers that count *)
LEMMA NextNumber ==
  ASSUME TypeOK, RowHasEntry
  PROVE  /\ \A p \in Peers, u \in Uids : Counts(p, u) => rows[p] <= MaxLogId
         /\ failures = 0 /\ phase # "wiped" => \A p \in Peers : rows[p] <= MaxLogId
<1>1. \A p \in Peers : rows[p] \in Int
  BY Constants DEF TypeOK
<1>2. \A p \in Peers : rows[p] <= 0 => rows[p] <= MaxLogId
  BY <1>1, LastEntry, Constants
<1>3. \A p \in Peers : (\E e \in log : e.id = rows[p]) => rows[p] <= MaxLogId
  BY LastEntry
<1>4. failures \in Nat /\ ~ (failures > 0 /\ failures = 0)
  BY Constants DEF TypeOK
<1> QED BY <1>1, <1>2, <1>3, <1>4 DEF RowHasEntry, Counts

-----------------------------------------------------------------------------
(* The kinds of steps                                                       *)

(* a begins to change u with a statement on the data *)
Begun(a, u, v, to) ==
  /\ Begins(a, u) /\ Writes(a, u, v) /\ Goes(a, to)
  /\ Holes({u}) \/ (Seen(a, u) /\ ~ Clashes(a, u) /\ (to = "logA" => ~ UsedAgain(u)))
  /\ to = "findD" => v = 0

(* a enters what it has changed and is done *)
Entered(a, type) ==
  /\ pc[a] # "idle"
  /\ pc[a] = "logA" \/ type # "A"
  /\ LogStep(a, pc[a])
  /\ Inserts(a, type)
  /\ Goes(a, "idle") /\ UNCHANGED newRecord

(* a stops, and whatever it was at counts for no peer any more *)
Dropped(a) ==
  /\ Goes(a, "idle")
  /\ \/ Holes({uid[a]})
     \/ (pc[a] = "idle" \/ (~ PeersSynced /\ ~ Window)) /\ UNCHANGED <<hole, missed>>
  /\ phase' = phase \/ (a = Sync /\ phase' = "none" /\ failures' > 0)
  /\ synced' \in [Apps -> BOOLEAN]
  /\ failures' \in failures .. MaxFailures
  /\ UNCHANGED <<tables, uid, newRecord, peer, slow, last, got, copy, changes, syncs,
                 clears>>

LEMMA AddBegins ==
  ASSUME TypeOK, NEW a \in Apps, NEW u \in Uids, Add(a, u)
  PROVE  \E v \in Versions : Begun(a, u, v, "logA")
<1>1. Inserted(u, changes + 1) \in Versions
  BY Constants DEF TypeOK, Inserted, Add, Begins
<1>2. Begun(a, u, Inserted(u, changes + 1), "logA")
  BY DEF Add, Begun
<1> QED BY <1>1, <1>2

LEMMA RemoveBegins ==
  ASSUME NEW a \in Apps, NEW u \in Uids, Remove(a, u)
  PROVE  \E v \in Versions : Begun(a, u, v, "findD")
<1>1. 0 \in Versions
  BY Constants
<1>2. Begun(a, u, 0, "findD")
  BY DEF Remove, Begun
<1> QED BY <1>1, <1>2

LEMMA ReplaceBegins ==
  ASSUME NEW a \in Apps, NEW u \in Uids, Replace(a, u)
  PROVE  \E v \in Versions : Begun(a, u, v, "insert")
<1>1. 0 \in Versions
  BY Constants
<1>2. Begun(a, u, 0, "insert")
  BY DEF Replace, Begun
<1> QED BY <1>1, <1>2

LEMMA EntrySteps ==
  ASSUME NEW a \in Apps, LogAdd(a) \/ LogUpdate(a) \/ LogDelete(a)
  PROVE  \E type \in {"A", "U", "D"} : Entered(a, type)
<1>1. CASE LogAdd(a)
  BY <1>1 DEF LogAdd, Entered, LogStep
<1>2. CASE LogUpdate(a)
  BY <1>2 DEF LogUpdate, Entered, LogStep
<1>3. CASE LogDelete(a)
  BY <1>3 DEF LogDelete, Entered, LogStep
<1> QED BY <1>1, <1>2, <1>3

LEMMA DropSteps ==
  ASSUME TypeOK, NEW a \in Apps, Unlogged(a) \/ Crash(a) \/ Busy(a)
  PROVE  Dropped(a)
<1> USE Constants DEF Dropped, TypeOK
<1>1. CASE Unlogged(a)
  <2>1. Holes({uid[a]}) \/ (~ PeersSynced /\ ~ Window /\ UNCHANGED <<hole, missed>>)
    BY <1>1 DEF Unlogged, Seen
  <2> QED BY <1>1, <2>1 DEF Unlogged, bounds
<1>2. CASE Crash(a)
  <2>1. synced' \in [Apps -> BOOLEAN]
    BY <1>2 DEF Crash, PeersSynced
  <2>2. failures' \in failures .. MaxFailures /\ failures' > 0
    BY <1>2 DEF Crash, Failure
  <2>3. phase' = phase \/ (a = Sync /\ phase' = "none")
    BY <1>2 DEF Crash
  <2> QED BY <1>2, <2>1, <2>2, <2>3 DEF Crash, Failure
<1>3. CASE Busy(a)
  <2>1. failures' \in failures .. MaxFailures
    BY <1>3 DEF Busy, Failure
  <2> QED BY <1>3, <2>1 DEF Busy, Failure
<1> QED BY <1>1, <1>2, <1>3

-----------------------------------------------------------------------------
(* Changes of the data                                                      *)

(* The proofs about Numbers count the applications that are at a change *)
LEMMA OneMore ==
  ASSUME IsFiniteSet(Busies), NEW a \in Apps, pc[a] = "idle", NEW to, to # "idle",
         pc \in [Apps -> Points], Goes(a, to)
  PROVE  IsFiniteSet(Busies') /\ Cardinality(Busies') = Cardinality(Busies) + 1
<1>1. Busies' = Busies \cup {a} /\ a \notin Busies
  BY DEF Busies, Goes
<1> QED BY <1>1, FS_AddElement

LEMMA OneLess ==
  ASSUME IsFiniteSet(Busies), NEW a \in Apps, pc[a] # "idle",
         pc \in [Apps -> Points], Goes(a, "idle")
  PROVE  IsFiniteSet(Busies') /\ Cardinality(Busies') = Cardinality(Busies) - 1
<1>1. Busies' = Busies \ {a} /\ a \in Busies
  BY DEF Busies, Goes
<1> QED BY <1>1, FS_RemoveElement

LEMMA AsMany ==
  ASSUME NEW a \in Apps, pc[a] # "idle", NEW to, to # "idle",
         pc \in [Apps -> Points], Goes(a, to)
  PROVE  Busies' = Busies
BY DEF Busies, Goes

LEMMA BusyCount ==
  ASSUME IsFiniteSet(Busies)
  PROVE  Cardinality(Busies) \in Nat
BY FS_CardinalityType

LEMMA BegunKeeps ==
  ASSUME IInv, NEW a \in Apps, NEW u \in Uids, NEW v \in Versions,
         NEW to \in {"logA", "findD", "insert"}, Begun(a, u, v, to)
  PROVE  IInv'
<1>1. /\ pc[a] = "idle" /\ pc' = [pc EXCEPT ![a] = to] /\ uid' = [uid EXCEPT ![a] = u]
      /\ changes < MaxChanges /\ changes' = changes + 1 /\ (a = Sync => phase \in {"none", "read"})
      /\ db' = [db EXCEPT ![u] = v]
      /\ got' = IF a = Sync /\ phase = "read" THEN [got EXCEPT ![u] = v] ELSE got
      /\ UNCHANGED <<log, rows, synced, newRecord, phase, peer, slow, last, copy,
                     syncs, clears, failures>>
  BY DEF Begun, Begins, Writes, Goes
<1>2. /\ hole \subseteq hole' /\ hole' \subseteq Peers \X Uids /\ missed' \subseteq Uids
      /\ Window => missed \subseteq missed' /\ (a # Sync => u \in missed')
  BY DEF Begun, Holes, Seen, IInv, TypeOK
<1>3. \A p \in Peers : <<p, u>> \notin hole' => ~ Clashes(a, u) /\ (to = "logA" => copy[p][u] = 0)
  BY DEF Begun, Holes, Seen, UsedAgain
<1>4. TypeOK'
  <2>1. /\ db' \in [Uids -> Versions] /\ got' \in [Uids -> Versions]
        /\ pc' \in [Apps -> Points] /\ uid' \in [Apps -> Uids]
    BY <1>1 DEF IInv, TypeOK, Points, LogSteps
  <2>2. changes' \in 0 .. MaxChanges
    BY <1>1, Constants DEF IInv, TypeOK
  <2>3. /\ log' \subseteq Entries /\ \A e, f \in log' : e.id = f.id => e = f
    BY <1>1 DEF IInv, TypeOK
  <2> QED BY <1>1, <1>2, <2>1, <2>2, <2>3 DEF IInv, TypeOK
<1>5. Numbers'
  <2>1. IsFiniteSet(Busies') /\ Cardinality(Busies') = Cardinality(Busies) + 1
    BY <1>1, OneMore DEF IInv, TypeOK, Numbers, Goes
  <2> QED BY <1>1, <2>1, BusyCount DEF IInv, TypeOK, Numbers, Entries
<1>6. RowHasEntry'
  BY <1>1, <1>2 DEF IInv, RowHasEntry
<1>7. Alone'
  BY <1>1, Constants DEF IInv, TypeOK, Alone, SyncIdle
<1>8. \A p \in Peers, w \in Uids : Counts(p, w)' => Counts(p, w)
  BY <1>1, <1>2 DEF Counts
<1>9. \A p \in Peers, b \in Apps : Counts(p, u)' /\ Changing(b, u)' => b = a
  BY <1>1, <1>3 DEF Counts, Clashes, Changing, IInv, TypeOK
<1>10. \A w \in Uids \ {u}, b \in Apps : Changing(b, w)' => Changing(b, w)
  BY <1>1 DEF Changing, IInv, TypeOK
<1>11. AtMostOne'
  BY <1>8, <1>9, <1>10 DEF IInv, TellingInv, AtMostOne
<1>12. AddedIsNew'
  BY <1>1, <1>8 DEF IInv, TellingInv, AddedIsNew, TypeOK, Entries
<1>13. AddingIsNew'
  BY <1>1, <1>3, <1>8 DEF IInv, TellingInv, AddingIsNew, TypeOK, Counts
<1>14. RemovingIsGone'
  <2> SUFFICES ASSUME NEW p \in Peers, NEW b \in Apps, Counts(p, uid[b])',
                      pc'[b] \in {"findD", "logD", "insertD"}
               PROVE  db'[uid'[b]] = 0
    BY DEF RemovingIsGone
  <2>1. CASE b = a
    BY <1>1, <2>1 DEF Begun, IInv, TypeOK
  <2>2. CASE b # a
    <3>1. uid'[b] # u
      BY <1>1, <1>9, <2>2 DEF Changing, IInv, TypeOK
    <3> QED BY <1>1, <1>8, <2>2, <3>1 DEF IInv, TellingInv, RemovingIsGone, TypeOK
  <2> QED BY <2>1, <2>2
<1>15. ReadIsRight'
  <2> SUFFICES ASSUME Window, NEW w \in Uids \ missed'
               PROVE  /\ \A b \in Apps : Changing(b, w)' => b = Sync
                      /\ Changing(Sync, w)' => got'[w] = db'[w]
                      /\ slow \/ w \in Told(last) \/ <<peer, w>> \notin hole' => got'[w] = db'[w]
    BY <1>1 DEF ReadIsRight, Window, Told
  <2>1. w \notin missed /\ (w = u => a = Sync)
    BY <1>2
  <2>2. CASE w = u
    <3>1. a = Sync /\ phase = "read"
      BY <1>1, <2>1, <2>2 DEF Window
    <3>2. got'[w] = db'[w]
      BY <1>1, <2>2, <3>1 DEF IInv, TypeOK
    <3> QED BY <1>1, <2>1, <2>2, <3>1, <3>2 DEF IInv, TellingInv, ReadIsRight, Changing, TypeOK
  <2>3. CASE w # u
    <3>1. got'[w] = got[w] /\ db'[w] = db[w]
      BY <1>1, <2>3 DEF IInv, TypeOK
    <3> QED BY <1>2, <1>10, <2>1, <2>3, <3>1, Constants DEF IInv, TellingInv, ReadIsRight
  <2> QED BY <2>2, <2>3
<1>16. ChangesAreTold'
  <2> SUFFICES ASSUME NEW p \in Peers, NEW w \in Uids, Counts(p, w)',
                      copy'[p][w] # db'[w], ~ InFlight(w)'
               PROVE  w \in Told(rows[p])'
    BY DEF ChangesAreTold, Counts
  <2>1. w # u
    BY <1>1 DEF InFlight, IInv, TypeOK
  <2>2. ~ InFlight(w)
    BY <1>1, <2>1 DEF InFlight, IInv, TypeOK
  <2>3. copy[p][w] # db[w] /\ Counts(p, w)
    BY <1>1, <1>8, <2>1 DEF IInv, TypeOK
  <2> QED BY <1>1, <2>2, <2>3 DEF IInv, ChangesAreTold, Counts, Told
<1>17. OnlyNeeded'
  BY <1>1 DEF IInv, OnlyNeeded, PeersSynced
<1> QED BY <1>4, <1>5, <1>6, <1>7, <1>11, <1>12, <1>13, <1>14, <1>15, <1>16, <1>17
        DEF IInv, TellingInv

LEMMA ReplaceInsertsKeeps ==
  ASSUME IInv, NEW a \in Apps, ReplaceInserts(a)
  PROVE  IInv'
<1> DEFINE u == uid[a]
           v == Inserted(u, changes)
<1>1. /\ pc[a] = "insert" /\ pc' = [pc EXCEPT ![a] = "findU"]
      /\ db' = [db EXCEPT ![u] = v]
      /\ got' = IF a = Sync /\ phase = "read" THEN [got EXCEPT ![u] = v] ELSE got
      /\ missed' = IF Window /\ a # Sync THEN missed \cup {u} ELSE missed
      /\ UNCHANGED <<log, rows, synced, uid, newRecord, phase, peer, slow, last, copy, hole,
                     changes, syncs, clears, failures>>
  BY DEF ReplaceInserts, Writes, Goes, Seen, bounds
<1>2. u \in Uids /\ v \in Versions
  BY Constants DEF IInv, TypeOK, Inserted
<1> HIDE DEF v
<1>3. TypeOK'
  <2>1. /\ db' \in [Uids -> Versions] /\ got' \in [Uids -> Versions]
        /\ pc' \in [Apps -> Points] /\ missed' \subseteq Uids
    BY <1>1, <1>2 DEF IInv, TypeOK, Points, LogSteps
  <2>2. /\ log' \subseteq Entries /\ \A e, f \in log' : e.id = f.id => e = f
    BY <1>1 DEF IInv, TypeOK
  <2> QED BY <1>1, <2>1, <2>2 DEF IInv, TypeOK
<1>4. Numbers'
  <2>1. Busies' = Busies
    BY <1>1, AsMany DEF IInv, TypeOK, Goes
  <2> QED BY <1>1, <2>1 DEF IInv, Numbers
<1>5. RowHasEntry' /\ Alone'
  BY <1>1, Constants DEF IInv, TypeOK, RowHasEntry, Alone, SyncIdle
<1>6. \A b \in Apps, w \in Uids : Changing(b, w)' <=> Changing(b, w)
  BY <1>1 DEF Changing, IInv, TypeOK
<1>7. AtMostOne' /\ AddedIsNew' /\ AddingIsNew'
  <2>1. AtMostOne'
    BY <1>1, <1>6 DEF IInv, TellingInv, AtMostOne, Counts
  <2>2. AddedIsNew'
    BY <1>1 DEF IInv, TellingInv, AddedIsNew, Counts
  <2>3. AddingIsNew'
    BY <1>1 DEF IInv, TellingInv, AddingIsNew, Counts, TypeOK
  <2> QED BY <2>1, <2>2, <2>3
<1>8. RemovingIsGone'
  <2> SUFFICES ASSUME NEW p \in Peers, NEW b \in Apps, Counts(p, uid[b]),
                      pc'[b] \in {"findD", "logD", "insertD"}
               PROVE  db'[uid[b]] = 0
    BY <1>1 DEF RemovingIsGone, Counts
  <2>1. b # a /\ pc[b] = pc'[b]
    BY <1>1 DEF IInv, TypeOK
  <2>2. uid[b] # u
    BY <1>1, <1>2, <2>1 DEF IInv, TellingInv, AtMostOne, Changing
  <2> QED BY <1>1, <2>1, <2>2 DEF IInv, TellingInv, RemovingIsGone, TypeOK
<1>9. ReadIsRight'
  <2> SUFFICES ASSUME Window, NEW w \in Uids \ missed'
               PROVE  /\ \A b \in Apps : Changing(b, w)' => b = Sync
                      /\ Changing(Sync, w)' => got'[w] = db'[w]
                      /\ slow \/ w \in Told(last) \/ <<peer, w>> \notin hole => got'[w] = db'[w]
    BY <1>1 DEF ReadIsRight, Window, Told
  <2>1. w \notin missed /\ (w = u => a = Sync)
    BY <1>1
  <2>2. CASE w = u
    <3>1. a = Sync /\ phase = "read"
      BY <1>1, <2>1, <2>2, Constants DEF Window, IInv, Alone, SyncIdle
    <3>2. got'[w] = db'[w]
      BY <1>1, <2>2, <3>1 DEF IInv, TypeOK
    <3> QED BY <1>6, <2>1, <3>2 DEF IInv, TellingInv, ReadIsRight
  <2>3. CASE w # u
    <3>1. got'[w] = got[w] /\ db'[w] = db[w]
      BY <1>1, <2>3 DEF IInv, TypeOK
    <3> QED BY <1>6, <2>1, <3>1, Constants DEF IInv, TellingInv, ReadIsRight
  <2> QED BY <2>2, <2>3
<1>10. ChangesAreTold'
  <2> SUFFICES ASSUME NEW p \in Peers, NEW w \in Uids, Counts(p, w),
                      copy[p][w] # db'[w], ~ InFlight(w)'
               PROVE  w \in Told(rows[p])
    BY <1>1 DEF ChangesAreTold, Counts, Told
  <2>1. w # u /\ ~ InFlight(w)
    BY <1>1 DEF InFlight, IInv, TypeOK
  <2>2. db'[w] = db[w]
    BY <1>1, <2>1 DEF IInv, TypeOK
  <2> QED BY <2>1, <2>2 DEF IInv, ChangesAreTold, Counts
<1>11. OnlyNeeded'
  BY <1>1 DEF IInv, OnlyNeeded, PeersSynced
<1> QED BY <1>3, <1>4, <1>5, <1>7, <1>8, <1>9, <1>10, <1>11 DEF IInv, TellingInv

-----------------------------------------------------------------------------
(* The log                                                                  *)

(* Whatever a does to the log is about the record it is changing *)
LEMMA ChangeGoesOn ==
  ASSUME IInv, NEW a \in Apps, pc[a] # "idle", NEW to \in Points, Goes(a, to),
         Seen(a, uid[a]),
         UNCHANGED <<db, rows, synced, uid, phase, peer, slow, last, got, copy>>,
         to \in {"findD", "logD", "insertD"} => pc[a] \in {"findD", "logD", "insertD"},
         \A e \in log \cup log' : e.uid # uid[a] => (e \in log <=> e \in log')
  PROVE  /\ uid[a] \in Uids
         /\ pc' = [pc EXCEPT ![a] = to] /\ pc' \in [Apps -> Points] /\ missed' \subseteq Uids
         /\ UNCHANGED hole
         /\ \A p \in Peers, w \in Uids : Counts(p, w)' <=> Counts(p, w)
         /\ Alone' /\ AtMostOne' /\ RemovingIsGone' /\ ReadIsRight'
         /\ \A p \in Peers, w \in Uids \ {uid[a]} :
              /\ Counts(p, w) /\ copy[p][w] # db[w] /\ ~ InFlight(w)' => w \in Told(rows[p])'
<1> DEFINE u == uid[a]
<1>1. /\ pc' = [pc EXCEPT ![a] = to]
      /\ missed' = IF Window /\ a # Sync THEN missed \cup {u} ELSE missed
      /\ UNCHANGED <<db, rows, synced, uid, phase, peer, slow, last, got, copy, hole>>
  BY DEF Goes, Seen
<1>2. u \in Uids /\ pc' \in [Apps -> Points] /\ missed' \subseteq Uids
  BY <1>1 DEF IInv, TypeOK
<1>3. \A p \in Peers, w \in Uids : Counts(p, w)' <=> Counts(p, w)
  BY <1>1 DEF Counts
<1>4. \A b \in Apps, w \in Uids : Changing(b, w)' => Changing(b, w)
  BY <1>1 DEF Changing, IInv, TypeOK
<1>5. Alone'
  BY <1>1, Constants DEF IInv, TypeOK, Alone, SyncIdle
<1>6. AtMostOne'
  BY <1>3, <1>4 DEF IInv, TellingInv, AtMostOne
<1>7. RemovingIsGone'
  BY <1>1, <1>3 DEF IInv, TellingInv, RemovingIsGone, TypeOK
<1>8. \A w \in Uids \ {u} : \A n : w \in Told(n)' <=> w \in Told(n)
  BY <1>1 DEF Told
<1>9. ReadIsRight'
  <2> SUFFICES ASSUME Window, NEW w \in Uids \ missed'
               PROVE  /\ \A b \in Apps : Changing(b, w)' => b = Sync
                      /\ Changing(Sync, w)' => got[w] = db[w]
                      /\ slow \/ w \in Told(last)' \/ <<peer, w>> \notin hole => got[w] = db[w]
    BY <1>1 DEF ReadIsRight, Window, Told
  <2>1. w \notin missed /\ (w = u => a = Sync)
    BY <1>1
  <2>2. CASE w = u
    <3>1. Changing(Sync, w)
      BY <2>1, <2>2 DEF Changing
    <3> QED BY <1>4, <2>1, <3>1, Constants DEF IInv, TellingInv, ReadIsRight
  <2>3. CASE w # u
    <3>1. w \in Told(last)' <=> w \in Told(last)
      BY <1>1, <1>8, <2>3 DEF Told
    <3> QED BY <1>4, <2>1, <3>1, Constants DEF IInv, TellingInv, ReadIsRight
  <2> QED BY <2>2, <2>3
<1>10. ASSUME NEW p \in Peers, NEW w \in Uids \ {u}, Counts(p, w), copy[p][w] # db[w],
              ~ InFlight(w)'
       PROVE  w \in Told(rows[p])'
  <2>1. ~ InFlight(w)
    BY <1>1, <1>10 DEF InFlight, IInv, TypeOK
  <2>2. w \in Told(rows[p])
    BY <1>10, <2>1 DEF IInv, ChangesAreTold, Counts
  <2> QED BY <1>1, <1>8, <2>2
<1> QED BY <1>1, <1>2, <1>3, <1>5, <1>6, <1>7, <1>9, <1>10

LEMMA LogStepKeeps ==
  ASSUME IInv, NEW a \in Apps, pc[a] # "idle", NEW to \in Points, LogStep(a, pc[a]), Goes(a, to),
         to \in {"findD", "logD", "insertD"} => pc[a] \in {"findD", "logD", "insertD"},
         \A e \in log \cup log' : e.uid # uid[a] => (e \in log <=> e \in log')
  PROVE  /\ uid[a] \in Uids
         /\ pc' = [pc EXCEPT ![a] = to] /\ pc' \in [Apps -> Points] /\ missed' \subseteq Uids
         /\ UNCHANGED <<db, rows, synced, uid, phase, peer, slow, last, got, copy, hole,
                        changes, syncs, clears, failures>>
         /\ \A p \in Peers, w \in Uids : Counts(p, w)' <=> Counts(p, w)
         /\ Alone' /\ AtMostOne' /\ RemovingIsGone' /\ ReadIsRight'
         /\ \A p \in Peers, w \in Uids \ {uid[a]} :
              /\ Counts(p, w) /\ copy[p][w] # db[w] /\ ~ InFlight(w)' => w \in Told(rows[p])'
<1>1. /\ Seen(a, uid[a])
      /\ UNCHANGED <<db, rows, synced, uid, phase, peer, slow, last, got, copy,
                     changes, syncs, clears, failures>>
  BY DEF LogStep, bounds
<1> QED BY <1>1, ChangeGoesOn

LEMMA EnteredKeeps ==
  ASSUME IInv, NEW a \in Apps, NEW type \in {"A", "U", "D"}, Entered(a, type)
  PROVE  IInv'
<1> DEFINE u == uid[a]
           n == [id |-> MaxLogId + 1, uid |-> u, chgtype |-> type]
<1>1. /\ pc[a] # "idle" /\ (pc[a] = "logA" \/ type # "A") /\ newRecord' = newRecord
      /\ log' = log \cup {n}
  BY DEF Entered, Inserts
<1>2. /\ u \in Uids
      /\ pc' = [pc EXCEPT ![a] = "idle"] /\ pc' \in [Apps -> Points] /\ missed' \subseteq Uids
      /\ UNCHANGED <<db, rows, synced, uid, phase, peer, slow, last, got, copy, hole,
                     changes, syncs, clears, failures>>
      /\ \A p \in Peers, w \in Uids : Counts(p, w)' <=> Counts(p, w)
      /\ Alone' /\ AtMostOne' /\ RemovingIsGone' /\ ReadIsRight'
      /\ \A p \in Peers, w \in Uids \ {u} :
           /\ Counts(p, w) /\ copy[p][w] # db[w] /\ ~ InFlight(w)' => w \in Told(rows[p])'
  <2>1. "idle" \in Points /\ LogStep(a, pc[a]) /\ Goes(a, "idle")
    BY DEF Entered, Points
  <2>2. \A e \in log \cup log' : e.uid # uid[a] => (e \in log <=> e \in log')
    BY <1>1
  <2> QED BY <1>1, <2>1, <2>2, LogStepKeeps
<1>3. /\ IsFiniteSet(Busies') /\ Cardinality(Busies') = Cardinality(Busies) - 1
      /\ Cardinality(Busies) \in Nat /\ Cardinality(Busies') \in Nat
  <2>1. Goes(a, "idle")
    BY DEF Entered
  <2>2. IsFiniteSet(Busies') /\ Cardinality(Busies') = Cardinality(Busies) - 1
    BY <1>1, <2>1, OneLess DEF IInv, Numbers, TypeOK
  <2> QED BY <2>2, FS_CardinalityType DEF IInv, Numbers
<1>4. MaxLogId + Cardinality(Busies) <= changes /\ changes \in 0 .. MaxChanges
  <2>1. CASE MaxLogId = 0
    BY <1>3, <2>1 DEF IInv, Numbers, TypeOK
  <2>2. CASE MaxLogId # 0
    BY <2>2, LastEntry DEF IInv, Numbers, TypeOK
  <2> QED BY <2>1, <2>2
<1>5. n \in Entries /\ n.id + Cardinality(Busies') <= changes
  BY <1>2, <1>3, <1>4, LastEntry, Constants DEF IInv, Entries
<1>6. \A e \in log : e.id < n.id
  BY LastEntry, Constants DEF IInv
<1>7. TypeOK'
  <2>1. log' \subseteq Entries
    BY <1>1, <1>5 DEF IInv, TypeOK
  <2>2. \A e, f \in log' : e.id = f.id => e = f
    <3>1. \A e \in log : e.id # n.id
      BY <1>6, LastEntry, Constants DEF IInv
    <3> QED BY <1>1, <3>1 DEF IInv, TypeOK
  <2> QED BY <1>1, <1>2, <2>1, <2>2 DEF IInv, TypeOK
<1>8. Numbers'
  BY <1>1, <1>2, <1>3, <1>4, <1>5, LastEntry, Constants DEF IInv, Numbers
<1>9. RowHasEntry'
  BY <1>1, <1>2 DEF IInv, RowHasEntry
<1>10. AddedIsNew'
  <2> SUFFICES ASSUME NEW p \in Peers, NEW e \in log', Counts(p, e.uid),
                      e.chgtype = "A", e.id > rows[p]
               PROVE  copy[p][e.uid] = 0
    BY <1>2 DEF AddedIsNew, Counts
  <2>1. CASE e \in log
    BY <2>1 DEF IInv, TellingInv, AddedIsNew
  <2>2. CASE e = n
    BY <1>1, <2>2 DEF IInv, TellingInv, AddingIsNew
  <2> QED BY <1>1, <2>1, <2>2
<1>11. AddingIsNew'
  BY <1>1, <1>2 DEF IInv, TellingInv, AddingIsNew, TypeOK
<1>12. ChangesAreTold'
  <2> SUFFICES ASSUME NEW p \in Peers, NEW w \in Uids, Counts(p, w),
                      copy[p][w] # db[w], ~ InFlight(w)'
               PROVE  w \in Told(rows[p])'
    BY <1>2 DEF ChangesAreTold, Counts
  <2>1. CASE w = u
    <3>1. rows[p] <= MaxLogId /\ rows[p] \in Int /\ MaxLogId \in Int
      <4>1. rows[p] <= MaxLogId
        BY NextNumber DEF IInv
      <4> QED BY <4>1, Ranges DEF IInv
    <3>2. n.id > rows[p] /\ n \in log'
      BY <1>1, <3>1
    <3> QED BY <1>2, <2>1, <3>2 DEF Told
  <2>2. CASE w # u
    BY <1>2, <2>2
  <2> QED BY <2>1, <2>2
<1>13. OnlyNeeded'
  <2> SUFFICES ASSUME phase \in {"none", "started", "read"}, failures = 0, PeersSynced,
                      NEW e \in log'
               PROVE  \E p \in Peers : rows[p] # NoRow /\ rows[p] <= e.id
    BY <1>2 DEF OnlyNeeded, PeersSynced
  <2>1. CASE e \in log
    BY <2>1 DEF IInv, OnlyNeeded
  <2>2. CASE e = n
    <3>1. PICK p \in Peers : rows[p] # NoRow
      BY DEF PeersSynced
    <3>2. rows[p] <= MaxLogId
      BY NextNumber DEF IInv
    <3>3. rows[p] \in Int /\ MaxLogId \in Int
      BY Ranges DEF IInv
    <3> QED BY <2>2, <3>1, <3>2, <3>3
  <2> QED BY <1>1, <2>1, <2>2
<1> QED BY <1>2, <1>7, <1>8, <1>9, <1>10, <1>11, <1>12, <1>13 DEF IInv, TellingInv

(* Nothing is entered for a record that has an entry no peer has seen *)
LEMMA FindUpdateKeeps ==
  ASSUME IInv, NEW a \in Apps, FindUpdate(a)
  PROVE  IInv'
<1> DEFINE u == uid[a]
<1>1. PICK to \in {"idle", "logU"} :
        /\ Goes(a, to)
        /\ to = "idle" => \E e \in SinceSync(u) : TRUE
  BY DEF FindUpdate
<1>2. pc[a] = "findU" /\ LogStep(a, pc[a]) /\ log' = log /\ newRecord' = newRecord
  BY DEF FindUpdate, LogStep
<1>3. /\ u \in Uids
      /\ pc' = [pc EXCEPT ![a] = to] /\ pc' \in [Apps -> Points] /\ missed' \subseteq Uids
      /\ UNCHANGED <<db, rows, synced, uid, phase, peer, slow, last, got, copy, hole,
                     changes, syncs, clears, failures>>
      /\ \A p \in Peers, w \in Uids : Counts(p, w)' <=> Counts(p, w)
      /\ Alone' /\ AtMostOne' /\ RemovingIsGone' /\ ReadIsRight'
      /\ \A p \in Peers, w \in Uids \ {u} :
           /\ Counts(p, w) /\ copy[p][w] # db[w] /\ ~ InFlight(w)' => w \in Told(rows[p])'
  BY <1>1, <1>2, LogStepKeeps DEF Points, LogSteps
<1>4. TypeOK'
  BY <1>2, <1>3 DEF IInv, TypeOK
<1>5. Numbers'
  <2>1. CASE to = "idle"
    <3>1. /\ IsFiniteSet(Busies') /\ Cardinality(Busies') = Cardinality(Busies) - 1
      BY <1>1, <1>2, <2>1, OneLess DEF IInv, Numbers, TypeOK
    <3> QED BY <1>2, <1>3, <3>1, BusyCount DEF IInv, Numbers, TypeOK, Entries
  <2>2. CASE to # "idle"
    <3>1. Busies' = Busies
      BY <1>1, <1>2, <2>2, AsMany DEF IInv, TypeOK
    <3> QED BY <1>2, <1>3, <3>1 DEF IInv, Numbers
  <2> QED BY <2>1, <2>2
<1>6. RowHasEntry' /\ AddedIsNew' /\ OnlyNeeded'
  BY <1>2, <1>3 DEF IInv, RowHasEntry, TellingInv, AddedIsNew, Counts, OnlyNeeded, PeersSynced
<1>7. AddingIsNew'
  BY <1>2, <1>3 DEF IInv, TellingInv, AddingIsNew, TypeOK
<1>8. ChangesAreTold'
  <2> SUFFICES ASSUME NEW p \in Peers, NEW w \in Uids, Counts(p, w),
                      copy[p][w] # db[w], ~ InFlight(w)'
               PROVE  w \in Told(rows[p])'
    BY <1>3 DEF ChangesAreTold, Counts
  <2>1. CASE w = u
    <3>1. to = "idle"
      BY <1>3, <2>1 DEF InFlight
    <3>2. PICK e \in log : e.uid = u /\ e.id > MaxLastSync
      BY <1>1, <3>1 DEF SinceSync
    <3>3. e.id > rows[p]
      BY <3>2, LastSync, Ranges DEF IInv
    <3> QED BY <1>2, <1>3, <2>1, <3>2, <3>3 DEF Told
  <2>2. CASE w # u
    BY <1>3, <2>2
  <2> QED BY <2>1, <2>2
<1> QED BY <1>3, <1>4, <1>5, <1>6, <1>7, <1>8 DEF IInv, TellingInv

LEMMA FindAddedKeeps ==
  ASSUME IInv, NEW a \in Apps, FindAdded(a)
  PROVE  IInv'
<1> DEFINE u == uid[a]
<1>1. /\ pc[a] = "findD" /\ LogStep(a, pc[a]) /\ Goes(a, "logD") /\ log' = log
      /\ newRecord' = [newRecord EXCEPT ![a] = \E e \in SinceSync(u) : e.chgtype = "A"]
  BY DEF FindAdded, LogStep
<1>2. /\ u \in Uids
      /\ pc' = [pc EXCEPT ![a] = "logD"] /\ pc' \in [Apps -> Points] /\ missed' \subseteq Uids
      /\ UNCHANGED <<db, rows, synced, uid, phase, peer, slow, last, got, copy, hole,
                     changes, syncs, clears, failures>>
      /\ \A p \in Peers, w \in Uids : Counts(p, w)' <=> Counts(p, w)
      /\ Alone' /\ AtMostOne' /\ RemovingIsGone' /\ ReadIsRight'
      /\ \A p \in Peers, w \in Uids \ {u} :
           /\ Counts(p, w) /\ copy[p][w] # db[w] /\ ~ InFlight(w)' => w \in Told(rows[p])'
  BY <1>1, LogStepKeeps DEF Points, LogSteps
<1>3. TypeOK'
  <2>1. newRecord' \in [Apps -> BOOLEAN]
    BY <1>1 DEF IInv, TypeOK
  <2> QED BY <1>1, <1>2, <2>1 DEF IInv, TypeOK
<1>4. Numbers'
  <2>1. Busies' = Busies
    BY <1>1, AsMany DEF IInv, TypeOK
  <2> QED BY <1>1, <1>2, <2>1 DEF IInv, Numbers
<1>5. RowHasEntry' /\ AddedIsNew' /\ OnlyNeeded'
  BY <1>1, <1>2 DEF IInv, RowHasEntry, TellingInv, AddedIsNew, Counts, OnlyNeeded, PeersSynced
<1>6. AddingIsNew'
  <2> SUFFICES ASSUME NEW p \in Peers, NEW b \in Apps, Counts(p, uid[b]),
                      pc'[b] = "logA" \/ (pc'[b] = "logD" /\ newRecord'[b])
               PROVE  copy[p][uid[b]] = 0
    BY <1>2 DEF AddingIsNew, Counts
  <2>1. CASE b = a
    <3>1. PICK e \in log : e.uid = u /\ e.id > MaxLastSync /\ e.chgtype = "A"
      BY <1>1, <1>2, <2>1 DEF SinceSync, IInv, TypeOK
    <3>2. e.id > rows[p]
      BY <3>1, LastSync, Ranges DEF IInv
    <3> QED BY <2>1, <3>1, <3>2 DEF IInv, TellingInv, AddedIsNew
  <2>2. CASE b # a
    BY <1>1, <1>2, <2>2 DEF IInv, TellingInv, AddingIsNew, TypeOK
  <2> QED BY <2>1, <2>2
<1>7. ChangesAreTold'
  <2> SUFFICES ASSUME NEW p \in Peers, NEW w \in Uids, Counts(p, w),
                      copy[p][w] # db[w], ~ InFlight(w)'
               PROVE  w \in Told(rows[p])'
    BY <1>2 DEF ChangesAreTold, Counts
  <2>1. w # u
    BY <1>2 DEF InFlight, IInv, TypeOK
  <2> QED BY <1>2, <2>1
<1> QED BY <1>2, <1>3, <1>4, <1>5, <1>6, <1>7 DEF IInv, TellingInv

(* A SELECT that fails makes an entry more, never one less *)
LEMMA FindFailsKeeps ==
  ASSUME IInv, NEW a \in Apps, FindFails(a)
  PROVE  IInv'
<1> DEFINE u == uid[a]
<1>1. PICK to \in {"logU", "logD"} :
        /\ Goes(a, to)
        /\ to = "logU" => pc[a] = "findU" /\ newRecord' = newRecord
        /\ to = "logD" => pc[a] = "findD" /\ newRecord' = [newRecord EXCEPT ![a] = FALSE]
  BY DEF FindFails
<1>2. /\ pc[a] # "idle" /\ log' = log /\ Seen(a, uid[a])
      /\ failures' = failures + 1 /\ failures < MaxFailures
      /\ UNCHANGED <<db, rows, synced, uid, phase, peer, slow, last, got, copy,
                     changes, syncs, clears>>
  BY DEF FindFails, tables
<1>3. /\ u \in Uids
      /\ pc' = [pc EXCEPT ![a] = to] /\ pc' \in [Apps -> Points] /\ missed' \subseteq Uids
      /\ UNCHANGED hole
      /\ \A p \in Peers, w \in Uids : Counts(p, w)' <=> Counts(p, w)
      /\ Alone' /\ AtMostOne' /\ RemovingIsGone' /\ ReadIsRight'
      /\ \A p \in Peers, w \in Uids \ {u} :
           /\ Counts(p, w) /\ copy[p][w] # db[w] /\ ~ InFlight(w)' => w \in Told(rows[p])'
  BY <1>1, <1>2, ChangeGoesOn DEF Points, LogSteps
<1>4. failures' \in 0 .. MaxFailures /\ failures' > 0
  BY <1>2, Constants DEF IInv, TypeOK
<1>5. newRecord' \in [Apps -> BOOLEAN] /\ \A b \in Apps : newRecord'[b] => newRecord[b]
  BY <1>1 DEF IInv, TypeOK
<1>6. TypeOK'
  BY <1>2, <1>3, <1>4, <1>5 DEF IInv, TypeOK
<1>7. Numbers'
  <2>1. Busies' = Busies
    BY <1>1, <1>2, AsMany DEF IInv, TypeOK
  <2> QED BY <1>2, <2>1 DEF IInv, Numbers
<1>8. RowHasEntry' /\ OnlyNeeded'
  BY <1>2, <1>3, <1>4 DEF IInv, RowHasEntry, OnlyNeeded
<1>9. AddedIsNew'
  BY <1>2, <1>3 DEF IInv, TellingInv, AddedIsNew, Counts
<1>10. AddingIsNew'
  <2> SUFFICES ASSUME NEW p \in Peers, NEW b \in Apps, Counts(p, uid[b]),
                      pc'[b] = "logA" \/ (pc'[b] = "logD" /\ newRecord'[b])
               PROVE  copy[p][uid[b]] = 0
    BY <1>2, <1>3 DEF AddingIsNew, Counts
  <2>1. b # a
    BY <1>1, <1>3 DEF IInv, TypeOK
  <2> QED BY <1>3, <1>5, <2>1 DEF IInv, TellingInv, AddingIsNew, TypeOK
<1>11. ChangesAreTold'
  <2> SUFFICES ASSUME NEW p \in Peers, NEW w \in Uids, Counts(p, w),
                      copy[p][w] # db[w], ~ InFlight(w)'
               PROVE  w \in Told(rows[p])'
    BY <1>2, <1>3 DEF ChangesAreTold, Counts
  <2>1. w # u
    BY <1>1, <1>2, <1>3 DEF InFlight, IInv, TypeOK
  <2> QED BY <1>3, <2>1
<1> QED BY <1>3, <1>6, <1>7, <1>8, <1>9, <1>10, <1>11 DEF IInv, TellingInv

(* The entries that go are too new for every peer, and when no D entry      *)
(* follows no peer has the record                                           *)
LEMMA DeleteEntriesKeeps ==
  ASSUME IInv, NEW a \in Apps, DeleteEntries(a)
  PROVE  IInv'
<1> DEFINE u == uid[a]
<1>1. PICK to \in {"idle", "insertD"} : Goes(a, to) /\ (to = "idle" => newRecord[a])
  BY DEF DeleteEntries
<1>2. /\ pc[a] = "logD" /\ LogStep(a, pc[a]) /\ log' = log \ SinceSync(u)
      /\ newRecord' = newRecord
  BY DEF DeleteEntries, LogStep
<1>3. /\ u \in Uids
      /\ pc' = [pc EXCEPT ![a] = to] /\ pc' \in [Apps -> Points] /\ missed' \subseteq Uids
      /\ UNCHANGED <<db, rows, synced, uid, phase, peer, slow, last, got, copy, hole,
                     changes, syncs, clears, failures>>
      /\ \A p \in Peers, w \in Uids : Counts(p, w)' <=> Counts(p, w)
      /\ Alone' /\ AtMostOne' /\ RemovingIsGone' /\ ReadIsRight'
      /\ \A p \in Peers, w \in Uids \ {u} :
           /\ Counts(p, w) /\ copy[p][w] # db[w] /\ ~ InFlight(w)' => w \in Told(rows[p])'
  <2>1. \A e \in log \cup log' : e.uid # uid[a] => (e \in log <=> e \in log')
    BY <1>2 DEF SinceSync
  <2> QED BY <1>1, <1>2, <2>1, LogStepKeeps DEF Points, LogSteps
<1>4. log' \subseteq log
  BY <1>2
<1>5. TypeOK'
  BY <1>2, <1>3, <1>4 DEF IInv, TypeOK
<1>6. Numbers'
  <2>1. CASE to = "idle"
    <3>1. /\ IsFiniteSet(Busies') /\ Cardinality(Busies') = Cardinality(Busies) - 1
      BY <1>1, <1>2, <2>1, OneLess DEF IInv, Numbers, TypeOK
    <3> QED BY <1>3, <1>4, <3>1, BusyCount DEF IInv, Numbers, TypeOK, Entries
  <2>2. CASE to # "idle"
    <3>1. Busies' = Busies
      BY <1>1, <1>2, <2>2, AsMany DEF IInv, TypeOK
    <3> QED BY <1>3, <1>4, <3>1 DEF IInv, Numbers
  <2> QED BY <2>1, <2>2
<1>7. RowHasEntry'
  <2>1. ASSUME NEW p \in Peers, NEW e \in log, e.id = rows[p]
        PROVE  e \in log'
    BY <1>2, <2>1, LastSync, Ranges DEF IInv, SinceSync
  <2> QED BY <1>3, <2>1 DEF IInv, RowHasEntry
<1>8. AddedIsNew' /\ OnlyNeeded'
  BY <1>3, <1>4 DEF IInv, TellingInv, AddedIsNew, Counts, OnlyNeeded, PeersSynced
<1>9. AddingIsNew'
  BY <1>2, <1>3 DEF IInv, TellingInv, AddingIsNew, TypeOK
<1>10. ChangesAreTold'
  <2> SUFFICES ASSUME NEW p \in Peers, NEW w \in Uids, Counts(p, w),
                      copy[p][w] # db[w], ~ InFlight(w)'
               PROVE  w \in Told(rows[p])'
    BY <1>3 DEF ChangesAreTold, Counts
  <2>1. CASE w = u
    <3>1. newRecord[a]
      BY <1>1, <1>3, <2>1 DEF InFlight, IInv, TypeOK
    <3>2. copy[p][u] = 0 /\ db[u] = 0
      BY <1>2, <2>1, <3>1 DEF IInv, TellingInv, AddingIsNew, RemovingIsGone
    <3> QED BY <2>1, <3>2
  <2>2. CASE w # u
    BY <1>3, <2>2
  <2> QED BY <2>1, <2>2
<1> QED BY <1>3, <1>5, <1>6, <1>7, <1>8, <1>9, <1>10 DEF IInv, TellingInv

-----------------------------------------------------------------------------
(* Applications that stop or load, and a table that is dropped              *)

LEMMA DroppedKeeps ==
  ASSUME IInv, NEW a \in Apps, Dropped(a)
  PROVE  IInv'
<1> DEFINE u == uid[a]
<1>1. /\ pc' = [pc EXCEPT ![a] = "idle"] /\ synced' \in [Apps -> BOOLEAN]
      /\ phase' = phase \/ (a = Sync /\ phase' = "none" /\ failures' > 0)
      /\ failures' \in failures .. MaxFailures
      /\ UNCHANGED <<db, log, rows, uid, newRecord, peer, slow, last, got, copy,
                     changes, syncs, clears>>
  BY DEF Dropped, Goes, tables
<1>2. u \in Uids /\ pc' \in [Apps -> Points]
  BY <1>1 DEF IInv, TypeOK, Points
<1>3. /\ hole \subseteq hole' /\ hole' \subseteq Peers \X Uids /\ missed' \subseteq Uids
      /\ Window => missed \subseteq missed'
      /\ pc[a] # "idle" => /\ \A p \in Peers : Counts(p, u) => <<p, u>> \in hole'
                           /\ Window => u \in missed'
  BY <1>2 DEF Dropped, Holes, IInv, TypeOK, Counts, PeersSynced
<1>4. failures' \in 0 .. MaxFailures /\ (failures' = 0 => failures = 0)
      /\ (failures > 0 => failures' > 0)
  BY <1>1, Constants DEF IInv, TypeOK
<1>5. TypeOK'
  <2>1. phase' \in Phases
    BY <1>1 DEF IInv, TypeOK, Phases
  <2> QED BY <1>1, <1>2, <1>3, <1>4, <2>1 DEF IInv, TypeOK
<1>6. Numbers'
  <2>1. CASE pc[a] = "idle"
    <3>1. Busies' = Busies
      BY <1>1, <2>1 DEF Busies, IInv, TypeOK
    <3> QED BY <1>1, <3>1 DEF IInv, Numbers
  <2>2. CASE pc[a] # "idle"
    <3>1. IsFiniteSet(Busies') /\ Cardinality(Busies') = Cardinality(Busies) - 1
      BY <1>1, <2>2, OneLess DEF IInv, Numbers, TypeOK, Goes
    <3> QED BY <1>1, <3>1, BusyCount DEF IInv, Numbers, TypeOK, Entries
  <2> QED BY <2>1, <2>2
<1>7. RowHasEntry'
  BY <1>1, <1>3, <1>4 DEF IInv, RowHasEntry
<1>8. Alone'
  BY <1>1, Constants DEF IInv, TypeOK, Alone, SyncIdle
<1>9. \A p \in Peers, w \in Uids : Counts(p, w)' => Counts(p, w) /\ (w = u => pc[a] = "idle")
  BY <1>1, <1>3 DEF Counts
<1>10. \A b \in Apps, w \in Uids : Changing(b, w)' => Changing(b, w)
  BY <1>1 DEF Changing, IInv, TypeOK
<1>11. AtMostOne' /\ AddedIsNew' /\ AddingIsNew' /\ RemovingIsGone'
  <2>1. AtMostOne'
    BY <1>9, <1>10 DEF IInv, TellingInv, AtMostOne
  <2>2. AddedIsNew'
    BY <1>1, <1>9 DEF IInv, TellingInv, AddedIsNew, TypeOK, Entries
  <2>3. AddingIsNew'
    BY <1>1, <1>9 DEF IInv, TellingInv, AddingIsNew, TypeOK
  <2>4. RemovingIsGone'
    BY <1>1, <1>9 DEF IInv, TellingInv, RemovingIsGone, TypeOK
  <2> QED BY <2>1, <2>2, <2>3, <2>4
<1>12. ReadIsRight'
  <2> SUFFICES ASSUME Window', NEW w \in Uids \ missed'
               PROVE  /\ \A b \in Apps : Changing(b, w)' => b = Sync
                      /\ Changing(Sync, w)' => got[w] = db[w]
                      /\ slow \/ w \in Told(last) \/ <<peer, w>> \notin hole' => got[w] = db[w]
    BY <1>1 DEF ReadIsRight, Told
  <2>1. Window /\ w \notin missed
    BY <1>1, <1>3 DEF Window
  <2> QED BY <1>3, <1>10, <2>1, Constants DEF IInv, TellingInv, ReadIsRight
<1>13. ChangesAreTold'
  <2> SUFFICES ASSUME NEW p \in Peers, NEW w \in Uids, Counts(p, w)',
                      copy[p][w] # db[w], ~ InFlight(w)'
               PROVE  w \in Told(rows[p])
    BY <1>1 DEF ChangesAreTold, Counts, Told
  <2>1. Counts(p, w) /\ ~ InFlight(w)
    BY <1>1, <1>9 DEF InFlight, IInv, TypeOK
  <2> QED BY <2>1 DEF IInv, ChangesAreTold, Counts
<1>14. OnlyNeeded'
  BY <1>1, <1>4 DEF IInv, OnlyNeeded, PeersSynced
<1> QED BY <1>5, <1>6, <1>7, <1>8, <1>11, <1>12, <1>13, <1>14 DEF IInv, TellingInv

LEMMA ClearKeeps ==
  ASSUME IInv, NEW a \in Apps, Clear(a)
  PROVE  IInv'
<1>1. /\ db' = [u \in Uids |-> 0] /\ clears' \in 0 .. MaxClears
      /\ synced' = [synced EXCEPT ![a] = PeersSynced]
      /\ UNCHANGED <<log, rows, pc, uid, newRecord, phase, peer, slow, last, got, copy,
                     changes, syncs, failures>>
  BY Constants DEF Clear, IInv, TypeOK
<1>2. /\ hole \subseteq hole' /\ hole' \subseteq Peers \X Uids /\ missed' \subseteq Uids
      /\ \A p \in Peers, w \in Uids : ~ Counts(p, w)'
      /\ Window => Uids \subseteq missed'
  BY DEF Clear, Holes, IInv, TypeOK, Counts
<1>3. TypeOK'
  <2>1. db' \in [Uids -> Versions] /\ synced' \in [Apps -> BOOLEAN]
    BY <1>1, Constants DEF IInv, TypeOK, PeersSynced
  <2> QED BY <1>1, <1>2, <2>1 DEF IInv, TypeOK
<1>4. Numbers' /\ RowHasEntry' /\ Alone' /\ OnlyNeeded'
  <2>1. Numbers'
    BY <1>1 DEF IInv, Numbers, Busies
  <2>2. RowHasEntry'
    BY <1>1, <1>2 DEF IInv, RowHasEntry
  <2>3. Alone'
    BY <1>1 DEF IInv, Alone, SyncIdle
  <2>4. OnlyNeeded'
    BY <1>1 DEF IInv, OnlyNeeded, PeersSynced
  <2> QED BY <2>1, <2>2, <2>3, <2>4
<1>5. AtMostOne' /\ AddedIsNew' /\ AddingIsNew' /\ RemovingIsGone'
  BY <1>1, <1>2 DEF AtMostOne, AddedIsNew, AddingIsNew, RemovingIsGone, IInv, TypeOK, Entries
<1>6. ReadIsRight'
  BY <1>1, <1>2 DEF ReadIsRight, Window
<1>7. ChangesAreTold'
  BY <1>2 DEF ChangesAreTold, Counts
<1> QED BY <1>3, <1>4, <1>5, <1>6, <1>7 DEF IInv, TellingInv

(* m_peersSynced is no part of any promise: a stale one makes holes *)
LEMMA LoadKeeps ==
  ASSUME IInv, (\E a \in Apps : Load(a)) \/ UNCHANGED vars
  PROVE  IInv'
<1>1. /\ UNCHANGED <<db, log, rows, pc, uid, newRecord, phase, peer, slow, last, got, missed,
                     copy, hole, changes, syncs, clears, failures>>
      /\ synced' \in [Apps -> BOOLEAN]
  BY DEF Load, vars, tables, app, sync, bounds, IInv, TypeOK, PeersSynced
<1>2. TypeOK'
  BY <1>1 DEF IInv, TypeOK
<1>3. Numbers' /\ RowHasEntry' /\ Alone' /\ OnlyNeeded' /\ ChangesAreTold'
  BY <1>1 DEF IInv, Numbers, Busies, RowHasEntry, Alone, SyncIdle, OnlyNeeded, PeersSynced,
              ChangesAreTold, InFlight, Told
<1>4. TellingInv'
  <2>1. AtMostOne' /\ AddedIsNew' /\ AddingIsNew' /\ RemovingIsGone'
    BY <1>1 DEF IInv, TellingInv, AtMostOne, AddedIsNew, AddingIsNew, RemovingIsGone, Counts,
                Changing
  <2>2. ReadIsRight'
    BY <1>1 DEF IInv, TellingInv, ReadIsRight, Window, Changing, Told
  <2> QED BY <2>1, <2>2 DEF TellingInv
<1> QED BY <1>2, <1>3, <1>4 DEF IInv

-----------------------------------------------------------------------------
(* Synchronisation                                                          *)

LEMMA FewerRowsKeep ==
  ASSUME IInv,
         UNCHANGED <<db, log, pc, uid, newRecord, copy, hole, changes, failures>>,
         \A p \in Peers : rows'[p] \in {rows[p], NoRow},
         phase # "wiped" \/ \A p \in Peers : rows'[p] = NoRow
  PROVE  /\ Numbers' /\ RowHasEntry' /\ ChangesAreTold'
         /\ AtMostOne' /\ AddedIsNew' /\ AddingIsNew' /\ RemovingIsGone'
<1>1. \A p \in Peers : rows'[p] # NoRow => rows'[p] = rows[p]
  OBVIOUS
<1>2. \A p \in Peers, u \in Uids : Counts(p, u)' => Counts(p, u) /\ rows'[p] = rows[p]
  BY <1>1 DEF Counts
<1>3. Numbers'
  BY DEF IInv, Numbers, Busies
<1>4. RowHasEntry'
  BY <1>1, Constants DEF IInv, RowHasEntry
<1>5. ChangesAreTold'
  BY <1>1 DEF IInv, ChangesAreTold, InFlight, Told
<1>6. AtMostOne'
  BY <1>2 DEF IInv, TellingInv, AtMostOne, Changing
<1>7. AddedIsNew'
  BY <1>2 DEF IInv, TellingInv, AddedIsNew, TypeOK, Entries
<1>8. AddingIsNew'
  BY <1>2 DEF IInv, TellingInv, AddingIsNew, TypeOK
<1>9. RemovingIsGone'
  BY <1>2 DEF IInv, TellingInv, RemovingIsGone, TypeOK
<1> QED BY <1>3, <1>4, <1>5, <1>6, <1>7, <1>8, <1>9

LEMMA StartSyncKeeps ==
  ASSUME IInv, NEW p \in Peers, NEW wanted \in BOOLEAN, StartSync(p, wanted)
  PROVE  IInv'
<1>1. /\ phase = "none" /\ SyncIdle /\ phase' = "started" /\ peer' = p
      /\ slow' = (wanted \/ rows[p] = NoRow) /\ last' = IF slow' THEN 0 ELSE rows[p]
      /\ syncs' \in 0 .. MaxSyncs /\ synced' = [synced EXCEPT ![Sync] = PeersSynced]
      /\ UNCHANGED <<db, log, rows, pc, uid, newRecord, got, missed, copy, hole,
                     changes, clears, failures>>
  BY Constants DEF StartSync, SyncRest, IInv, TypeOK
<1>2. /\ Numbers' /\ RowHasEntry' /\ ChangesAreTold'
      /\ AtMostOne' /\ AddedIsNew' /\ AddingIsNew' /\ RemovingIsGone'
  BY <1>1, FewerRowsKeep
<1>3. TypeOK'
  <2>1. slow' \in BOOLEAN /\ synced' \in [Apps -> BOOLEAN]
    BY <1>1 DEF IInv, TypeOK, PeersSynced
  <2>2. last' \in Versions
    <3>1. rows[p] \in {NoRow} \cup Versions /\ 0 \in Versions
      BY Constants DEF IInv, TypeOK
    <3>2. ~ slow' => rows[p] # NoRow
      BY <1>1
    <3> QED BY <1>1, <3>1, <3>2
  <2> QED BY <1>1, <2>1, <2>2 DEF IInv, TypeOK, Phases
<1>4. Alone' /\ ReadIsRight'
  BY <1>1 DEF Alone, SyncIdle, ReadIsRight, Window
<1>5. OnlyNeeded'
  BY <1>1 DEF IInv, OnlyNeeded, PeersSynced
<1> QED BY <1>2, <1>3, <1>4, <1>5 DEF IInv, TellingInv

(* What the peer has now is what the database has, but for what somebody is *)
(* changing and for what nobody told it                                     *)
LEMMA SyncReadKeeps ==
  ASSUME IInv, SyncRead
  PROVE  IInv'
<1>1. /\ phase = "started" /\ phase' = "read"
      /\ got' = [u \in Uids |-> IF slow \/ u \in Told(last) THEN db[u] ELSE copy[peer][u]]
      /\ missed' = {u \in Uids : InFlight(u)}
      /\ UNCHANGED <<db, log, rows, synced, pc, uid, newRecord, peer, slow, last, copy, hole,
                     changes, syncs, clears, failures>>
  BY DEF SyncRead, SyncRest
<1>2. /\ Numbers' /\ RowHasEntry' /\ ChangesAreTold'
      /\ AtMostOne' /\ AddedIsNew' /\ AddingIsNew' /\ RemovingIsGone'
  BY <1>1, FewerRowsKeep
<1>3. TypeOK'
  <2>1. got' \in [Uids -> Versions]
    BY <1>1 DEF IInv, TypeOK
  <2>2. phase' \in Phases /\ missed' \subseteq Uids
    BY <1>1 DEF Phases
  <2> QED BY <1>1, <2>1, <2>2 DEF IInv, TypeOK
<1>4. Alone' /\ OnlyNeeded'
  BY <1>1 DEF IInv, Alone, SyncIdle, OnlyNeeded, PeersSynced
<1>5. ReadIsRight'
  <2> SUFFICES ASSUME NEW u \in Uids \ missed'
               PROVE  /\ \A b \in Apps : ~ Changing(b, u)
                      /\ slow \/ u \in Told(last) \/ <<peer, u>> \notin hole => got'[u] = db[u]
    BY <1>1, Constants DEF ReadIsRight, Changing, Told
  <2>1. ~ InFlight(u)
    BY <1>1
  <2>2. ASSUME ~ slow, u \notin Told(last), <<peer, u>> \notin hole
        PROVE  copy[peer][u] = db[u]
    <3>1. last = rows[peer] /\ rows[peer] # NoRow /\ peer \in Peers
      BY <1>1, <2>2, Constants DEF IInv, Alone, TypeOK
    <3> QED BY <2>1, <2>2, <3>1 DEF IInv, ChangesAreTold
  <2> QED BY <1>1, <2>1, <2>2 DEF InFlight, Changing
<1> QED BY <1>2, <1>3, <1>4, <1>5 DEF IInv, TellingInv

LEMMA AbandonKeeps ==
  ASSUME IInv, Abandon
  PROVE  IInv'
<1>1. /\ phase \in {"started", "read"} /\ phase' = "none"
      /\ UNCHANGED <<db, log, rows, synced, pc, uid, newRecord, peer, slow, last, got, missed,
                     copy, hole, changes, syncs, clears, failures>>
  BY DEF Abandon, SyncRest
<1>2. /\ Numbers' /\ RowHasEntry' /\ ChangesAreTold'
      /\ AtMostOne' /\ AddedIsNew' /\ AddingIsNew' /\ RemovingIsGone'
  BY <1>1, FewerRowsKeep
<1>3. TypeOK'
  BY <1>1 DEF IInv, TypeOK, Phases
<1>4. Alone' /\ ReadIsRight' /\ OnlyNeeded'
  BY <1>1 DEF IInv, Alone, ReadIsRight, Window, OnlyNeeded, PeersSynced
<1> QED BY <1>2, <1>3, <1>4 DEF IInv, TellingInv

LEMMA SyncRemoveRowKeeps ==
  ASSUME IInv, SyncRemoveRow
  PROVE  IInv'
<1>1. /\ phase = "read" /\ SyncIdle /\ phase' = "removed"
      /\ rows' = [rows EXCEPT ![peer] = NoRow]
      /\ UNCHANGED <<db, log, synced, pc, uid, newRecord, peer, slow, last, got, missed,
                     copy, hole, changes, syncs, clears, failures>>
  BY DEF SyncRemoveRow, SyncRest
<1>2. /\ Numbers' /\ RowHasEntry' /\ ChangesAreTold'
      /\ AtMostOne' /\ AddedIsNew' /\ AddingIsNew' /\ RemovingIsGone'
  <2>1. \A p \in Peers : rows'[p] \in {rows[p], NoRow}
    BY <1>1 DEF IInv, TypeOK
  <2> QED BY <1>1, <2>1, FewerRowsKeep
<1>3. TypeOK'
  <2>1. rows' \in [Peers -> {NoRow} \cup Versions]
    BY <1>1 DEF IInv, TypeOK
  <2> QED BY <1>1, <2>1 DEF IInv, TypeOK, Phases
<1>4. Alone' /\ OnlyNeeded'
  BY <1>1 DEF Alone, SyncIdle, OnlyNeeded
<1>5. ReadIsRight'
  BY <1>1 DEF IInv, TellingInv, ReadIsRight, Window, Changing, Told
<1> QED BY <1>2, <1>3, <1>4, <1>5 DEF IInv, TellingInv

(* A record the peer can count on from now on is in its copy as it is in   *)
(* the database, and nobody is changing it                                 *)
LEMMA SyncGives ==
  ASSUME IInv, SyncInsertRow, NEW u \in Uids, <<peer, u>> \notin hole'
  PROVE  got[u] = db[u] /\ \A b \in Apps : ~ Changing(b, u)
<1>1. /\ SyncIdle /\ Window /\ peer \in Peers
      /\ hole' = {h \in hole : h[1] # peer \/ ~ (slow \/ h[2] \in Told(last))}
                 \cup {peer} \X missed
  BY DEF SyncInsertRow, IInv, Alone, TypeOK, Window
<1>2. u \notin missed /\ (slow \/ u \in Told(last) \/ <<peer, u>> \notin hole)
  BY <1>1
<1> QED BY <1>1, <1>2, Constants DEF IInv, TellingInv, ReadIsRight, Changing, SyncIdle

LEMMA SyncInsertRowKeeps ==
  ASSUME IInv, SyncInsertRow
  PROVE  IInv'
<1>1. /\ phase = "removed" /\ phase' = "purge" /\ peer \in Peers
      /\ rows' = [rows EXCEPT ![peer] = MaxLogId]
      /\ synced' = [synced EXCEPT ![Sync] = TRUE]
      /\ copy' = [copy EXCEPT ![peer] = got]
      /\ hole' = {h \in hole : h[1] # peer \/ ~ (slow \/ h[2] \in Told(last))}
                 \cup {peer} \X missed
      /\ UNCHANGED <<db, log, pc, uid, newRecord, peer, slow, last, got, missed,
                     changes, syncs, clears, failures>>
  BY DEF SyncInsertRow, SyncRest, IInv, TypeOK
<1>2. SyncIdle /\ Window
  BY <1>1 DEF IInv, Alone, Window
<1>3. /\ rows'[peer] = MaxLogId /\ copy'[peer] = got
      /\ \A p \in Peers \ {peer} : rows'[p] = rows[p] /\ copy'[p] = copy[p]
  BY <1>1 DEF IInv, TypeOK
<1>4. \A p \in Peers \ {peer}, u \in Uids : Counts(p, u)' => Counts(p, u)
  <2>1. \A p \in Peers \ {peer}, u \in Uids : <<p, u>> \in hole => <<p, u>> \in hole'
    BY <1>1
  <2> QED BY <1>3, <2>1 DEF Counts
<1>5. ASSUME NEW p \in Peers, p = peer, NEW u \in Uids, Counts(p, u)'
      PROVE  got[u] = db[u] /\ \A b \in Apps : ~ Changing(b, u)
  BY <1>5, SyncGives DEF Counts
<1>6. TypeOK'
  <2>1. /\ rows' \in [Peers -> {NoRow} \cup Versions] /\ copy' \in [Peers -> [Uids -> Versions]]
        /\ synced' \in [Apps -> BOOLEAN]
    BY <1>1, LastEntry DEF IInv, TypeOK
  <2>2. hole' \subseteq Peers \X Uids
    BY <1>1 DEF IInv, TypeOK
  <2> QED BY <1>1, <2>1, <2>2 DEF IInv, TypeOK, Phases
<1>7. Numbers' /\ Alone' /\ ReadIsRight' /\ OnlyNeeded'
  BY <1>1, <1>2 DEF IInv, Numbers, Busies, Alone, SyncIdle, ReadIsRight, Window, OnlyNeeded
<1>8. RowHasEntry'
  <2> SUFFICES ASSUME NEW p \in Peers, rows'[p] > 0
               PROVE  \/ \E e \in log : e.id = rows'[p]
                      \/ {p} \X Uids \subseteq hole' /\ failures > 0
    BY <1>1 DEF RowHasEntry
  <2>1. CASE p = peer
    BY <1>3, <2>1, LastEntry, Ranges DEF IInv
  <2>2. CASE p # peer
    <3>1. \A u \in Uids : <<p, u>> \in hole => <<p, u>> \in hole'
      BY <1>1, <2>2
    <3> QED BY <1>1, <1>3, <2>2, <3>1 DEF IInv, RowHasEntry
  <2> QED BY <2>1, <2>2
<1>9. AtMostOne'
  <2> SUFFICES ASSUME NEW p \in Peers, NEW u \in Uids, Counts(p, u)'
               PROVE  \A a, b \in Apps : Changing(a, u) /\ Changing(b, u) => a = b
    BY <1>1 DEF AtMostOne, Changing
  <2> QED BY <1>4, <1>5 DEF IInv, TellingInv, AtMostOne
<1>10. AddedIsNew'
  <2> SUFFICES ASSUME NEW p \in Peers, NEW e \in log, Counts(p, e.uid)',
                      e.chgtype = "A", e.id > rows'[p]
               PROVE  copy'[p][e.uid] = 0
    BY <1>1 DEF AddedIsNew, Counts
  <2>1. p # peer
    BY <1>3, LastEntry, Ranges DEF IInv
  <2>2. e.uid \in Uids
    BY DEF IInv, TypeOK, Entries
  <2> QED BY <1>3, <1>4, <2>1, <2>2 DEF IInv, TellingInv, AddedIsNew
<1>11. AddingIsNew' /\ RemovingIsGone'
  <2>1. ASSUME NEW p \in Peers, NEW b \in Apps, Counts(p, uid[b])', pc[b] # "idle"
        PROVE  p # peer /\ Counts(p, uid[b])
    <3>1. PICK w \in Uids : w = uid[b]
      BY DEF IInv, TypeOK
    <3>2. Counts(p, w)'
      BY <1>1, <2>1, <3>1 DEF Counts
    <3>3. p # peer
      BY <1>5, <2>1, <3>1, <3>2 DEF Changing
    <3> QED BY <1>4, <3>1, <3>2, <3>3
  <2>2. AddingIsNew'
    <3> SUFFICES ASSUME NEW p \in Peers, NEW b \in Apps, Counts(p, uid[b])',
                        pc[b] = "logA" \/ (pc[b] = "logD" /\ newRecord[b])
                 PROVE  copy'[p][uid[b]] = 0
      BY <1>1 DEF AddingIsNew, Counts
    <3>1. p # peer /\ Counts(p, uid[b])
      BY <2>1
    <3> QED BY <1>3, <3>1 DEF IInv, TellingInv, AddingIsNew
  <2>3. RemovingIsGone'
    <3> SUFFICES ASSUME NEW p \in Peers, NEW b \in Apps, Counts(p, uid[b])',
                        pc[b] \in {"findD", "logD", "insertD"}
                 PROVE  db[uid[b]] = 0
      BY <1>1 DEF RemovingIsGone, Counts
    <3>1. Counts(p, uid[b])
      BY <2>1
    <3> QED BY <3>1 DEF IInv, TellingInv, RemovingIsGone
  <2> QED BY <2>2, <2>3
<1>12. ChangesAreTold'
  <2> SUFFICES ASSUME NEW p \in Peers, NEW u \in Uids, Counts(p, u)',
                      copy'[p][u] # db[u], ~ InFlight(u)
               PROVE  u \in Told(rows'[p])
    BY <1>1 DEF ChangesAreTold, Counts, InFlight, Told
  <2>1. p # peer
    BY <1>3, <1>5
  <2> QED BY <1>3, <1>4, <2>1 DEF IInv, ChangesAreTold, Counts
<1> QED BY <1>6, <1>7, <1>8, <1>9, <1>10, <1>11, <1>12 DEF IInv, TellingInv

-----------------------------------------------------------------------------
(* What is purged                                                           *)

LEMMA RemovePeerKeeps ==
  ASSUME IInv, NEW q \in Peers, RemovePeer(q)
  PROVE  IInv'
<1>1. /\ phase = "none" /\ SyncIdle /\ phase' = "purge"
      /\ rows' = [rows EXCEPT ![q] = NoRow]
      /\ UNCHANGED <<db, log, synced, pc, uid, newRecord, peer, slow, last, got, missed,
                     copy, hole, changes, syncs, clears, failures>>
  BY DEF RemovePeer, SyncRest
<1>2. /\ Numbers' /\ RowHasEntry' /\ ChangesAreTold'
      /\ AtMostOne' /\ AddedIsNew' /\ AddingIsNew' /\ RemovingIsGone'
  <2>1. \A p \in Peers : rows'[p] \in {rows[p], NoRow}
    BY <1>1 DEF IInv, TypeOK
  <2> QED BY <1>1, <2>1, FewerRowsKeep
<1>3. TypeOK'
  <2>1. rows' \in [Peers -> {NoRow} \cup Versions]
    BY <1>1 DEF IInv, TypeOK
  <2> QED BY <1>1, <2>1 DEF IInv, TypeOK, Phases
<1>4. Alone' /\ OnlyNeeded' /\ ReadIsRight'
  BY <1>1 DEF Alone, SyncIdle, OnlyNeeded, ReadIsRight, Window
<1> QED BY <1>2, <1>3, <1>4 DEF IInv, TellingInv

(* The entries that go are older than every row: no peer is told less       *)
LEMMA PurgeOldDataKeeps ==
  ASSUME IInv, PurgeOldData
  PROVE  IInv'
<1>1. /\ phase = "purge" /\ phase' = "none" /\ log' \subseteq log
      /\ UNCHANGED <<db, rows, synced, pc, uid, newRecord, peer, slow, last, got, missed,
                     copy, hole, changes, syncs, clears, failures>>
  BY DEF PurgeOldData, SyncRest
<1>2. ASSUME NEW e \in log, NEW p \in Peers, rows[p] # NoRow, e.id >= rows[p]
      PROVE  e \in log'
  <2> SUFFICES ASSUME NEW q \in Peers, rows[q] # NoRow,
                      \A r \in Peers : rows[r] # NoRow => rows[q] <= rows[r]
               PROVE  e.id >= rows[q]
    BY DEF PurgeOldData
  <2>1. rows[q] <= rows[p]
    BY <1>2
  <2> QED BY <1>2, <2>1, Ranges DEF IInv
<1>3. TypeOK'
  BY <1>1 DEF IInv, TypeOK, Phases
<1>4. Numbers' /\ Alone' /\ ReadIsRight'
  BY <1>1 DEF IInv, Numbers, Busies, Alone, ReadIsRight, Window
<1>5. AtMostOne' /\ AddedIsNew' /\ AddingIsNew' /\ RemovingIsGone'
  <2>1. AtMostOne' /\ AddingIsNew' /\ RemovingIsGone'
    BY <1>1 DEF IInv, TellingInv, AtMostOne, AddingIsNew, RemovingIsGone, Counts, Changing
  <2>2. AddedIsNew'
    BY <1>1 DEF IInv, TellingInv, AddedIsNew, Counts
  <2> QED BY <2>1, <2>2
<1>6. RowHasEntry'
  <2> SUFFICES ASSUME NEW p \in Peers, rows[p] > 0
               PROVE  (\E e \in log' : e.id = rows[p])
                        \/ ({p} \X Uids \subseteq hole /\ failures > 0)
    BY <1>1 DEF RowHasEntry
  <2>1. rows[p] # NoRow
    BY Constants
  <2>2. ASSUME NEW e \in log, e.id = rows[p] PROVE e \in log'
    BY <1>2, <2>1, <2>2, Ranges DEF IInv
  <2> QED BY <1>1, <2>2 DEF IInv, RowHasEntry
<1>7. ChangesAreTold'
  <2> SUFFICES ASSUME NEW p \in Peers, NEW u \in Uids, rows[p] # NoRow,
                      copy[p][u] # db[u], <<p, u>> \notin hole, ~ InFlight(u)
               PROVE  \E e \in log' : e.id > rows[p] /\ e.uid = u
    BY <1>1 DEF ChangesAreTold, InFlight, Told
  <2>1. PICK e \in log : e.id > rows[p] /\ e.uid = u
    BY DEF IInv, ChangesAreTold, Told
  <2>2. e \in log'
    BY <1>2, <2>1, Ranges DEF IInv
  <2> QED BY <2>1, <2>2
<1>8. OnlyNeeded'
  <2> SUFFICES ASSUME PeersSynced, NEW e \in log'
               PROVE  \E p \in Peers : rows[p] # NoRow /\ rows[p] <= e.id
    BY <1>1 DEF OnlyNeeded, PeersSynced
  <2>1. PICK p \in Peers : /\ rows[p] # NoRow
                           /\ \A q \in Peers : rows[q] # NoRow => rows[p] <= rows[q]
    BY SlowestPeer DEF IInv
  <2>2. e.id >= rows[p]
    BY <2>1 DEF PurgeOldData
  <2> QED BY <1>1, <2>1, <2>2, Ranges DEF IInv
<1> QED BY <1>3, <1>4, <1>5, <1>6, <1>7, <1>8 DEF IInv, TellingInv

LEMMA PurgeKeeps ==
  ASSUME IInv, Purge
  PROVE  IInv'
<1>1. /\ phase = "none" /\ SyncIdle /\ phase' = "wiped" /\ log' = {}
      /\ hole' = Peers \X Uids /\ clears' \in 0 .. MaxClears
      /\ UNCHANGED <<db, rows, synced, pc, uid, newRecord, peer, slow, last, got, missed,
                     copy, changes, syncs, failures>>
  BY Constants DEF Purge, app, IInv, TypeOK
<1>2. TypeOK'
  BY <1>1 DEF IInv, TypeOK, Phases
<1>3. Numbers' /\ Alone' /\ ReadIsRight' /\ OnlyNeeded'
  BY <1>1 DEF IInv, Numbers, Busies, Alone, SyncIdle, ReadIsRight, Window, OnlyNeeded
<1>4. \A p \in Peers, u \in Uids : ~ Counts(p, u)'
  BY <1>1 DEF Counts
<1>5. \A a \in Apps : uid'[a] \in Uids
  BY <1>1 DEF IInv, TypeOK
<1>6. RowHasEntry' /\ ChangesAreTold'
  BY <1>1 DEF RowHasEntry, ChangesAreTold
<1>7. AtMostOne' /\ AddedIsNew'
  BY <1>1, <1>4 DEF AtMostOne, AddedIsNew
<1>8. AddingIsNew' /\ RemovingIsGone'
  BY <1>1, <1>5 DEF AddingIsNew, RemovingIsGone, Counts
<1> QED BY <1>2, <1>3, <1>6, <1>7, <1>8 DEF IInv, TellingInv

LEMMA PurgePeersKeeps ==
  ASSUME IInv, PurgePeers
  PROVE  IInv'
<1>1. /\ phase = "wiped" /\ phase' = "none" /\ rows' = [p \in Peers |-> NoRow]
      /\ UNCHANGED <<db, log, synced, pc, uid, newRecord, peer, slow, last, got, missed,
                     copy, hole, changes, syncs, clears, failures>>
  BY DEF PurgePeers, SyncRest
<1>2. /\ Numbers' /\ RowHasEntry' /\ ChangesAreTold'
      /\ AtMostOne' /\ AddedIsNew' /\ AddingIsNew' /\ RemovingIsGone'
  BY <1>1, FewerRowsKeep
<1>3. TypeOK'
  BY <1>1 DEF IInv, TypeOK, Phases
<1>4. Alone' /\ OnlyNeeded' /\ ReadIsRight'
  BY <1>1 DEF Alone, OnlyNeeded, PeersSynced, ReadIsRight, Window
<1> QED BY <1>2, <1>3, <1>4 DEF IInv, TellingInv

(* Between the two statements of syncDone() the peer has no row *)
RowRemoved == phase = "removed" => rows[peer] = NoRow

LEMMA RowRemovedStep ==
  ASSUME IInv, RowRemoved, [Next]_vars
  PROVE  RowRemoved'
<1> SUFFICES ASSUME phase' = "removed"
             PROVE  rows'[peer'] = NoRow
  BY DEF RowRemoved
<1>1. CASE SyncRemoveRow
  BY <1>1 DEF SyncRemoveRow, IInv, TypeOK
<1>2. ASSUME UNCHANGED <<phase, rows, peer>> PROVE rows'[peer'] = NoRow
  BY <1>2 DEF RowRemoved
<1>3. CASE \E a \in Apps :
        \/ Load(a) \/ Clear(a) \/ ReplaceInserts(a)
        \/ Unlogged(a) \/ LogAdd(a) \/ FindUpdate(a) \/ LogUpdate(a)
        \/ FindAdded(a) \/ FindFails(a) \/ DeleteEntries(a) \/ LogDelete(a)
        \/ Crash(a) \/ Busy(a)
        \/ \E u \in Uids : Add(a, u) \/ Remove(a, u) \/ Replace(a, u)
  <2>1. UNCHANGED <<phase, rows, peer>>
    BY <1>3
       DEF Load, Clear, ReplaceInserts, Unlogged, LogAdd, FindUpdate, LogUpdate,
           FindAdded, FindFails, DeleteEntries, LogDelete, Crash, Busy, Failure,
           Add, Remove, Replace, Writes, LogStep, tables, sync
  <2> QED BY <1>2, <2>1
<1>4. CASE UNCHANGED vars
  BY <1>2, <1>4 DEF vars, tables, sync
<1>5. phase' # "removed"
        \/ ~ (SyncRead \/ Abandon \/ SyncInsertRow \/ PurgeOldData \/ Purge
                \/ PurgePeers \/ SyncBusy)
  BY DEF SyncRead, Abandon, SyncInsertRow, PurgeOldData, Purge, PurgePeers, SyncBusy
<1>6. ASSUME NEW p \in Peers, RemovePeer(p) \/ \E w \in BOOLEAN : StartSync(p, w)
      PROVE  FALSE
  BY <1>6 DEF RemovePeer, StartSync
<1> QED BY <1>1, <1>3, <1>4, <1>5, <1>6 DEF Next

(* A peer without a number counts on nothing *)
LEMMA SyncBusyKeeps ==
  ASSUME IInv, RowRemoved, SyncBusy
  PROVE  IInv'
<1>1. /\ phase \in {"removed", "purge"} /\ phase' \in {"purge", "none"}
      /\ phase' = "purge" => SyncIdle
      /\ failures' = failures + 1 /\ failures < MaxFailures
      /\ UNCHANGED <<db, log, rows, pc, uid, newRecord, peer, slow, last, got, missed,
                     hole, changes, syncs, clears>>
  BY DEF SyncBusy, tables, IInv, Alone
<1>2. /\ synced' \in [Apps -> BOOLEAN] /\ copy' \in [Peers -> [Uids -> Versions]]
      /\ \A p \in Peers : rows[p] # NoRow => copy'[p] = copy[p]
  <2>1. CASE copy' = copy
    BY <2>1 DEF SyncBusy, IInv, TypeOK
  <2>2. CASE phase = "removed" /\ copy' = [copy EXCEPT ![peer] = got]
    BY <2>2 DEF SyncBusy, IInv, TypeOK, RowRemoved
  <2> QED BY <2>1, <2>2 DEF SyncBusy
<1>3. failures' \in 0 .. MaxFailures /\ failures' > 0
  BY <1>1, Constants DEF IInv, TypeOK
<1>4. TypeOK'
  BY <1>1, <1>2, <1>3 DEF IInv, TypeOK, Phases
<1>5. Numbers' /\ RowHasEntry' /\ OnlyNeeded'
  BY <1>1, <1>3 DEF IInv, Numbers, Busies, RowHasEntry, OnlyNeeded
<1>6. Alone' /\ ReadIsRight'
  BY <1>1 DEF Alone, SyncIdle, ReadIsRight, Window
<1>7. \A p \in Peers, u \in Uids : Counts(p, u)' => Counts(p, u) /\ copy'[p] = copy[p]
  BY <1>1, <1>2 DEF Counts
<1>8. ChangesAreTold'
  BY <1>1, <1>2 DEF IInv, ChangesAreTold, InFlight, Told
<1>9. AtMostOne' /\ RemovingIsGone'
  BY <1>1, <1>7 DEF IInv, TellingInv, AtMostOne, Changing, RemovingIsGone, TypeOK
<1>10. AddedIsNew'
  BY <1>1, <1>7 DEF IInv, TellingInv, AddedIsNew, TypeOK, Entries
<1>11. AddingIsNew'
  BY <1>1, <1>7 DEF IInv, TellingInv, AddingIsNew, TypeOK
<1> QED BY <1>4, <1>5, <1>6, <1>8, <1>9, <1>10, <1>11 DEF IInv, TellingInv

-----------------------------------------------------------------------------
(* The theorems                                                             *)

LEMMA InitHolds ==
  ASSUME Init
  PROVE  IInv
<1>1. TypeOK
  BY Constants DEF Init, TypeOK, Points, Phases
<1>2. Numbers
  <2>1. Busies = {}
    BY DEF Init, Busies
  <2> QED BY <2>1, FS_EmptySet DEF Init, Numbers
<1>3. RowHasEntry /\ Alone /\ ChangesAreTold /\ OnlyNeeded
  BY Constants DEF Init, RowHasEntry, Alone, SyncIdle, ChangesAreTold, OnlyNeeded, PeersSynced
<1>4. TellingInv
  BY DEF Init, TellingInv, AtMostOne, AddedIsNew, AddingIsNew, RemovingIsGone, ReadIsRight,
         Window, Counts
<1> QED BY <1>1, <1>2, <1>3, <1>4 DEF IInv

LEMMA StepKeeps ==
  ASSUME IInv, RowRemoved, [Next]_vars
  PROVE  IInv'
<1>0. TypeOK
  BY DEF IInv
<1>1. ASSUME (\E a \in Apps : Load(a)) \/ UNCHANGED vars PROVE IInv'
  BY <1>1, LoadKeeps
<1>2. ASSUME NEW a \in Apps, Clear(a) PROVE IInv'
  BY <1>2, ClearKeeps
<1>3. ASSUME NEW a \in Apps, ReplaceInserts(a) PROVE IInv'
  BY <1>3, ReplaceInsertsKeeps
<1>4. ASSUME NEW a \in Apps, Unlogged(a) \/ Crash(a) \/ Busy(a) PROVE IInv'
  BY <1>0, <1>4, DropSteps, DroppedKeeps
<1>5. ASSUME NEW a \in Apps, LogAdd(a) \/ LogUpdate(a) \/ LogDelete(a) PROVE IInv'
  BY <1>5, EntrySteps, EnteredKeeps
<1>6. ASSUME NEW a \in Apps, FindUpdate(a) PROVE IInv'
  BY <1>6, FindUpdateKeeps
<1>7. ASSUME NEW a \in Apps, FindAdded(a) PROVE IInv'
  BY <1>7, FindAddedKeeps
<1>7a. ASSUME NEW a \in Apps, FindFails(a) PROVE IInv'
  BY <1>7a, FindFailsKeeps
<1>8. ASSUME NEW a \in Apps, DeleteEntries(a) PROVE IInv'
  BY <1>8, DeleteEntriesKeeps
<1>9. ASSUME NEW a \in Apps, NEW u \in Uids, Add(a, u) PROVE IInv'
  BY <1>0, <1>9, AddBegins, BegunKeeps
<1>10. ASSUME NEW a \in Apps, NEW u \in Uids, Remove(a, u) PROVE IInv'
  BY <1>10, RemoveBegins, BegunKeeps
<1>11. ASSUME NEW a \in Apps, NEW u \in Uids, Replace(a, u) PROVE IInv'
  BY <1>11, ReplaceBegins, BegunKeeps
<1>12. ASSUME NEW p \in Peers, RemovePeer(p) PROVE IInv'
  BY <1>12, RemovePeerKeeps
<1>13. ASSUME NEW p \in Peers, NEW w \in BOOLEAN, StartSync(p, w) PROVE IInv'
  BY <1>13, StartSyncKeeps
<1>14. ASSUME SyncRead \/ Abandon \/ SyncRemoveRow \/ SyncInsertRow PROVE IInv'
  BY <1>14, SyncReadKeeps, AbandonKeeps, SyncRemoveRowKeeps, SyncInsertRowKeeps
<1>15. ASSUME PurgeOldData \/ Purge \/ PurgePeers \/ SyncBusy PROVE IInv'
  BY <1>15, PurgeOldDataKeeps, PurgeKeeps, PurgePeersKeeps, SyncBusyKeeps
<1> QED BY <1>1, <1>2, <1>3, <1>4, <1>5, <1>6, <1>7, <1>7a, <1>8, <1>9, <1>10, <1>11, <1>12, <1>13,
           <1>14, <1>15 DEF Next

LEMMA AlwaysIInv == Spec => []IInv
<1>1. Init => IInv /\ RowRemoved
  BY InitHolds DEF Init, RowRemoved
<1>2. IInv /\ RowRemoved /\ [Next]_vars => IInv' /\ RowRemoved'
  BY StepKeeps, RowRemovedStep
<1> QED BY <1>1, <1>2, PTL DEF Spec

(* Every variable stays in its type: the tables, the members of each        *)
(* application's OPimChangeLog_SQL, the numbers, which are one per entry     *)
(* (opimchangelog_sql.cpp).                                                  *)
THEOREM TypeCorrect == Spec => []TypeOK
<1>1. IInv => TypeOK
  BY DEF IInv
<1> QED BY <1>1, AlwaysIInv, PTL

(* Whatever a peer's copy differs in, the log names since the number that    *)
(* syncDone() gave the peer, whatever other applications and peers do between*)
(* two statements. The theorem leaves aside the holes: what was changed      *)
(* while the peer synchronised, by two at once, by an application that did   *)
(* not know of the peer, with a uid used again, by clear() or purge(), or    *)
(* across a failure.                                                         *)
THEOREM ChangesAlwaysTold == Spec => []ChangesAreTold
<1>1. IInv => ChangesAreTold
  BY DEF IInv
<1> QED BY <1>1, AlwaysIInv, PTL

(* A peer's number is never above the highest entry, which purgeOldData()    *)
(* and addDeleteEntry() leave in the table for it: the next entry counts as  *)
(* new for every peer the log is complete for.                               *)
THEOREM NextAlwaysNew == Spec => []NextIsNew
<1>1. ASSUME IInv PROVE NextIsNew
  <2> SUFFICES ASSUME NEW p \in Peers, rows[p] > MaxLogId
               PROVE  {p} \X Uids \subseteq hole
    BY DEF NextIsNew
  <2>1. \A e \in log : e.id # rows[p]
    BY <1>1, LastEntry, Ranges DEF IInv
  <2>2. rows[p] > 0
    BY <1>1, LastEntry, Ranges, Constants DEF IInv
  <2> QED BY <1>1, <2>1, <2>2 DEF IInv, RowHasEntry
<1>2. IInv => NextIsNew
  BY <1>1
<1> QED BY <1>2, AlwaysIInv, PTL

(* purgeOldData() keeps no entry that is older than every peer's number, and *)
(* nothing but a failure between syncDone() or removePeer() and it leaves    *)
(* such an entry.                                                            *)
THEOREM OnlyNeededKept == Spec => []OnlyNeeded
<1>1. IInv => OnlyNeeded
  BY DEF IInv
<1> QED BY <1>1, AlwaysIInv, PTL

(* syncDone() gives a peer its new number when the peer has what the        *)
(* database has, but for holes: what it was told of since its last number   *)
(* is all it needed to be told of.                                          *)
THEOREM SyncedAlwaysRight == Spec => SyncedIsRight
<1>1. ASSUME IInv, SyncInsertRow, NEW u \in Uids, <<peer, u>> \notin hole'
      PROVE  copy'[peer][u] = db[u]
  <2>1. copy'[peer] = got
    BY <1>1 DEF SyncInsertRow, IInv, TypeOK
  <2> QED BY <1>1, <2>1, SyncGives
<1>2. IInv /\ [Next]_vars =>
        [SyncInsertRow => \A u \in Uids : <<peer, u>> \in hole' \/ copy'[peer][u] = db[u]]_vars
  BY <1>1
<1> QED BY <1>2, AlwaysIInv, PTL DEF Spec, SyncedIsRight
=============================================================================
