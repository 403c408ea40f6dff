------------------------- MODULE ContactStoreProofs -------------------------
(***************************************************************************)
(* Proofs about ContactStore, for any applications, contacts and bounds.   *)
(***************************************************************************)
EXTENDS ContactStore, SequenceTheorems, WellFoundedInduction, TLAPS

(* A nonempty set of naturals has a least element, so a set of positions *)
(* has a last one.                                                       *)
LEMMA LeastExists ==
  ASSUME NEW S \in SUBSET Nat, S # {}
  PROVE  \E m \in S : \A n \in S : m <= n
<1>1. PICK m \in S : \A n \in S : ~ (<<n, m>> \in OpToRel(<, Nat))
  BY WFMin, NatLessThanWellFounded, Zenon
<1>2. \A n \in S : ~ (n < m)
  BY <1>1, Zenon DEF OpToRel
<1> QED  BY <1>2

LEMMA LastExists ==
  ASSUME NEW n \in Nat, NEW S \in SUBSET (1 .. n), S # {}
  PROVE  \E i \in S : \A j \in S : j <= i
<1> DEFINE T == {n - i : i \in S}
<1>1. \A i \in S : i \in 1 .. n /\ n - i \in Nat
  OBVIOUS
<1>2. T \in SUBSET Nat /\ T # {}
  BY <1>1, Zenon
<1>3. PICK t \in T : \A u \in T : t <= u
  <2> HIDE DEF T
  <2> QED  BY <1>2, LeastExists
<1>4. PICK i \in S : t = n - i
  BY <1>3
<1>5. \A j \in S : n - i <= n - j
  BY <1>3, <1>4
<1> QED  BY <1>1, <1>5

(* A uid in the list is found, at its last position. *)
LEMMA FoundIsLast ==
  ASSUME NEW l \in Seq(Contact), NEW u, Has(l, u)
  PROVE  IsFound(l, u, Found(l, u)) /\ Found(l, u) \in 1 .. Len(l)
<1> DEFINE S == {i \in 1 .. Len(l) : l[i].uid = u}
<1>1. DOMAIN l = 1 .. Len(l) /\ Len(l) \in Nat
  OBVIOUS
<1>2. S \in SUBSET (1 .. Len(l)) /\ S # {}
  BY <1>1 DEF Has
<1>3. PICK i \in S : \A j \in S : j <= i
  <2> HIDE DEF S
  <2> QED  BY <1>1, <1>2, LastExists
<1>4. IsFound(l, u, i)
  BY <1>1, <1>3 DEF IsFound
<1>5. IsFound(l, u, Found(l, u))
  BY <1>4 DEF Found
<1> QED  BY <1>1, <1>5 DEF IsFound

LEMMA FoundUnique ==
  ASSUME NEW l \in Seq(Contact), NEW u, NEW i, IsFound(l, u, i)
  PROVE  Found(l, u) = i
<1>0. i \in DOMAIN l
  BY DEF IsFound
<1>1. IsFound(l, u, Found(l, u))
  BY <1>0 DEF Found
<1>2. /\ i \in 1 .. Len(l) /\ Found(l, u) \in 1 .. Len(l)
      /\ i <= Found(l, u) /\ Found(l, u) <= i
  BY <1>1 DEF IsFound
<1> QED  BY <1>2

LEMMA FoundIsContact ==
  ASSUME NEW l \in Seq(Contact), NEW u, Has(l, u)
  PROVE  l[Found(l, u)] \in Contact /\ l[Found(l, u)].uid = u
BY FoundIsLast DEF IsFound

(* What removing one contact leaves. *)
LEMMA WithoutType ==
  ASSUME NEW l \in Seq(Contact), NEW i \in 1 .. Len(l)
  PROVE  /\ Without(l, i) \in Seq(Contact)
         /\ Len(Without(l, i)) = Len(l) - 1
         /\ Values(Without(l, i)) \subseteq Values(l)
<1>1. \A k \in 1 .. Len(l) - 1 :
        /\ (IF k < i THEN k ELSE k + 1) \in 1 .. Len(l)
        /\ l[IF k < i THEN k ELSE k + 1] \in Contact
  OBVIOUS
<1>2. Len(l) - 1 \in Nat
  OBVIOUS
<1>3. Without(l, i) \in Seq(Contact)
  BY <1>1, <1>2, IsASeq DEF Without
<1>4. Len(Without(l, i)) = Len(l) - 1
  BY <1>2, <1>3 DEF Without
<1>5. Values(Without(l, i)) \subseteq Values(l)
  BY <1>1 DEF Values, Without
<1> QED  BY <1>3, <1>4, <1>5

LEMMA AppendValues ==
  ASSUME NEW S, NEW s \in Seq(S), NEW c \in S
  PROVE  Values(Append(s, c)) = Values(s) \cup {c}
<1>1. /\ Len(Append(s, c)) = Len(s) + 1
      /\ \A k \in 1 .. Len(s) : Append(s, c)[k] = s[k]
      /\ Append(s, c)[Len(s) + 1] = c
      /\ DOMAIN s = 1 .. Len(s) /\ DOMAIN Append(s, c) = 1 .. Len(s) + 1
  OBVIOUS
<1> QED  BY <1>1 DEF Values

LEMMA ConcatValues ==
  ASSUME NEW s \in Seq(Contact), NEW t \in Seq(Contact)
  PROVE  Values(s \o t) = Values(s) \cup Values(t)
<1>1. /\ DOMAIN (s \o t) = 1 .. Len(s) + Len(t)
      /\ \A k \in 1 .. Len(s) : (s \o t)[k] = s[k]
      /\ \A k \in 1 .. Len(t) : (s \o t)[Len(s) + k] = t[k]
      /\ DOMAIN s = 1 .. Len(s) /\ DOMAIN t = 1 .. Len(t)
  OBVIOUS
<1>2. ASSUME NEW k \in 1 .. Len(s) + Len(t)
      PROVE  (s \o t)[k] \in Values(s) \cup Values(t)
  <2>1. CASE k \in 1 .. Len(s)
    BY <1>1, <2>1 DEF Values
  <2>2. CASE k \notin 1 .. Len(s)
    <3>1. k - Len(s) \in 1 .. Len(t) /\ k = Len(s) + (k - Len(s))
      BY <2>2
    <3> QED  BY <1>1, <3>1 DEF Values
  <2> QED  BY <2>1, <2>2
<1>3. ASSUME NEW k \in 1 .. Len(t)
      PROVE  t[k] \in Values(s \o t)
  <2>1. Len(s) + k \in 1 .. Len(s) + Len(t)
    OBVIOUS
  <2> QED  BY <1>1, <2>1 DEF Values
<1>4. ASSUME NEW k \in 1 .. Len(s)
      PROVE  s[k] \in Values(s \o t)
  BY <1>1 DEF Values
<1> QED  BY <1>1, <1>2, <1>3, <1>4 DEF Values

Record == [action : Actions, contact : Contact]

LEMMA ReplayedType ==
  ASSUME NEW j \in Seq(Record)
  PROVE  Replayed(j) \in Seq(Contact) /\ Len(Replayed(j)) = Len(j)
<1>0. \A i \in 1 .. Len(j) : j[i] \in Record
  OBVIOUS
<1>1. \A i \in 1 .. Len(j) : j[i].contact \in Contact
  BY <1>0 DEF Record
<1>2. Replayed(j) = [i \in 1 .. Len(j) |-> j[i].contact] /\ Len(j) \in Nat
  BY DEF Replayed
<1>3. Replayed(j) \in Seq(Contact)
  BY <1>1, <1>2, IsASeq
<1> QED  BY <1>2, <1>3

(* Appending a contact of another uid, and removing one, leave what is     *)
(* found for a uid as it was.                                              *)
LEMMA FoundAfterAppend ==
  ASSUME NEW l \in Seq(Contact), NEW c \in Contact, NEW u, Has(l, u), c.uid # u
  PROVE  /\ Has(Append(l, c), u)
         /\ Append(l, c)[Found(Append(l, c), u)] = l[Found(l, u)]
<1> DEFINE m == Append(l, c)
<1>1. /\ DOMAIN l = 1 .. Len(l) /\ DOMAIN m = 1 .. Len(l) + 1
      /\ \A k \in 1 .. Len(l) : m[k] = l[k]
      /\ m[Len(l) + 1] = c /\ m \in Seq(Contact)
  OBVIOUS
<1>2. IsFound(l, u, Found(l, u)) /\ Found(l, u) \in 1 .. Len(l)
  BY FoundIsLast
<1> HIDE DEF m
<1>3. IsFound(m, u, Found(l, u))
  BY <1>1, <1>2 DEF IsFound
<1>4. Found(m, u) = Found(l, u)
  BY <1>1, <1>3, FoundUnique
<1>5. Has(m, u) /\ m[Found(m, u)] = l[Found(l, u)]
  BY <1>1, <1>2, <1>3, <1>4 DEF IsFound, Has
<1> QED  BY <1>5 DEF m

LEMMA FoundAppended ==
  ASSUME NEW l \in Seq(Contact), NEW c \in Contact
  PROVE  Has(Append(l, c), c.uid) /\ Append(l, c)[Found(Append(l, c), c.uid)] = c
<1> DEFINE m == Append(l, c)
<1>1. /\ DOMAIN m = 1 .. Len(l) + 1 /\ Len(l) \in Nat
      /\ m[Len(l) + 1] = c /\ m \in Seq(Contact)
  OBVIOUS
<1> HIDE DEF m
<1>2. IsFound(m, c.uid, Len(l) + 1)
  BY <1>1 DEF IsFound
<1>3. Found(m, c.uid) = Len(l) + 1
  BY <1>1, <1>2, FoundUnique
<1>4. Has(m, c.uid) /\ m[Found(m, c.uid)] = c
  BY <1>1, <1>3 DEF Has
<1> QED  BY <1>4 DEF m

LEMMA FoundAfterRemoval ==
  ASSUME NEW l \in Seq(Contact), NEW i \in 1 .. Len(l),
         NEW u, Has(l, u), l[i].uid # u
  PROVE  /\ Has(Without(l, i), u)
         /\ Without(l, i)[Found(Without(l, i), u)] = l[Found(l, u)]
<1> DEFINE m == Without(l, i)
           p == Found(l, u)
           q == IF p < i THEN p ELSE p - 1
<1>1. /\ DOMAIN l = 1 .. Len(l) /\ DOMAIN m = 1 .. Len(l) - 1
      /\ \A k \in 1 .. Len(l) - 1 : m[k] = IF k < i THEN l[k] ELSE l[k + 1]
      /\ Len(l) \in Nat
  BY DEF Without
<1>2. m \in Seq(Contact)
  BY WithoutType
<1>3. IsFound(l, u, p) /\ p \in 1 .. Len(l)
  BY FoundIsLast
<1> HIDE DEF m, p
<1>4. p # i /\ l[p].uid = u /\ \A k \in 1 .. Len(l) : l[k].uid = u => k <= p
  BY <1>1, <1>3 DEF IsFound
<1>5. q \in 1 .. Len(l) - 1 /\ m[q] = l[p]
  BY <1>1, <1>3, <1>4
<1>6. ASSUME NEW k \in 1 .. Len(l) - 1, m[k].uid = u
      PROVE  k <= q
  <2>1. CASE k < i
    <3>1. k <= p
      BY <1>1, <1>4, <1>6, <2>1
    <3> QED  BY <1>3, <1>4, <2>1, <3>1
  <2>2. CASE ~ (k < i)
    <3>1. k + 1 <= p
      BY <1>1, <1>4, <1>6, <2>2
    <3> QED  BY <1>3, <2>2, <3>1
  <2> QED  BY <2>1, <2>2
<1>7. IsFound(m, u, q)
  BY <1>1, <1>4, <1>5, <1>6 DEF IsFound
<1>8. Found(m, u) = q
  BY <1>2, <1>7, FoundUnique
<1>9. Has(m, u) /\ m[Found(m, u)] = l[p]
  BY <1>1, <1>4, <1>5, <1>8 DEF Has
<1> QED  BY <1>9 DEF m, p

-----------------------------------------------------------------------------
(* Type correctness *)

LEMMA LoadedType ==
  ASSUME TypeOK, NEW a \in Apps, file # None
  PROVE  /\ Loaded(a) \in Seq(Contact)
         /\ Values(Loaded(a)) = Values(file) \cup Values(Replayed(journal[a]))
         /\ Loaded(a) = <<>> => file = <<>>
<1>1. file \in Seq(Contact) /\ journal[a] \in Seq(Record)
  BY DEF TypeOK, Record
<1>2. Replayed(journal[a]) \in Seq(Contact)
  BY <1>1, ReplayedType
<1>3. Loaded(a) \in Seq(Contact) /\ (Loaded(a) = <<>> => file = <<>>)
  BY <1>1, <1>2 DEF Loaded
<1> QED  BY <1>1, <1>2, <1>3, ConcatValues DEF Loaded

LEMMA LoadType ==
  ASSUME TypeOK, NEW a \in Apps, LoadDatabase(a)
  PROVE  /\ list' \in [Apps -> Seq(Contact)]
         /\ changed' \in [Apps -> BOOLEAN]
         /\ journalling' \in [Apps -> BOOLEAN]
         /\ cache' \in [Apps -> [Uids -> Contact \cup {None}]]
         /\ base' \in [Apps -> Seq(Contact)]
         /\ missed' \in [Apps -> BOOLEAN] /\ cleared' \in [Apps -> BOOLEAN]
         /\ \A b \in Apps : b # a => changed'[b] = changed[b]
<1> USE DEF TypeOK
<1>1. NoCache \in [Uids -> Contact \cup {None}]
  BY DEF NoCache
<1>2. cache' \in [Apps -> [Uids -> Contact \cup {None}]]
  BY <1>1 DEF LoadDatabase, CacheAfterLoad
<1>5. missed' \in [Apps -> BOOLEAN] /\ cleared' \in [Apps -> BOOLEAN]
  BY DEF LoadDatabase
<1>3. CASE file = None
  <2>1. /\ list' = [list EXCEPT ![a] = <<>>]
        /\ base' = [base EXCEPT ![a] = <<>>]
        /\ UNCHANGED <<changed, journalling>>
    BY <1>3 DEF LoadDatabase
  <2> QED  BY <1>2, <1>5, <2>1
<1>4. CASE file # None
  <2>1. /\ list' = [list EXCEPT ![a] = Loaded(a)]
        /\ base' = [base EXCEPT ![a] = file]
        /\ journalling' = [journalling EXCEPT ![a] = TRUE]
        /\ changed' = [changed EXCEPT ![a] = ChangedByLoad(a)]
    BY <1>4 DEF LoadDatabase
  <2>2. Loaded(a) \in Seq(Contact) /\ file \in Seq(Contact)
    BY <1>4, LoadedType
  <2>3. ChangedByLoad(a) \in BOOLEAN
    BY DEF ChangedByLoad
  <2> HIDE DEF TypeOK
  <2>4. list' \in [Apps -> Seq(Contact)] /\ base' \in [Apps -> Seq(Contact)]
    BY <2>1, <2>2 DEF TypeOK
  <2>5. journalling' \in [Apps -> BOOLEAN] /\ changed' \in [Apps -> BOOLEAN]
    BY <2>1, <2>3, Zenon DEF TypeOK
  <2>6. \A b \in Apps : b # a => changed'[b] = changed[b]
    BY <2>1 DEF TypeOK
  <2> QED  BY <1>2, <1>5, <2>4, <2>5, <2>6
<1> QED  BY <1>3, <1>4

LEMMA JournalType ==
  ASSUME TypeOK, NEW a \in Apps, NEW action \in Actions, NEW c \in Contact,
         UpdateJournal(a, action, c)
  PROVE  journal' \in [Apps -> Seq([action : Actions, contact : Contact])]
<1> DEFINE r == [action |-> action, contact |-> c]
<1>1. r \in Record
  BY DEF Record
<1>2. journal \in [Apps -> Seq(Record)]
  BY DEF TypeOK, Record
<1>3. Append(journal[a], r) \in Seq(Record)
  BY <1>1, <1>2
<1>4. CASE journalling[a]
  <2>1. journal' = [journal EXCEPT ![a] = Append(journal[a], r)]
    BY <1>4 DEF UpdateJournal
  <2> QED  BY <1>2, <1>3, <2>1 DEF Record
<1>5. CASE ~journalling[a]
  BY <1>5 DEF UpdateJournal, TypeOK
<1> QED  BY <1>4, <1>5

LEMMA CachedType ==
  ASSUME TypeOK, NEW a \in Apps, NEW u \in Uids,
         NEW c \in Contact \cup {None}, Cached(a, u, c)
  PROVE  cache' \in [Apps -> [Uids -> Contact \cup {None}]]
BY DEF TypeOK, Cached

(* The frame of a change, and the list after it *)
LEMMA ChangeType ==
  ASSUME TypeOK, NEW a \in Apps, Changes(a),
         list' \in [Apps -> Seq(Contact)],
         cache' \in [Apps -> [Uids -> Contact \cup {None}]],
         journal' \in [Apps -> Seq([action : Actions, contact : Contact])]
  PROVE  TypeOK'
<1>1. changed' = [changed EXCEPT ![a] = TRUE]
      /\ UNCHANGED <<journalling, step, closing, file, newFile, known>>
  BY DEF Changes
<1>2. counts' \in Nat \X Nat \X Nat \X Nat
  BY DEF TypeOK, Changes, counts
<1>3. changed' \in [Apps -> BOOLEAN]
  BY <1>1, Zenon DEF TypeOK
<1>4. \A b \in Apps : step'[b] \in {"rename", "end"} => changed'[b]
  BY <1>1, Zenon DEF TypeOK
<1>5. /\ journalling' = journalling /\ step' = step /\ closing' = closing
      /\ file' = file /\ newFile' = newFile /\ base' = base
      /\ missed' = missed /\ cleared' = cleared
  BY <1>1 DEF known
<1> QED  BY <1>2, <1>3, <1>4, <1>5 DEF TypeOK

LEMMA GoneType ==
  ASSUME TypeOK, NEW a \in Apps, Gone(a),
         journal' \in [Apps -> Seq([action : Actions, contact : Contact])],
         file' \in Seq(Contact) \cup {None}, newFile' \in Seq(Contact) \cup {None},
         counts' \in Nat \X Nat \X Nat \X Nat
  PROVE  TypeOK'
<1>1. /\ list' = [list EXCEPT ![a] = <<>>]
      /\ changed' = [changed EXCEPT ![a] = FALSE]
      /\ journalling' = [journalling EXCEPT ![a] = FALSE]
      /\ cache' = [cache EXCEPT ![a] = NoCache]
      /\ step' = [step EXCEPT ![a] = "closed"]
      /\ closing' = [closing EXCEPT ![a] = FALSE]
      /\ base' = [base EXCEPT ![a] = <<>>]
      /\ missed' = [missed EXCEPT ![a] = FALSE]
      /\ cleared' = [cleared EXCEPT ![a] = FALSE]
  BY DEF Gone
<1>2. /\ list' \in [Apps -> Seq(Contact)] /\ base' \in [Apps -> Seq(Contact)]
      /\ step' \in [Apps -> {"closed", "idle", "rename", "end"}]
  BY <1>1 DEF TypeOK
<1>3. /\ changed' \in [Apps -> BOOLEAN] /\ journalling' \in [Apps -> BOOLEAN]
      /\ closing' \in [Apps -> BOOLEAN]
      /\ missed' \in [Apps -> BOOLEAN] /\ cleared' \in [Apps -> BOOLEAN]
  BY <1>1 DEF TypeOK
<1>4. cache' \in [Apps -> [Uids -> Contact \cup {None}]]
  BY <1>1 DEF TypeOK, NoCache
<1>5. \A b \in Apps : step'[b] \in {"rename", "end"} => changed'[b]
  <2> TAKE b \in Apps
  <2>1. CASE b = a
    BY <1>1, <2>1 DEF TypeOK
  <2>2. CASE b # a
    <3>1. step'[b] = step[b] /\ changed'[b] = changed[b]
      BY <1>1, <2>2 DEF TypeOK
    <3> QED  BY <3>1, Zenon DEF TypeOK
  <2> QED  BY <2>1, <2>2
<1> QED  BY <1>2, <1>3, <1>4, <1>5 DEF TypeOK

LEMMA InitType == Init => TypeOK
<1> SUFFICES ASSUME Init PROVE TypeOK
  OBVIOUS
<1>1. NoCache \in [Uids -> Contact \cup {None}]
  BY DEF NoCache
<1>2. file \in Seq(Contact) \cup {None}
  <2>1. file = None \/ \E c \in Contact : file = <<c>>
    BY DEF Init
  <2>2. \A c \in Contact : <<c>> \in Seq(Contact)
    OBVIOUS
  <2> QED  BY <2>1, <2>2
<1>3. counts \in Nat \X Nat \X Nat \X Nat
  BY DEF Init, counts
<1> QED  BY <1>1, <1>2, <1>3 DEF Init, TypeOK

LEMMA EditType ==
  ASSUME TypeOK, NEW a \in Apps,
         \/ \E c \in Contact : Add(a, c) \/ Replace(a, c)
         \/ \E u \in Uids : Remove(a, u)
  PROVE  TypeOK'
<1>1. list[a] \in Seq(Contact) /\ list \in [Apps -> Seq(Contact)]
      /\ journal \in [Apps -> Seq([action : Actions, contact : Contact])]
  BY DEF TypeOK
<1>2. ASSUME NEW c \in Contact, Add(a, c)
      PROVE  TypeOK'
  <2>1. c.uid \in Uids /\ "ACTION_ADD" \in Actions
    BY DEF Contact, Actions
  <2>2. journal' \in [Apps -> Seq([action : Actions, contact : Contact])]
    BY <1>2, <2>1, JournalType DEF Add
  <2>3. cache' \in [Apps -> [Uids -> Contact \cup {None}]]
    BY <1>2, <2>1, CachedType DEF Add
  <2>4. list' \in [Apps -> Seq(Contact)]
    BY <1>1, <1>2 DEF Add
  <2> QED  BY <1>2, <2>2, <2>3, <2>4, ChangeType DEF Add
<1>3. ASSUME NEW c \in Contact, Replace(a, c)
      PROVE  TypeOK'
  <2>1. c.uid \in Uids /\ "ACTION_REPLACE" \in Actions
    BY DEF Contact, Actions
  <2>2. cache' \in [Apps -> [Uids -> Contact \cup {None}]]
    BY <1>3, <2>1, CachedType DEF Replace
  <2>3. CASE Has(list[a], c.uid)
    <3>1. Append(Without(list[a], Found(list[a], c.uid)), c) \in Seq(Contact)
      BY <1>1, <2>3, FoundIsLast, WithoutType
    <3>2. list' \in [Apps -> Seq(Contact)]
      BY <1>1, <1>3, <2>3, <3>1 DEF Replace
    <3>3. journal' \in [Apps -> Seq([action : Actions, contact : Contact])]
      BY <1>3, <2>1, <2>3, JournalType DEF Replace
    <3> QED  BY <1>3, <2>2, <3>2, <3>3, ChangeType DEF Replace
  <2>4. CASE ~Has(list[a], c.uid)
    <3>1. UNCHANGED <<journal, list>>
      BY <1>3, <2>4 DEF Replace
    <3> QED  BY <1>1, <1>3, <2>2, <3>1, ChangeType DEF Replace
  <2> QED  BY <2>3, <2>4
<1>4. ASSUME NEW u \in Uids, Remove(a, u)
      PROVE  TypeOK'
  <2>1. cache' \in [Apps -> [Uids -> Contact \cup {None}]]
    BY <1>4, CachedType DEF Remove
  <2>2. CASE Has(list[a], u)
    <3>1. /\ Without(list[a], Found(list[a], u)) \in Seq(Contact)
          /\ list[a][Found(list[a], u)] \in Contact /\ "ACTION_REMOVE" \in Actions
      BY <1>1, <2>2, FoundIsLast, FoundIsContact, WithoutType DEF Actions
    <3>2. list' \in [Apps -> Seq(Contact)]
      BY <1>1, <1>4, <2>2, <3>1 DEF Remove
    <3>3. journal' \in [Apps -> Seq([action : Actions, contact : Contact])]
      BY <1>4, <2>2, <3>1, JournalType DEF Remove
    <3> QED  BY <1>4, <2>1, <3>2, <3>3, ChangeType DEF Remove
  <2>3. CASE ~Has(list[a], u)
    <3>1. UNCHANGED <<journal, list>>
      BY <1>4, <2>3 DEF Remove
    <3> QED  BY <1>1, <1>4, <2>1, <3>1, ChangeType DEF Remove
  <2> QED  BY <2>2, <2>3
<1> QED  BY <1>2, <1>3, <1>4

LEMMA SaveType ==
  ASSUME TypeOK, NEW a \in Apps,
         \/ \E closes \in BOOLEAN : SaveWrite(a, closes) \/ SaveFails(a, closes)
         \/ SaveRename(a) \/ SaveRenameFails(a) \/ SaveEnd(a)
         \/ Close(a) \/ Crash(a)
  PROVE  TypeOK'
<1>1. /\ journal \in [Apps -> Seq([action : Actions, contact : Contact])]
      /\ file \in Seq(Contact) \cup {None} /\ newFile \in Seq(Contact) \cup {None}
      /\ counts \in Nat \X Nat \X Nat \X Nat
      /\ list[a] \in Seq(Contact)
  BY DEF TypeOK
<1>2. ASSUME NEW closes \in BOOLEAN, SaveWrite(a, closes)
      PROVE  TypeOK'
  <2>1. /\ newFile' = list[a] /\ changed[a]
        /\ step' = [step EXCEPT ![a] = "rename"]
        /\ closing' = [closing EXCEPT ![a] = closes]
        /\ UNCHANGED <<list, changed, journalling, cache, journal, file, known, counts>>
    BY <1>2 DEF SaveWrite
  <2>2. changed' = changed /\ closing' \in [Apps -> BOOLEAN]
    BY <2>1, Zenon DEF TypeOK
  <2>3. newFile' \in Seq(Contact) \cup {None}
        /\ step' \in [Apps -> {"closed", "idle", "rename", "end"}]
    BY <1>1, <2>1 DEF TypeOK
  <2>4. \A b \in Apps : step'[b] \in {"rename", "end"} => changed'[b]
    <3> TAKE b \in Apps
    <3>1. CASE b = a
      BY <2>1, <3>1, Zenon
    <3>2. CASE b # a
      <4>1. step'[b] = step[b] /\ changed'[b] = changed[b]
        BY <2>1, <3>2 DEF TypeOK
      <4> QED  BY <4>1, Zenon DEF TypeOK
    <3> QED  BY <3>1, <3>2
  <2> QED  BY <2>1, <2>2, <2>3, <2>4 DEF TypeOK, counts, known
<1>3. ASSUME NEW closes \in BOOLEAN, SaveFails(a, closes)
      PROVE  TypeOK'
  <2>1. newFile' \in {newFile, None} /\ UNCHANGED <<journal, file, counts>>
    BY <1>3 DEF SaveFails
  <2>2. CASE closes
    BY <1>1, <1>3, <2>1, <2>2, GoneType DEF SaveFails
  <2>3. CASE ~closes
    <3>1. UNCHANGED <<memory, known>>
      BY <1>3, <2>3 DEF SaveFails
    <3> QED  BY <2>1, <3>1 DEF TypeOK, memory, known, counts
  <2> QED  BY <2>2, <2>3
<1>4. ASSUME SaveRename(a) \/ SaveRenameFails(a)
      PROVE  TypeOK'
  <2>1. /\ Is(a, "rename")
        /\ newFile' = None /\ file' \in {file, newFile}
        /\ base' \in {base, [base EXCEPT ![a] = list[a]]}
        /\ step' = [step EXCEPT ![a] = "end"]
        /\ UNCHANGED <<list, changed, journalling, cache, closing, journal>>
        /\ UNCHANGED <<missed, cleared>>
    <3>1. [base EXCEPT ![a] = base[a]] = base
      BY DEF TypeOK
    <3> QED  BY <1>4, <3>1 DEF SaveRename, SaveRenameFails, known
  <2>2. counts' \in Nat \X Nat \X Nat \X Nat
    BY <1>1, <1>4 DEF SaveRename, SaveRenameFails, counts
  <2>3. \A b \in Apps : step'[b] \in {"rename", "end"} => changed'[b]
    BY <2>1 DEF TypeOK, Is
  <2> QED  BY <1>1, <2>1, <2>2, <2>3 DEF TypeOK
<1>5. ASSUME SaveEnd(a)
      PROVE  TypeOK'
  <2>1. /\ journal' \in [Apps -> Seq([action : Actions, contact : Contact])]
        /\ UNCHANGED <<file, newFile, counts>>
    <3>1. journal' = [journal EXCEPT ![a] = <<>>] /\ UNCHANGED <<file, newFile, counts>>
      BY <1>5 DEF SaveEnd
    <3>2. journal \in [Apps -> Seq(Record)]
      BY <1>1, Zenon DEF Record
    <3>3. <<>> \in Seq(Record)
      OBVIOUS
    <3>4. journal' \in [Apps -> Seq(Record)]
      BY <3>1, <3>2, <3>3
    <3> QED  BY <3>1, <3>4, Zenon DEF Record
  <2>2. CASE closing[a]
    BY <1>1, <1>5, <2>1, <2>2, GoneType DEF SaveEnd
  <2>3. CASE ~closing[a]
    <3>1. /\ changed' = [changed EXCEPT ![a] = FALSE]
          /\ step' = [step EXCEPT ![a] = "idle"]
          /\ missed' = [missed EXCEPT ![a] = base[a] # list[a]]
          /\ cleared' = [cleared EXCEPT ![a] = FALSE]
          /\ UNCHANGED <<list, journalling, cache, closing, base>>
      BY <1>5, <2>3 DEF SaveEnd
    <3>2. changed' \in [Apps -> BOOLEAN]
          /\ missed' \in [Apps -> BOOLEAN] /\ cleared' \in [Apps -> BOOLEAN]
          /\ step' \in [Apps -> {"closed", "idle", "rename", "end"}]
      BY <3>1 DEF TypeOK
    <3>3. \A b \in Apps : step'[b] \in {"rename", "end"} => changed'[b]
      <4> TAKE b \in Apps
      <4>1. CASE b = a
        BY <3>1, <4>1 DEF TypeOK
      <4>2. CASE b # a
        <5>1. step'[b] = step[b] /\ changed'[b] = changed[b]
          BY <3>1, <4>2 DEF TypeOK
        <5> QED  BY <5>1, Zenon DEF TypeOK
      <4> QED  BY <4>1, <4>2
    <3> QED  BY <2>1, <3>1, <3>2, <3>3 DEF TypeOK, counts
  <2> QED  BY <2>2, <2>3
<1>6. ASSUME Close(a)
      PROVE  TypeOK'
  BY <1>1, <1>6, GoneType DEF Close, files, counts
<1>7. ASSUME Crash(a)
      PROVE  TypeOK'
  <2>1. counts' \in Nat \X Nat \X Nat \X Nat
    BY <1>1, <1>7 DEF Crash, counts
  <2> QED  BY <1>1, <1>7, <2>1, GoneType DEF Crash, files
<1> QED  BY <1>2, <1>3, <1>4, <1>5, <1>6, <1>7

LEMMA NextType == TypeOK /\ [Next]_vars => TypeOK'
<1> SUFFICES ASSUME TypeOK, [Next]_vars PROVE TypeOK'
  OBVIOUS
<1>1. CASE UNCHANGED vars
  BY <1>1 DEF vars, memory, files, known, counts, TypeOK
<1>2. ASSUME NEW a \in Apps, Step(a)
      PROVE  TypeOK'
  <2>1. CASE Start(a) \/ Reload(a)
    <3>1. LoadDatabase(a) /\ UNCHANGED <<closing, files, counts>>
      BY <2>1 DEF Start, Reload
    <3>2. step' \in [Apps -> {"closed", "idle", "rename", "end"}]
      BY <2>1 DEF Start, Reload, TypeOK
    <3>3. \A b \in Apps : step'[b] \in {"rename", "end"} => b # a /\ step'[b] = step[b]
      BY <2>1 DEF Start, Reload, TypeOK, Is
    <3>4. \A b \in Apps : step'[b] \in {"rename", "end"} => changed'[b]
      <4> TAKE b \in Apps
      <4>1. CASE b = a
        BY <3>3, <4>1
      <4>2. CASE b # a
        <5>1. changed'[b] = changed[b]
          BY <3>1, <4>2, LoadType
        <5> QED  BY <3>3, <5>1, Zenon DEF TypeOK
      <4> QED  BY <4>1, <4>2
    <3>5. /\ closing' = closing /\ journal' = journal /\ file' = file
          /\ newFile' = newFile /\ counts' = counts
      BY <3>1 DEF files
    <3> QED  BY <3>1, <3>2, <3>4, <3>5, LoadType DEF TypeOK
  <2>2. CASE \/ \E c \in Contact : Add(a, c) \/ Replace(a, c)
             \/ \E u \in Uids : Remove(a, u)
    BY <2>2, EditType
  <2>3. ASSUME NEW u \in Uids, Find(a, u)
        PROVE  TypeOK'
    <3>1. list[a] \in Seq(Contact)
      BY DEF TypeOK
    <3>2. list[a][Found(list[a], u)] \in Contact
      BY <2>3, <3>1, FoundIsContact DEF Find
    <3>3. cache' \in [Apps -> [Uids -> Contact \cup {None}]]
      BY <2>3, <3>2, CachedType DEF Find
    <3> QED  BY <2>3, <3>3 DEF Find, files, known, counts, TypeOK
  <2>4. CASE Clear(a)
    <3>1. /\ list' = [list EXCEPT ![a] = <<>>]
          /\ cache' = [cache EXCEPT ![a] = NoCache]
          /\ changed' = [changed EXCEPT ![a] = FALSE]
          /\ cleared' = [cleared EXCEPT ![a] = TRUE]
          /\ UNCHANGED <<journalling, step, closing, files, base, missed>>
          /\ Is(a, "idle")
      BY <2>4 DEF Clear
    <3>2. counts' \in Nat \X Nat \X Nat \X Nat
      BY <2>4 DEF TypeOK, Clear, counts
    <3>3. /\ changed' \in [Apps -> BOOLEAN] /\ list' \in [Apps -> Seq(Contact)]
          /\ cleared' \in [Apps -> BOOLEAN]
      BY <3>1 DEF TypeOK
    <3>4. cache' \in [Apps -> [Uids -> Contact \cup {None}]]
      BY <3>1 DEF TypeOK, NoCache
    <3>5. \A b \in Apps : step'[b] \in {"rename", "end"} => changed'[b]
      <4> TAKE b \in Apps
      <4>1. CASE b = a
        BY <3>1, <4>1 DEF TypeOK, Is
      <4>2. CASE b # a
        <5>1. step'[b] = step[b] /\ changed'[b] = changed[b]
          BY <3>1, <4>2 DEF TypeOK
        <5> QED  BY <5>1, Zenon DEF TypeOK
      <4> QED  BY <4>1, <4>2
    <3> QED  BY <3>1, <3>2, <3>3, <3>4, <3>5 DEF TypeOK, files
  <2>5. CASE \/ \E closes \in BOOLEAN : SaveWrite(a, closes) \/ SaveFails(a, closes)
             \/ SaveRename(a) \/ SaveRenameFails(a) \/ SaveEnd(a)
             \/ Close(a) \/ Crash(a)
    BY <2>5, SaveType
  <2> QED  BY <1>2, <2>1, <2>2, <2>3, <2>4, <2>5 DEF Step
<1> QED  BY <1>1, <1>2 DEF Next

(* The types are right, and only an application with changes saves. *)
THEOREM TypeCorrect == Spec => []TypeOK
<1>1. Init => TypeOK
  BY InitType
<1>2. TypeOK /\ [Next]_vars => TypeOK'
  BY NextType
<1> QED  BY <1>1, <1>2, PTL DEF Spec

-----------------------------------------------------------------------------
(* One application's step leaves the others alone: what the invariants say *)
(* of each application only has to be shown for the one that moves.        *)

Same(b) ==
  /\ list'[b] = list[b] /\ cache'[b] = cache[b] /\ changed'[b] = changed[b]
  /\ journalling'[b] = journalling[b] /\ step'[b] = step[b]
  /\ journal'[b] = journal[b] /\ base'[b] = base[b]
  /\ missed'[b] = missed[b] /\ cleared'[b] = cleared[b]

LEMMA OthersStay ==
  ASSUME TypeOK, NEW a \in Apps, Step(a), NEW b \in Apps, b # a
  PROVE  Same(b)
<1> USE DEF TypeOK, Same
<1>1. CASE Start(a) \/ Reload(a)
  BY <1>1 DEF Start, Reload, LoadDatabase, files
<1>2. ASSUME NEW c \in Contact, Add(a, c) \/ Replace(a, c)
      PROVE  Same(b)
  BY <1>2 DEF Add, Replace, Changes, UpdateJournal, Cached, known
<1>3. ASSUME NEW u \in Uids, Remove(a, u) \/ Find(a, u)
      PROVE  Same(b)
  BY <1>3 DEF Remove, Find, Changes, UpdateJournal, Cached, files, known
<1>4. CASE Clear(a) \/ Close(a) \/ Crash(a)
  BY <1>4 DEF Clear, Close, Crash, Gone, files
<1>5. ASSUME NEW closes \in BOOLEAN, SaveWrite(a, closes) \/ SaveFails(a, closes)
      PROVE  Same(b)
  BY <1>5 DEF SaveWrite, SaveFails, Gone, memory, known
<1>6. CASE SaveRename(a) \/ SaveRenameFails(a) \/ SaveEnd(a)
  BY <1>6 DEF SaveRename, SaveRenameFails, SaveEnd, Gone, known
<1> QED  BY <1>1, <1>2, <1>3, <1>4, <1>5, <1>6 DEF Step

-----------------------------------------------------------------------------
(* The cache *)

CacheOf(a) ==
  \A u \in Uids : cache[a][u] # None =>
    Has(list[a], u) /\ cache[a][u] = list[a][Found(list[a], u)]

LEMMA EmptiedCache ==
  ASSUME TypeOK, NEW a \in Apps, cache' = [cache EXCEPT ![a] = NoCache]
  PROVE  CacheOf(a)'
BY DEF TypeOK, CacheOf, NoCache

LEMMA SameCache ==
  ASSUME NEW a \in Apps, CacheOf(a), list'[a] = list[a], cache'[a] = cache[a]
  PROVE  CacheOf(a)'
BY DEF CacheOf

LEMMA AddCache ==
  ASSUME TypeOK, NEW a \in Apps, CacheOf(a), NEW c \in Contact, Add(a, c)
  PROVE  CacheOf(a)'
<1>1. c.uid \in Uids /\ list[a] \in Seq(Contact)
  BY DEF Contact, TypeOK
<1>2. /\ cache'[a] = [cache[a] EXCEPT ![c.uid] = c]
      /\ list'[a] = Append(list[a], c)
  BY DEF TypeOK, Add, Cached
<1>3. ASSUME NEW u \in Uids, cache'[a][u] # None
      PROVE  Has(list'[a], u) /\ cache'[a][u] = list'[a][Found(list'[a], u)]
  <2>1. CASE u = c.uid
    <3>1. cache'[a][u] = c
      BY <1>1, <1>2, <2>1 DEF TypeOK
    <3> QED  BY <1>1, <1>2, <2>1, <3>1, FoundAppended
  <2>2. CASE u # c.uid
    <3>1. cache'[a][u] = cache[a][u]
      BY <1>2, <2>2 DEF TypeOK
    <3>2. Has(list[a], u) /\ cache[a][u] = list[a][Found(list[a], u)]
      BY <1>3, <3>1 DEF CacheOf
    <3>3. /\ Has(Append(list[a], c), u)
          /\ Append(list[a], c)[Found(Append(list[a], c), u)] = list[a][Found(list[a], u)]
      BY <1>1, <2>2, <3>2, FoundAfterAppend
    <3> QED  BY <1>2, <3>1, <3>2, <3>3
  <2> QED  BY <2>1, <2>2
<1> QED  BY <1>3 DEF CacheOf

LEMMA ReplaceCache ==
  ASSUME TypeOK, NEW a \in Apps, CacheOf(a), NEW c \in Contact, Replace(a, c)
  PROVE  CacheOf(a)'
<1> DEFINE l == list[a]
           i == Found(l, c.uid)
<1>1. c.uid \in Uids /\ l \in Seq(Contact)
  BY DEF Contact, TypeOK
<1>2. cache'[a] = [cache[a] EXCEPT ![c.uid] = IF cache[a][c.uid] = None THEN None ELSE c]
  BY DEF TypeOK, Replace, Cached
<1>3. CASE Has(l, c.uid)
  <2>1. list'[a] = Append(Without(l, i), c)
    BY <1>3 DEF TypeOK, Replace
  <2>2. i \in 1 .. Len(l) /\ l[i].uid = c.uid /\ Without(l, i) \in Seq(Contact)
    BY <1>1, <1>3, FoundIsLast, FoundIsContact, WithoutType
  <2> HIDE DEF l, i
  <2>3. ASSUME NEW u \in Uids, cache'[a][u] # None
        PROVE  Has(list'[a], u) /\ cache'[a][u] = list'[a][Found(list'[a], u)]
    <3>1. CASE u = c.uid
      <4>1. cache'[a][u] = c
        BY <1>1, <1>2, <2>3, <3>1 DEF TypeOK
      <4> QED  BY <2>1, <2>2, <3>1, <4>1, FoundAppended
    <3>2. CASE u # c.uid
      <4>1. cache'[a][u] = cache[a][u]
        BY <1>2, <3>2 DEF TypeOK
      <4>2. Has(l, u) /\ cache[a][u] = l[Found(l, u)]
        BY <2>3, <4>1 DEF CacheOf, l
      <4>3. /\ Has(Without(l, i), u)
            /\ Without(l, i)[Found(Without(l, i), u)] = l[Found(l, u)]
        BY <1>1, <2>2, <3>2, <4>2, FoundAfterRemoval
      <4> QED  BY <2>1, <2>2, <3>2, <4>1, <4>2, <4>3, FoundAfterAppend
    <3> QED  BY <3>1, <3>2
  <2> QED  BY <2>3 DEF CacheOf
<1>4. CASE ~Has(l, c.uid)
  <2>1. cache[a][c.uid] = None
    BY <1>1, <1>4 DEF CacheOf
  <2>2. cache'[a] = cache[a]
    BY <1>2, <2>1 DEF TypeOK
  <2>3. list'[a] = list[a]
    BY <1>4 DEF Replace
  <2> QED  BY <2>2, <2>3, SameCache
<1> QED  BY <1>3, <1>4

LEMMA RemoveCache ==
  ASSUME TypeOK, NEW a \in Apps, CacheOf(a), NEW v \in Uids, Remove(a, v)
  PROVE  CacheOf(a)'
<1> DEFINE l == list[a]
           i == Found(l, v)
<1>1. l \in Seq(Contact)
  BY DEF TypeOK
<1>2. cache'[a] = [cache[a] EXCEPT ![v] = None]
  BY DEF TypeOK, Remove, Cached
<1>3. ASSUME NEW u \in Uids, cache'[a][u] # None
      PROVE  u # v /\ cache'[a][u] = cache[a][u]
             /\ Has(l, u) /\ cache[a][u] = l[Found(l, u)]
  BY <1>2, <1>3 DEF TypeOK, CacheOf
<1>4. CASE Has(l, v)
  <2>1. list'[a] = Without(l, i)
    BY <1>4 DEF TypeOK, Remove
  <2>2. i \in 1 .. Len(l) /\ l[i].uid = v
    BY <1>1, <1>4, FoundIsLast, FoundIsContact
  <2> HIDE DEF l, i
  <2>3. ASSUME NEW u \in Uids, cache'[a][u] # None
        PROVE  Has(list'[a], u) /\ cache'[a][u] = list'[a][Found(list'[a], u)]
    <3>1. u # v /\ Has(l, u) /\ cache'[a][u] = l[Found(l, u)]
      BY <1>3, <2>3
    <3> QED  BY <1>1, <2>1, <2>2, <3>1, FoundAfterRemoval
  <2> QED  BY <2>3 DEF CacheOf
<1>5. CASE ~Has(l, v)
  <2>1. list'[a] = list[a]
    BY <1>5 DEF Remove
  <2> QED  BY <1>3, <2>1 DEF CacheOf
<1> QED  BY <1>4, <1>5

LEMMA FindCache ==
  ASSUME TypeOK, NEW a \in Apps, CacheOf(a), NEW v \in Uids, Find(a, v)
  PROVE  CacheOf(a)'
<1>1. /\ cache'[a] = [cache[a] EXCEPT ![v] = list[a][Found(list[a], v)]]
      /\ list' = list /\ Has(list[a], v)
  BY DEF TypeOK, Find, Cached
<1> QED  BY <1>1 DEF TypeOK, CacheOf

LEMMA CacheStep == TypeOK /\ CacheAgrees /\ [Next]_vars => CacheAgrees'
<1> SUFFICES ASSUME TypeOK, CacheAgrees, [Next]_vars PROVE CacheAgrees'
  OBVIOUS
<1>1. CASE UNCHANGED vars
  BY <1>1 DEF vars, memory, CacheAgrees
<1>2. ASSUME NEW a \in Apps, Step(a), NEW b \in Apps
      PROVE  CacheOf(b)'
  <2>1. CacheOf(a) /\ CacheOf(b)
    BY DEF CacheAgrees, CacheOf
  <2>2. CASE b # a
    BY <1>2, <2>1, <2>2, OthersStay, SameCache DEF Same
  <2>3. CASE b = a
    <3>1. CASE Start(a) \/ Reload(a) \/ Clear(a) \/ Close(a) \/ Crash(a)
      BY <2>3, <3>1, EmptiedCache
         DEF Start, Reload, LoadDatabase, CacheAfterLoad, Clear, Close, Crash, Gone
    <3>2. CASE \/ \E c \in Contact : Add(a, c) \/ Replace(a, c)
               \/ \E u \in Uids : Remove(a, u) \/ Find(a, u)
      BY <2>1, <2>3, <3>2, AddCache, ReplaceCache, RemoveCache, FindCache
    <3>3. ASSUME NEW closes \in BOOLEAN, SaveWrite(a, closes) \/ SaveFails(a, closes)
          PROVE  CacheOf(a)'
      <4>1. \/ cache' = [cache EXCEPT ![a] = NoCache]
            \/ UNCHANGED <<list, cache>>
        BY <3>3 DEF SaveWrite, SaveFails, Gone, memory
      <4> QED  BY <2>1, <4>1, EmptiedCache, SameCache
    <3>4. CASE SaveRename(a) \/ SaveRenameFails(a) \/ SaveEnd(a)
      <4>1. \/ cache' = [cache EXCEPT ![a] = NoCache]
            \/ UNCHANGED <<list, cache>>
        BY <3>4 DEF SaveRename, SaveRenameFails, SaveEnd, Gone
      <4> QED  BY <2>1, <2>3, <4>1, EmptiedCache, SameCache
    <3> QED  BY <1>2, <2>3, <3>1, <3>2, <3>3, <3>4 DEF Step
  <2> QED  BY <2>2, <2>3
<1> QED  BY <1>1, <1>2 DEF Next, CacheAgrees, CacheOf

(* find() never answers from the cache what the backend would not. *)
THEOREM CacheAlwaysAgrees == Spec => []CacheAgrees
<1>1. Init => CacheAgrees
  BY DEF Init, CacheAgrees, NoCache
<1>2. TypeOK /\ CacheAgrees /\ [Next]_vars => CacheAgrees'
  BY CacheStep
<1> QED  BY <1>1, <1>2, TypeCorrect, PTL DEF Spec

-----------------------------------------------------------------------------
(* Crashes.  Whatever the file is now, what an application has in memory   *)
(* is in what it knows of the file or in its journal.  The journal goes at *)
(* the end of a save, when the file it knows is its list or it has missed  *)
(* the file.                                                               *)

KeptOf(a) ==
  journalling[a] /\ ~missed[a] =>
    Values(list[a]) \subseteq Values(base[a]) \cup Values(Replayed(journal[a]))

Kept == \A a \in Apps : KeptOf(a)

LEMMA ReplayedAppend ==
  ASSUME NEW j \in Seq(Record), NEW r \in Record
  PROVE  Values(Replayed(Append(j, r))) = Values(Replayed(j)) \cup {r.contact}
<1>1. /\ DOMAIN Append(j, r) = 1 .. Len(j) + 1 /\ DOMAIN j = 1 .. Len(j)
      /\ \A k \in 1 .. Len(j) : Append(j, r)[k] = j[k]
      /\ Append(j, r)[Len(j) + 1] = r /\ Len(j) \in Nat
  OBVIOUS
<1>2. Values(Replayed(Append(j, r))) = {Append(j, r)[k].contact : k \in 1 .. Len(j) + 1}
  BY <1>1 DEF Values, Replayed
<1>3. Values(Replayed(j)) = {j[k].contact : k \in 1 .. Len(j)}
  BY <1>1 DEF Values, Replayed
<1> QED  BY <1>1, <1>2, <1>3

(* A change that is written to the journal *)
LEMMA Journalled ==
  ASSUME TypeOK, NEW a \in Apps, KeptOf(a), Changes(a),
         NEW action \in Actions, NEW c \in Contact, UpdateJournal(a, action, c),
         Values(list'[a]) \subseteq Values(list[a]) \cup {c}
  PROVE  KeptOf(a)'
<1>1. base' = base /\ missed' = missed /\ journalling' = journalling
  BY DEF Changes, known
<1>3. CASE journalling[a]
  <2> DEFINE r == [action |-> action, contact |-> c]
  <2>1. r \in Record /\ r.contact = c /\ journal[a] \in Seq(Record)
    BY DEF Record, TypeOK
  <2>2. journal'[a] = Append(journal[a], r)
    BY <1>3 DEF UpdateJournal, TypeOK
  <2> HIDE DEF r
  <2>3. Values(Replayed(journal'[a])) = Values(Replayed(journal[a])) \cup {c}
    BY <2>1, <2>2, ReplayedAppend
  <2> QED  BY <1>1, <1>3, <2>3 DEF KeptOf
<1>4. CASE ~journalling[a]
  BY <1>1, <1>4 DEF KeptOf
<1> QED  BY <1>3, <1>4

LEMMA SameKept ==
  ASSUME NEW a \in Apps, KeptOf(a),
         list'[a] = list[a], base'[a] = base[a], journal'[a] = journal[a],
         journalling'[a] = journalling[a], missed'[a] = missed[a]
  PROVE  KeptOf(a)'
BY DEF KeptOf

LEMMA GoneKept ==
  ASSUME TypeOK, NEW a \in Apps, Gone(a)
  PROVE  KeptOf(a)'
BY DEF TypeOK, Gone, KeptOf

LEMMA LoadKept ==
  ASSUME TypeOK, NEW a \in Apps, LoadDatabase(a), journal' = journal
  PROVE  KeptOf(a)'
<1>1. CASE file = None
  <2>1. list'[a] = <<>> /\ base'[a] = <<>>
    BY <1>1 DEF LoadDatabase, TypeOK
  <2> QED  BY <2>1 DEF KeptOf, Values
<1>2. CASE file # None
  <2>1. list'[a] = Loaded(a) /\ base'[a] = file
    BY <1>2 DEF LoadDatabase, TypeOK
  <2> QED  BY <1>2, <2>1, LoadedType DEF KeptOf
<1> QED  BY <1>1, <1>2

LEMMA EditKept ==
  ASSUME TypeOK, NEW a \in Apps, KeptOf(a),
         \/ \E c \in Contact : Add(a, c) \/ Replace(a, c)
         \/ \E u \in Uids : Remove(a, u)
  PROVE  KeptOf(a)'
<1> DEFINE l == list[a]
<1>1. l \in Seq(Contact) /\ list \in [Apps -> Seq(Contact)]
  BY DEF TypeOK
<1>2. Changes(a) /\ base' = base /\ missed' = missed /\ journalling' = journalling
  BY DEF Add, Replace, Remove, Changes, known
<1>3. ASSUME NEW c \in Contact, Add(a, c)
      PROVE  KeptOf(a)'
  <2>1. list'[a] = Append(l, c) /\ UpdateJournal(a, "ACTION_ADD", c)
    BY <1>1, <1>3 DEF Add
  <2>2. Values(list'[a]) \subseteq Values(l) \cup {c}
    BY <1>1, <2>1, AppendValues
  <2> QED  BY <1>2, <2>1, <2>2, Journalled DEF Actions
<1>4. ASSUME NEW c \in Contact, Replace(a, c), Has(l, c.uid)
      PROVE  KeptOf(a)'
  <2> DEFINE w == Without(l, Found(l, c.uid))
  <2>1. list'[a] = Append(w, c) /\ UpdateJournal(a, "ACTION_REPLACE", c)
    BY <1>1, <1>4 DEF Replace
  <2>2. w \in Seq(Contact) /\ Values(w) \subseteq Values(l)
    BY <1>1, <1>4, FoundIsLast, WithoutType
  <2> HIDE DEF w
  <2>3. Values(list'[a]) \subseteq Values(l) \cup {c}
    BY <2>1, <2>2, AppendValues
  <2> QED  BY <1>2, <2>1, <2>3, Journalled DEF Actions
<1>5. ASSUME NEW u \in Uids, Remove(a, u), Has(l, u)
      PROVE  KeptOf(a)'
  <2> DEFINE c == l[Found(l, u)]
  <2>1. list'[a] = Without(l, Found(l, u)) /\ UpdateJournal(a, "ACTION_REMOVE", c)
    BY <1>1, <1>5 DEF Remove
  <2>2. c \in Contact
    BY <1>1, <1>5, FoundIsContact
  <2>3. Values(list'[a]) \subseteq Values(l)
    BY <1>1, <1>5, <2>1, FoundIsLast, WithoutType
  <2> QED  BY <1>2, <2>1, <2>2, <2>3, Journalled DEF Actions
<1>6. CASE UNCHANGED <<journal, list>>
  BY <1>2, <1>6, SameKept
<1> QED  BY <1>3, <1>4, <1>5, <1>6 DEF Replace, Remove

LEMMA SaveKept ==
  ASSUME TypeOK, NEW a \in Apps, KeptOf(a),
         \/ \E closes \in BOOLEAN : SaveWrite(a, closes) \/ SaveFails(a, closes)
         \/ SaveRename(a) \/ SaveRenameFails(a) \/ SaveEnd(a)
  PROVE  KeptOf(a)'
<1>1. ASSUME NEW closes \in BOOLEAN, SaveWrite(a, closes)
      PROVE  KeptOf(a)'
  BY <1>1, SameKept DEF SaveWrite, known
<1>2. ASSUME NEW closes \in BOOLEAN, SaveFails(a, closes)
      PROVE  KeptOf(a)'
  <2>1. Gone(a) \/ UNCHANGED <<memory, known>>
    BY <1>2 DEF SaveFails
  <2>2. journal' = journal
    BY <1>2 DEF SaveFails
  <2> QED  BY <2>1, <2>2, GoneKept, SameKept DEF memory, known
<1>3. CASE SaveRename(a)
  <2>1. /\ UNCHANGED <<list, journal, journalling, missed>>
        /\ base'[a] = list[a] \/ base'[a] = base[a]
    BY <1>3 DEF SaveRename, TypeOK
  <2> QED  BY <2>1 DEF KeptOf
<1>4. CASE SaveRenameFails(a)
  BY <1>4, SameKept DEF SaveRenameFails, known
<1>5. CASE SaveEnd(a)
  <2>1. CASE Gone(a)
    BY <2>1, GoneKept
  <2>2. CASE ~closing[a]
    <3>1. /\ missed' = [missed EXCEPT ![a] = base[a] # list[a]]
          /\ UNCHANGED <<list, base, journalling>>
      BY <1>5, <2>2 DEF SaveEnd
    <3>2. ~missed'[a] => base[a] = list[a]
      BY <3>1 DEF TypeOK
    <3> QED  BY <3>1, <3>2 DEF KeptOf
  <2> QED  BY <1>5, <2>1, <2>2 DEF SaveEnd
<1> QED  BY <1>1, <1>2, <1>3, <1>4, <1>5

LEMMA KeptStep == TypeOK /\ Kept /\ [Next]_vars => Kept'
<1> SUFFICES ASSUME TypeOK, Kept, [Next]_vars PROVE Kept'
  OBVIOUS
<1>1. CASE UNCHANGED vars
  BY <1>1 DEF vars, memory, files, known, Kept, KeptOf
<1>2. ASSUME NEW a \in Apps, Step(a), NEW b \in Apps
      PROVE  KeptOf(b)'
  <2>1. KeptOf(a) /\ KeptOf(b)
    BY DEF Kept
  <2>2. CASE b # a
    BY <1>2, <2>1, <2>2, OthersStay, SameKept DEF Same
  <2>3. CASE b = a
    <3>1. CASE Start(a) \/ Reload(a)
      <4>1. LoadDatabase(a) /\ journal' = journal
        BY <3>1 DEF Start, Reload, files
      <4> QED  BY <2>3, <4>1, LoadKept
    <3>2. CASE \/ \E c \in Contact : Add(a, c) \/ Replace(a, c)
               \/ \E u \in Uids : Remove(a, u)
      BY <2>1, <2>3, <3>2, EditKept
    <3>3. ASSUME NEW u \in Uids, Find(a, u)
          PROVE  KeptOf(a)'
      BY <2>1, <3>3, SameKept DEF Find, files, known
    <3>4. CASE Clear(a)
      <4>1. list'[a] = <<>>
        BY <3>4 DEF Clear, TypeOK
      <4> QED  BY <2>3, <4>1 DEF KeptOf, Values
    <3>5. CASE \/ \E closes \in BOOLEAN : SaveWrite(a, closes) \/ SaveFails(a, closes)
               \/ SaveRename(a) \/ SaveRenameFails(a) \/ SaveEnd(a)
      BY <2>1, <2>3, <3>5, SaveKept
    <3>6. CASE Close(a) \/ Crash(a)
      BY <2>3, <3>6, GoneKept DEF Close, Crash
    <3> QED  BY <1>2, <2>3, <3>1, <3>2, <3>3, <3>4, <3>5, <3>6 DEF Step
  <2> QED  BY <2>2, <2>3
<1> QED  BY <1>1, <1>2 DEF Next, Kept

LEMMA AlwaysKept == Spec => [](TypeOK /\ Kept)
<1>1. Init => Kept
  BY DEF Init, Kept, KeptOf
<1> QED  BY <1>1, KeptStep, TypeCorrect, PTL DEF Spec

(* A crash, at any point, loses no contact of an application that journals *)
(* and whose address book no other application replaced, unless its last   *)
(* save ended without its list in the file.                                *)
THEOREM AlwaysKeptThroughCrash == Spec => []KeptThroughCrash
<1>1. TypeOK /\ Kept => KeptThroughCrash
  <2> SUFFICES ASSUME TypeOK, Kept, NEW a \in Apps, journalling[a], file = base[a],
                      ~missed[a]
               PROVE  Values(list[a]) \subseteq Values(Loaded(a))
    BY DEF KeptThroughCrash
  <2>1. file # None
    BY ConstantsAssumption DEF TypeOK
  <2> QED  BY <2>1, LoadedType DEF Kept, KeptOf
<1> QED  BY <1>1, AlwaysKept, PTL

-----------------------------------------------------------------------------
(* Saves that are skipped *)

SavedOf(a) ==
  ~changed[a] => \/ list[a] = base[a]
                 \/ missed[a]
                 \/ cleared[a] /\ list[a] = <<>>

LEMMA SavedStep ==
  ASSUME TypeOK, UnchangedIsSaved, [Next]_vars
  PROVE  UnchangedIsSaved'
<1>1. CASE UNCHANGED vars
  BY <1>1 DEF vars, memory, known, UnchangedIsSaved
<1>2. ASSUME NEW a \in Apps, Step(a), NEW b \in Apps
      PROVE  SavedOf(b)'
  <2>1. SavedOf(a) /\ SavedOf(b)
    BY DEF UnchangedIsSaved, SavedOf
  <2>2. CASE b # a
    BY <1>2, <2>1, <2>2, OthersStay DEF Same, SavedOf
  <2>3. CASE b = a
    <3>1. CASE LoadDatabase(a)
      <4>1. CASE file = None
        <5>1. list'[a] = <<>> /\ base'[a] = <<>>
          BY <3>1, <4>1 DEF LoadDatabase, TypeOK
        <5> QED  BY <2>3, <5>1 DEF SavedOf
      <4>2. CASE file # None
        <5>1. /\ list'[a] = Loaded(a) /\ base'[a] = file
              /\ changed'[a] = ChangedByLoad(a)
          BY <3>1, <4>2 DEF LoadDatabase, TypeOK
        <5>2. ~changed'[a] => Loaded(a) = <<>>
          BY <5>1, Zenon DEF ChangedByLoad
        <5> QED  BY <2>3, <4>2, <5>1, <5>2, LoadedType DEF SavedOf
      <4> QED  BY <4>1, <4>2
    <3>2. CASE changed'[a]
      BY <2>3, <3>2 DEF SavedOf
    <3>3. CASE Gone(a)
      <4>1. list'[a] = <<>> /\ base'[a] = <<>>
        BY <3>3 DEF Gone, TypeOK
      <4> QED  BY <2>3, <4>1 DEF SavedOf
    <3>4. CASE UNCHANGED <<list, changed, known>>
      BY <2>1, <2>3, <3>4 DEF SavedOf, known
    <3>5. ASSUME SaveRename(a) \/ SaveRenameFails(a)
          PROVE  changed'[a]
      BY <3>5 DEF SaveRename, SaveRenameFails, TypeOK, Is
    <3>6. ASSUME SaveEnd(a)
          PROVE  SavedOf(b)'
      <4>1. CASE ~closing[a]
        <5>1. /\ missed' = [missed EXCEPT ![a] = base[a] # list[a]]
              /\ UNCHANGED <<list, base>>
          BY <3>6, <4>1 DEF SaveEnd
        <5>2. list'[a] = base'[a] \/ missed'[a]
          BY <5>1 DEF TypeOK
        <5> QED  BY <2>3, <5>2 DEF SavedOf
      <4> QED  BY <3>3, <3>6, <4>1 DEF SaveEnd
    <3>7. ASSUME Clear(a)
          PROVE  SavedOf(b)'
      <4>1. list'[a] = <<>> /\ cleared'[a]
        BY <3>7 DEF Clear, TypeOK
      <4> QED  BY <2>3, <4>1 DEF SavedOf
    <3>8. ASSUME \/ \E c \in Contact : Add(a, c) \/ Replace(a, c)
                 \/ \E u \in Uids : Remove(a, u)
          PROVE  changed'[a]
      <4>1. changed' = [changed EXCEPT ![a] = TRUE]
        BY <3>8 DEF Add, Replace, Remove, Changes
      <4> QED  BY <4>1 DEF TypeOK
    <3>9. ASSUME NEW closes \in BOOLEAN, SaveWrite(a, closes)
          PROVE  changed'[a]
      <4>1. changed[a] /\ changed' = changed
        BY <3>9 DEF SaveWrite
      <4> QED  BY <4>1, Zenon
    <3>10. ASSUME \/ \E u \in Uids : Find(a, u)
                  \/ \E closes \in BOOLEAN : SaveFails(a, closes)
           PROVE  Gone(a) \/ UNCHANGED <<list, changed, known>>
      BY <3>10 DEF Find, SaveFails, memory
    <3>11. ASSUME Start(a) \/ Reload(a) PROVE LoadDatabase(a)
      BY <3>11 DEF Start, Reload
    <3>12. ASSUME Close(a) \/ Crash(a) PROVE Gone(a)
      BY <3>12 DEF Close, Crash
    <3> QED  BY <1>2, <3>1, <3>2, <3>3, <3>4, <3>5, <3>6, <3>7, <3>8, <3>9,
                <3>10, <3>11, <3>12 DEF Step
  <2> QED  BY <2>2, <2>3
<1> QED  BY <1>1, <1>2 DEF Next, UnchangedIsSaved, SavedOf

(* What a save that m_changed skips would have written is in the file the  *)
(* application knows, but after a save that missed the file and after      *)
(* clear().                                                                *)
THEOREM UnchangedAlwaysSaved == Spec => []UnchangedIsSaved
<1>1. Init => UnchangedIsSaved
  BY DEF Init, UnchangedIsSaved
<1>2. TypeOK /\ UnchangedIsSaved /\ [Next]_vars => UnchangedIsSaved'
  BY SavedStep
<1> QED  BY <1>1, <1>2, TypeCorrect, PTL DEF Spec
=============================================================================
