------------------------- MODULE AlarmServerProofs -------------------------
(***************************************************************************)
(* Theorems about AlarmServer, for every value of its constants.           *)
(***************************************************************************)
EXTENDS AlarmServer, WellFoundedInduction, TLAPS

(* A nonempty set of naturals has a least element. *)
LEMMA LeastExists ==
  ASSUME NEW S \in SUBSET Nat, S # {}
  PROVE  \E m \in S : \A n \in S : m <= n
<1>1. PICK m \in S : \A n \in S : ~ (<<n, m>> \in OpToRel(<, Nat))
  BY WFMin, NatLessThanWellFounded, Zenon
<1>2. \A n \in S : ~ (n < m)
  BY <1>1, Zenon DEF OpToRel
<1>3. m \in Nat /\ \A n \in S : n \in Nat
  OBVIOUS
<1>4. \A n \in S : m <= n
  BY <1>2, <1>3, SMT
<1> QED  BY <1>4

(* A list with an alarm in it has an earliest one, and First finds it. *)
LEMMA FirstIsFirst ==
  ASSUME NEW l, IsList(l), DOMAIN l # {}
  PROVE  /\ First(l) \in DOMAIN l
         /\ IsFirst(l, First(l))
         /\ First(l) \in Nat
         /\ First(l) # None
<1> USE ConstantsAssumption DEF IsList, Alarm, Times
<1>1. \A i \in DOMAIN l : i \in Nat /\ l[i].time \in Nat
  OBVIOUS
<1> DEFINE T == {l[i].time : i \in DOMAIN l}
<1>2. PICK t \in T : \A u \in T : t <= u
  <2>1. T \in SUBSET Nat /\ T # {}
    BY <1>1
  <2> HIDE DEF T
  <2> QED  BY <2>1, LeastExists
<1> DEFINE S == {i \in DOMAIN l : l[i].time = t}
<1>3. PICK i \in S : \A j \in S : i <= j
  <2>1. S \in SUBSET Nat /\ S # {}
    BY <1>1, <1>2
  <2> HIDE DEF S
  <2> QED  BY <2>1, LeastExists
<1>4. \A j \in DOMAIN l : t <= l[j].time
  BY <1>2
<1>5. IsFirst(l, i)
  BY <1>1, <1>3, <1>4 DEF IsFirst, Sooner
<1>6. First(l) \in DOMAIN l /\ IsFirst(l, First(l))
  BY <1>5 DEF First, IsFirst
<1> QED  BY <1>1, <1>6

(* Dropping items leaves a list, and so does appending one. *)
LEMMA WithoutIsList ==
  ASSUME NEW l, IsList(l), NEW S
  PROVE  /\ IsList(Without(l, S))
         /\ DOMAIN Without(l, S) = DOMAIN l \ S
         /\ \A i \in DOMAIN l \ S : Without(l, S)[i] = l[i]
BY DEF IsList, Without

LEMMA AppendedIsList ==
  ASSUME NEW l, IsList(l), NEW i \in 1 .. MaxAdds, NEW a \in Alarm
  PROVE  /\ IsList(Appended(l, i, a))
         /\ DOMAIN Appended(l, i, a) = DOMAIN l \cup {i}
         /\ Appended(l, i, a)[i] = a
         /\ \A j \in DOMAIN l : j # i => Appended(l, i, a)[j] = l[j]
BY DEF IsList, Appended

LEMMA EmptyIsList ==
  IsList(Empty) /\ DOMAIN Empty = {} /\ First(Empty) = None
BY DEF IsList, Empty, First

(* The alarms of a list and of a file; the null pointer is not a list. *)
LEMMA ItemsAreAlarms ==
  ASSUME NEW l, IsList(l)
  PROVE  Items(l) \subseteq Alarm /\ l # None /\ Saved(l) = Items(l)
BY ConstantsAssumption DEF IsList, Items, Saved

(* What resetTimer arms the timer and the wake-up for. *)
LEMMA ResetBounds ==
  ASSUME now \in Times, NEW t \in Times
  PROVE  /\ WakeUp(t) \in Times /\ Due(t) \in Nat
         /\ Due(t) <= t \/ Due(t) <= now
         /\ WakeUp(t) <= t \/ Due(t) <= now
BY ConstantsAssumption DEF Times, WakeUp, Due

(* First of any list, the empty one included. *)
LEMMA FirstType ==
  ASSUME NEW l, IsList(l)
  PROVE  /\ First(l) \in DOMAIN l \cup {None}
         /\ First(l) # None => First(l) \in Nat /\ l[First(l)] \in Alarm
                               /\ l[First(l)].time \in Times
<1>1. CASE DOMAIN l = {}
  BY <1>1 DEF First
<1>2. CASE DOMAIN l # {}
  BY <1>2, FirstIsFirst DEF IsList, Alarm
<1> QED  BY <1>1, <1>2

LEMMA DueOfFirst ==
  ASSUME now \in Times, NEW l, IsList(l)
  PROVE  DueOf(l, First(l)) \subseteq Nat
BY FirstType, ResetBounds DEF DueOf

LEMMA SetNearestType ==
  ASSUME now \in Times, NEW l, IsList(l), SetNearestTimerEvent(l)
  PROVE  /\ nearest' \in DOMAIN l \cup {None}
         /\ timers' \subseteq Int
         /\ resumeat' \in 0 .. MaxTime
<1>1. timers' \subseteq Int
  BY DueOfFirst DEF SetNearestTimerEvent
<1>2. nearest' \in DOMAIN l \cup {None}
  BY FirstType DEF SetNearestTimerEvent
<1>3. resumeat' \in 0 .. MaxTime
  BY FirstType, ResetBounds, ConstantsAssumption DEF SetNearestTimerEvent, Times
<1> QED  BY <1>1, <1>2, <1>3

(***************************************************************************)
(* Type correctness                                                        *)
(***************************************************************************)
LEMMA InitType == Init => TypeOK
BY ConstantsAssumption, EmptyIsList
   DEF Init, TypeOK, Times, Points

LEMMA AddType ==
  ASSUME TypeOK, NEW a \in Alarm, AddAlarm(a)
  PROVE  TypeOK'
<1> USE ConstantsAssumption
<1>1. adds + 1 \in 1 .. MaxAdds /\ adds' = adds + 1 /\ IsList(list)
  BY DEF AddAlarm, Listed, BecomesNearest, TypeOK
<1>2. /\ IsList(list') /\ DOMAIN list' = DOMAIN list \cup {adds + 1}
      /\ DOMAIN list' \subseteq 1 .. adds'
  <2>1. list' = Appended(list, adds + 1, a)
    BY DEF AddAlarm, Listed, BecomesNearest
  <2>2. IsList(list') /\ DOMAIN list' = DOMAIN list \cup {adds + 1}
    BY <1>1, <2>1, AppendedIsList
  <2>3. DOMAIN list \subseteq 1 .. adds /\ adds \in Nat
    BY DEF TypeOK
  <2> QED  BY <1>1, <2>2, <2>3
<1>3. /\ nearest' \in DOMAIN list' \cup {None}
      /\ timers' \subseteq Int
      /\ resumeat' \in 0 .. MaxTime
  BY <1>1, <1>2, ResetBounds DEF AddAlarm, Listed, BecomesNearest, TypeOK, Alarm, Times
<1>4. pending' \subseteq Alarm /\ committed' \subseteq Alarm
  BY <1>2, ItemsAreAlarms DEF AddAlarm, Listed, BecomesNearest, Changes, TypeOK
<1> QED  BY <1>1, <1>2, <1>3, <1>4 DEF AddAlarm, Listed, BecomesNearest, Changes, TypeOK, files, Points

LEMMA DeleteType ==
  ASSUME TypeOK, NEW when, NEW keys, DeleteAlarm(when, keys)
  PROVE  TypeOK'
<1> USE ConstantsAssumption
<1>1. PICK D \in SUBSET DOMAIN list :
        /\ list' = Without(list, D)
        /\ nearest' = NearestAfter(D, list)
        /\ timers' = StartedInLoop(D, list) \cup DueOf(list', nearest')
        /\ resumeat' = IF nearest' # None THEN WakeUp(list'[nearest'].time)
                       ELSE IF nearest \in D THEN 0 ELSE resumeat
        /\ IF D # {} THEN Changes
           ELSE UNCHANGED <<files, now, pc, committed, pending, backs, crashes>>
  BY DEF DeleteAlarm
<1>2. /\ IsList(list') /\ DOMAIN list' = DOMAIN list \ D
      /\ nearest' \in DOMAIN list' \cup {None}
  <2>1. IsList(list') /\ DOMAIN list' = DOMAIN list \ D
    BY <1>1, WithoutIsList DEF TypeOK
  <2> QED  BY <1>1, <2>1, FirstType DEF NearestAfter, TypeOK
<1>7. nearest' # None => list'[nearest'].time \in Times
  BY <1>2 DEF IsList, Alarm
<1>3. timers' \subseteq Int
  <2>1. StartedInLoop(D, list) \subseteq Nat
    <3>1. \A i : DueOf(RemovedUpTo(D, list, i), First(RemovedUpTo(D, list, i)))
                   \subseteq Nat
      BY WithoutIsList, DueOfFirst DEF TypeOK, RemovedUpTo
    <3> QED  BY <3>1 DEF StartedInLoop
  <2>2. DueOf(list', nearest') \subseteq Nat
    BY <1>7, ResetBounds DEF DueOf, TypeOK
  <2> QED  BY <1>1, <2>1, <2>2
<1>4. resumeat' \in 0 .. MaxTime
  BY <1>1, <1>7, ResetBounds DEF TypeOK, Times
<1>5. pending' \subseteq Alarm /\ committed' \subseteq Alarm
  BY <1>1, <1>2, ItemsAreAlarms DEF Changes, TypeOK
<1>6. adds' = adds /\ sent' = sent
  BY DEF DeleteAlarm
<1> QED  BY <1>1, <1>2, <1>3, <1>4, <1>5, <1>6 DEF Changes, TypeOK, files, Points

LEMMA TimerType ==
  ASSUME TypeOK, TimerEvent
  PROVE  TypeOK'
<1> USE ConstantsAssumption
<1>1. CASE TimerFires
  <2>1. IsList(list') /\ DOMAIN list' \subseteq DOMAIN list
    BY <1>1, WithoutIsList DEF TimerFires, TypeOK
  <2>2. /\ nearest' \in DOMAIN list' \cup {None}
        /\ timers' \subseteq Int
        /\ resumeat' \in 0 .. MaxTime
    BY <1>1, <2>1, SetNearestType DEF TimerFires, TypeOK
  <2>3. pending' \subseteq Alarm /\ committed' \subseteq Alarm
    BY <1>1, <2>1, ItemsAreAlarms DEF TimerFires, Changes, TypeOK
  <2>4. sent' \in Alarm
    <3>1. nearest \in DOMAIN list /\ list \in [DOMAIN list -> Alarm]
      BY <1>1 DEF TimerFires, TypeOK, IsList
    <3> QED  BY <1>1, <3>1 DEF TimerFires
  <2> QED  BY <1>1, <2>1, <2>2, <2>3, <2>4 DEF TimerFires, Changes, TypeOK, files, Points
<1>2. CASE TimerEarly
  <2>1. /\ nearest' \in DOMAIN list \cup {None}
        /\ timers' \subseteq Int
        /\ resumeat' \in 0 .. MaxTime
    BY <1>2, SetNearestType DEF TimerEarly, TypeOK
  <2> QED  BY <1>2, <2>1 DEF TimerEarly, TypeOK, files, counts
<1> QED  BY <1>1, <1>2 DEF TimerEvent

LEMMA SaveType ==
  ASSUME TypeOK, SaveState
  PROVE  TypeOK'
<1> USE DEF TypeOK, memory, counts, files, Points
<1> USE DEF Returns
<1>1. CASE SaveEmpty  BY <1>1 DEF SaveEmpty, Finished
<1>2. CASE SaveOpen   BY <1>2 DEF SaveOpen
<1>3. CASE SaveFails  BY <1>3 DEF SaveFails
<1>4. CASE SaveUnlink BY <1>4 DEF SaveUnlink
<1>5. CASE SaveRename BY <1>5 DEF SaveRename, Finished
<1>6. CASE SaveRenameFails BY <1>6 DEF SaveRenameFails, Finished
<1> QED  BY <1>1, <1>2, <1>3, <1>4, <1>5, <1>6 DEF SaveState

LEMMA CrashType ==
  ASSUME TypeOK, Crash
  PROVE  TypeOK'
<1>1. crashes' \in 0 .. MaxCrashes
  BY ConstantsAssumption DEF Crash, TypeOK
<1> QED  BY <1>1, EmptyIsList DEF Crash, TypeOK, files, Points

LEMMA InitializeType ==
  ASSUME TypeOK, Initialize
  PROVE  TypeOK'
<1>1. committed' \subseteq Alarm /\ pending' \subseteq Alarm
  BY ItemsAreAlarms DEF Initialize, TypeOK, Saved
<1>2. CASE saveFile = None
  BY <1>1, <1>2 DEF Initialize, TypeOK, files, counts, memory, Points
<1>3. CASE saveFile # None
  <2>1. IsList(list') /\ DOMAIN list' \subseteq 1 .. adds
    BY <1>3 DEF Initialize, TypeOK
  <2>2. /\ nearest' \in DOMAIN list' \cup {None}
        /\ timers' \subseteq Int
        /\ resumeat' \in 0 .. MaxTime
    BY <1>3, SetNearestType DEF Initialize, TypeOK
  <2> QED  BY <1>1, <2>1, <2>2 DEF Initialize, TypeOK, files, counts, Points
<1> QED  BY <1>2, <1>3

LEMMA ClockType ==
  ASSUME TypeOK, Tick \/ \E t \in Times : SetClockBack(t)
  PROVE  TypeOK'
<1> USE ConstantsAssumption DEF TypeOK, memory, files, counts, Times
<1>1. CASE Tick
  BY <1>1 DEF Tick
<1>2. ASSUME NEW t \in Times, SetClockBack(t)
      PROVE  TypeOK'
  <2>1. timers' \subseteq Int /\ backs' \in 0 .. MaxBacks
    BY <1>2 DEF SetClockBack
  <2> QED  BY <1>2, <2>1 DEF SetClockBack
<1> QED  BY <1>1, <1>2

LEMMA NextType == TypeOK /\ [Next]_vars => TypeOK'
<1> SUFFICES ASSUME TypeOK, [Next]_vars
             PROVE  TypeOK'
  OBVIOUS
<1>1. CASE UNCHANGED vars
  BY <1>1 DEF TypeOK, vars, memory, files, counts
<1>2. CASE Next
  BY <1>2, AddType, DeleteType, TimerType, SaveType, CrashType,
     InitializeType, ClockType DEF Next
<1> QED  BY <1>1, <1>2

(* Every variable of the alarm server keeps its type: in particular        *)
(* nearestTimerEvent never points to an item that was taken off the list.  *)
THEOREM TypeCorrect == Spec => []TypeOK
BY InitType, NextType, PTL DEF Spec

(***************************************************************************)
(* The nearest alarm                                                       *)
(***************************************************************************)
(* There is only one first item. *)
LEMMA FirstUnique ==
  ASSUME NEW l, IsList(l), NEW i, IsFirst(l, i)
  PROVE  First(l) = i
<1>1. DOMAIN l # {}
  BY DEF IsFirst
<1>2. IsFirst(l, First(l))
  BY <1>1, FirstIsFirst
<1>3. \A j \in DOMAIN l : j \in Nat /\ l[j].time \in Nat
  BY ConstantsAssumption DEF IsList, Alarm, Times
<1> QED  BY <1>2, <1>3 DEF IsFirst, Sooner

(* The shortcut of addAlarm: an appended alarm is the nearest if it is     *)
(* sooner than the nearest one, which otherwise stays.                     *)
LEMMA FirstOfAppended ==
  ASSUME NEW l, IsList(l), NEW i \in 1 .. MaxAdds, \A j \in DOMAIN l : j < i,
         NEW a \in Alarm
  PROVE  First(Appended(l, i, a)) =
           IF First(l) = None THEN i
           ELSE IF a.time < l[First(l)].time THEN i ELSE First(l)
<1> DEFINE m == Appended(l, i, a)
<1>1. /\ IsList(m) /\ DOMAIN m = DOMAIN l \cup {i} /\ i \notin DOMAIN l
      /\ m[i] = a /\ \A j \in DOMAIN l : m[j] = l[j]
  <2>1. i \notin DOMAIN l
    BY ConstantsAssumption
  <2>2. /\ IsList(m) /\ DOMAIN m = DOMAIN l \cup {i} /\ m[i] = a
        /\ \A j \in DOMAIN l : j # i => m[j] = l[j]
    BY AppendedIsList
  <2> HIDE DEF m
  <2> QED  BY <2>1, <2>2
<1>2. \A j \in DOMAIN l : j \in Nat /\ l[j].time \in Nat
  BY ConstantsAssumption DEF IsList, Alarm, Times
<1>3. i \in Nat /\ a.time \in Nat
  BY ConstantsAssumption DEF Alarm, Times
<1> HIDE DEF m
<1>4. CASE First(l) = None
  <2>1. DOMAIN l = {}
    BY <1>4, FirstIsFirst
  <2>2. IsFirst(m, i)
    BY <1>1, <1>3, <2>1 DEF IsFirst, Sooner
  <2> QED  BY <1>1, <1>4, <2>2, FirstUnique DEF m
<1>5. CASE First(l) # None
  <2>1. IsFirst(l, First(l))
    BY <1>5, FirstIsFirst DEF First
  <2>2. CASE a.time < l[First(l)].time
    <3>1. IsFirst(m, i)
      BY <1>1, <1>2, <1>3, <2>1, <2>2 DEF IsFirst, Sooner
    <3> QED  BY <1>1, <1>5, <2>2, <3>1, FirstUnique DEF m
  <2>3. CASE ~ (a.time < l[First(l)].time)
    <3>1. IsFirst(m, First(l))
      BY <1>1, <1>2, <1>3, <2>1, <2>3 DEF IsFirst, Sooner
    <3> QED  BY <1>1, <1>5, <2>3, <3>1, FirstUnique DEF m
  <2> QED  BY <2>2, <2>3
<1> QED  BY <1>4, <1>5

(* Removing others leaves the first item the first. *)
LEMMA FirstStays ==
  ASSUME NEW l, IsList(l), NEW D, First(l) \notin D
  PROVE  First(Without(l, D)) = First(l)
<1> DEFINE m == Without(l, D)
<1>1. /\ IsList(m) /\ DOMAIN m = DOMAIN l \ D
      /\ \A i \in DOMAIN m : m[i] = l[i]
  BY WithoutIsList
<1> HIDE DEF m
<1>2. CASE DOMAIN l = {}
  BY <1>1, <1>2 DEF First, m
<1>3. CASE DOMAIN l # {}
  <2>1. First(l) \in DOMAIN l /\ IsFirst(l, First(l))
    BY <1>3, FirstIsFirst
  <2>2. IsFirst(m, First(l))
    BY <1>1, <2>1 DEF IsFirst, Sooner
  <2> QED  BY <1>1, <2>2, FirstUnique DEF m
<1> QED  BY <1>2, <1>3

LEMMA NearestStep ==
  TypeOK /\ NearestIsEarliest /\ [Next]_vars => NearestIsEarliest'
<1> SUFFICES ASSUME TypeOK, NearestIsEarliest, [Next]_vars
             PROVE  nearest' = First(list')
  BY DEF NearestIsEarliest
<1>1. nearest = First(list)
  BY DEF NearestIsEarliest
<1>2. ASSUME NEW a \in Alarm, AddAlarm(a)
      PROVE  nearest' = First(list')
  <2>1. adds + 1 \in 1 .. MaxAdds /\ \A j \in DOMAIN list : j < adds + 1
    BY <1>2, ConstantsAssumption DEF AddAlarm, Listed, BecomesNearest, TypeOK
  <2>2. list' = Appended(list, adds + 1, a)
    BY <1>2 DEF AddAlarm, Listed, BecomesNearest
  <2>3. First(list') = IF nearest = None THEN adds + 1
                       ELSE IF a.time < list[nearest].time THEN adds + 1
                       ELSE nearest
    BY <1>1, <2>1, <2>2, FirstOfAppended DEF TypeOK
  <2> QED  BY <1>2, <2>3 DEF AddAlarm, Listed, BecomesNearest
<1>3. ASSUME NEW when, NEW keys, DeleteAlarm(when, keys)
      PROVE  nearest' = First(list')
  <2>1. PICK D \in SUBSET DOMAIN list :
          list' = Without(list, D) /\ nearest' = NearestAfter(D, list)
    BY <1>3 DEF DeleteAlarm
  <2>2. CASE nearest \in D
    BY <2>1, <2>2 DEF NearestAfter
  <2>3. CASE nearest \notin D
    BY <1>1, <2>1, <2>3, FirstStays DEF NearestAfter, TypeOK
  <2> QED  BY <2>2, <2>3
<1>4. CASE TimerEvent
  BY <1>4 DEF TimerEvent, TimerFires, TimerEarly, SetNearestTimerEvent
<1>5. CASE SaveState
  BY <1>1, <1>5 DEF SaveState, SaveEmpty, SaveOpen, SaveFails, SaveUnlink,
                    SaveRename, SaveRenameFails, Finished, Returns, memory
<1>6. CASE Crash
  BY <1>6, EmptyIsList DEF Crash
<1>7. CASE Initialize
  BY <1>1, <1>7 DEF Initialize, SetNearestTimerEvent, memory
<1>8. CASE Tick \/ \E t \in Times : SetClockBack(t)
  BY <1>1, <1>8 DEF Tick, SetClockBack, memory
<1>9. CASE UNCHANGED vars
  BY <1>1, <1>9 DEF vars, memory
<1> QED  BY <1>2, <1>3, <1>4, <1>5, <1>6, <1>7, <1>8, <1>9 DEF Next

(* The pointer addAlarm, deleteAlarm and timerEvent keep up one alarm at a *)
(* time is at every moment what a scan of the whole list would find.       *)
THEOREM NearestAlwaysEarliest == Spec => []NearestIsEarliest
<1>1. Init => NearestIsEarliest
  BY EmptyIsList DEF Init, NearestIsEarliest
<1> QED  BY <1>1, NearestStep, TypeCorrect, PTL DEF Spec

(***************************************************************************)
(* Timers and wake-up                                                      *)
(***************************************************************************)
Timed == AlarmIsTimed /\ TimerHasAlarm /\ WakeUpCoversAlarm

(* What setNearestTimerEvent arms is enough. *)
LEMMA SetNearestTimed ==
  ASSUME now \in Times, now' = now, IsList(list'), SetNearestTimerEvent(list')
  PROVE  Timed'
<1>1. CASE First(list') = None
  BY <1>1 DEF SetNearestTimerEvent, DueOf, Timed, AlarmIsTimed, TimerHasAlarm,
              WakeUpCoversAlarm
<1>2. CASE First(list') # None
  <2> DEFINE t == list'[nearest'].time
  <2>1. /\ nearest' # None /\ timers' = {Due(t)} /\ resumeat' = WakeUp(t)
        /\ t \in Times
    BY <1>2, FirstType DEF SetNearestTimerEvent, DueOf
  <2>2. /\ WakeUp(t) \in Times
        /\ Due(t) <= t \/ Due(t) <= now
        /\ WakeUp(t) <= t \/ Due(t) <= now
    BY <2>1, ResetBounds
  <2>3. resumeat' # 0
    BY <2>1, <2>2 DEF Times
  <2> QED  BY <2>1, <2>2, <2>3
           DEF Timed, AlarmIsTimed, TimerHasAlarm, WakeUpCoversAlarm, Expired
<1> QED  BY <1>1, <1>2

(***************************************************************************)
(* The loop of deleteAlarm leaves the item after one it removes.  So it    *)
(* only empties a list of one item, and has then started no timer.  This   *)
(* is what keeps the null dereference in timerEvent out of reach.          *)
(***************************************************************************)
LEMMA EmptiedHasNoTimer ==
  ASSUME NEW l, IsList(l), NEW D \in SUBSET DOMAIN l, NEW when, NEW keys,
         LoopRemoves(D, l, when, keys), First(Without(l, D)) = None
  PROVE  StartedInLoop(D, l) = {}
<1>1. D = DOMAIN l
  <2>1. IsList(Without(l, D)) /\ DOMAIN Without(l, D) = DOMAIN l \ D
    BY WithoutIsList
  <2>2. DOMAIN Without(l, D) = {}
    BY <2>1, FirstIsFirst
  <2> QED  BY <2>1, <2>2
<1>2. DOMAIN l \subseteq Nat
  BY ConstantsAssumption DEF IsList
<1>3. \A i, k \in D : ~ (i < k)
  <2> SUFFICES ASSUME NEW i \in D, NEW k \in D, i < k
               PROVE  FALSE
    OBVIOUS
  <2> DEFINE S == {m \in D : i < m}
  <2>1. PICK m \in S : \A n \in S : m <= n
    <3>1. S \in SUBSET Nat /\ S # {}
      BY <1>1, <1>2
    <3> HIDE DEF S
    <3> QED  BY <3>1, LeastExists
  <2>2. Follows(l, i, m)
    BY <1>1, <1>2, <2>1 DEF Follows
  <2> QED  BY <1>1, <2>1, <2>2 DEF LoopRemoves
<1>4. ASSUME NEW i \in D
      PROVE  DueOf(RemovedUpTo(D, l, i), First(RemovedUpTo(D, l, i))) = {}
  <2>1. \A k \in DOMAIN l : k = i
    BY <1>1, <1>2, <1>3
  <2>2. DOMAIN RemovedUpTo(D, l, i) = {}
    BY <1>1, <1>2, <2>1 DEF RemovedUpTo, Without
  <2> QED  BY <2>2 DEF First, DueOf
<1> QED  BY <1>4 DEF StartedInLoop, Rescans

LEMMA TimedStep == TypeOK /\ Timed /\ [Next]_vars => Timed'
<1> SUFFICES ASSUME TypeOK, Timed, [Next]_vars
             PROVE  Timed'
  OBVIOUS
<1> USE DEF Timed, AlarmIsTimed, TimerHasAlarm, WakeUpCoversAlarm, Expired
<1>1. /\ now \in Int /\ resumeat \in Int /\ timers \subseteq Int
      /\ nearest # None => nearest \in DOMAIN list /\ list[nearest].time \in Int
  BY ConstantsAssumption DEF TypeOK, IsList, Alarm, Times
<1>2. ASSUME NEW a \in Alarm, AddAlarm(a)
      PROVE  Timed'
  <2>1. /\ adds + 1 \in 1 .. MaxAdds /\ adds + 1 \notin DOMAIN list
        /\ adds + 1 # None
    BY <1>2, ConstantsAssumption DEF AddAlarm, Listed, BecomesNearest, TypeOK
  <2>2. /\ list'[adds + 1] = a
        /\ \A j \in DOMAIN list : list'[j] = list[j]
    <3>1. list' = Appended(list, adds + 1, a) /\ IsList(list)
      BY <1>2 DEF AddAlarm, Listed, BecomesNearest, TypeOK
    <3> QED  BY <2>1, <3>1 DEF Appended
  <2>3. CASE nearest' = nearest /\ timers' = timers /\ resumeat' = resumeat
    BY <1>1, <1>2, <2>2, <2>3 DEF AddAlarm, Listed, BecomesNearest, Changes
  <2>4. CASE nearest' = adds + 1 /\ timers' = {Due(a.time)}
             /\ resumeat' = WakeUp(a.time)
    <3>1. a.time \in Times /\ now' = now
      BY <1>2 DEF Alarm, AddAlarm, Changes
    <3>2. /\ WakeUp(a.time) \in Times
          /\ Due(a.time) <= a.time \/ Due(a.time) <= now
          /\ WakeUp(a.time) <= a.time \/ Due(a.time) <= now
      BY <3>1, ResetBounds DEF TypeOK
    <3>3. resumeat' # 0
      BY <2>4, <3>2 DEF Times
    <3> QED  BY <2>1, <2>2, <2>4, <3>1, <3>2, <3>3
  <2> QED  BY <1>2, <2>3, <2>4 DEF AddAlarm, Listed, BecomesNearest
<1>3. ASSUME NEW when, NEW keys, DeleteAlarm(when, keys)
      PROVE  Timed'
  <2>1. PICK D \in SUBSET DOMAIN list :
          /\ LoopRemoves(D, list, when, keys)
          /\ list' = Without(list, D)
          /\ nearest' = NearestAfter(D, list)
          /\ timers' = StartedInLoop(D, list) \cup DueOf(list', nearest')
          /\ nearest' # None => resumeat' = WakeUp(list'[nearest'].time)
    BY <1>3 DEF DeleteAlarm
  <2>2. /\ IsList(list') /\ now' = now
        /\ nearest' \in DOMAIN list' \cup {None}
    <3>1. IsList(list') /\ DOMAIN list' = DOMAIN list \ D /\ now' = now
      BY <1>3, <2>1, WithoutIsList DEF TypeOK, DeleteAlarm, Changes
    <3> QED  BY <2>1, <3>1, FirstType DEF NearestAfter, TypeOK
  <2>3. CASE nearest' = None
    <3>1. StartedInLoop(D, list) = {}
      <4>1. CASE nearest \in D
        BY <2>1, <2>3, <4>1, EmptiedHasNoTimer DEF NearestAfter, TypeOK
      <4>2. CASE nearest \notin D
        BY <2>1, <2>3, <4>2 DEF NearestAfter, Rescans, StartedInLoop
      <4> QED  BY <4>1, <4>2
    <3> QED  BY <2>1, <2>3, <3>1 DEF DueOf
  <2>4. CASE nearest' # None
    <3> DEFINE t == list'[nearest'].time
    <3>1. /\ nearest' # None /\ Due(t) \in timers' /\ resumeat' = WakeUp(t)
          /\ t \in Times
      BY <2>1, <2>2, <2>4 DEF DueOf, IsList, Alarm
    <3>2. /\ WakeUp(t) \in Times
          /\ Due(t) <= t \/ Due(t) <= now
          /\ WakeUp(t) <= t \/ Due(t) <= now
      BY <3>1, ResetBounds DEF TypeOK
    <3>3. resumeat' # 0
      BY <3>1, <3>2 DEF Times
    <3> QED  BY <2>2, <3>1, <3>2, <3>3
  <2> QED  BY <2>3, <2>4
<1>4. CASE TimerEvent
  <2>1. IsList(list') /\ SetNearestTimerEvent(list') /\ now' = now
    <3>1. CASE TimerFires
      BY <3>1, WithoutIsList DEF TypeOK, TimerFires, Changes
    <3>2. CASE TimerEarly
      BY <3>2 DEF TypeOK, TimerEarly
    <3> QED  BY <1>4, <3>1, <3>2 DEF TimerEvent
  <2> QED  BY <2>1, SetNearestTimed DEF TypeOK
<1>5. CASE SaveState
  BY <1>5 DEF SaveState, SaveEmpty, SaveOpen, SaveFails, SaveUnlink,
              SaveRename, SaveRenameFails, Finished, Returns, memory
<1>6. CASE Crash
  BY <1>6 DEF Crash
<1>7. CASE Initialize
  <2>1. CASE saveFile = None
    BY <1>7, <2>1 DEF Initialize, memory
  <2>2. CASE saveFile # None
    BY <1>7, <2>2, SetNearestTimed DEF Initialize, TypeOK
  <2> QED  BY <2>1, <2>2
<1>8. CASE Tick
  BY <1>1, <1>8 DEF Tick, memory
<1>9. ASSUME NEW t \in Times, SetClockBack(t)
      PROVE  Timed'
  <2>1. t \in Int /\ t < now
    BY <1>9 DEF SetClockBack, Times
  <2>2. /\ list' = list /\ nearest' = nearest /\ resumeat' = resumeat /\ now' = t
        /\ timers' = {d - (now - t) : d \in timers}
    BY <1>9 DEF SetClockBack
  <2>3. /\ timers # {} <=> timers' # {}
        /\ \A d \in timers : /\ d - (now - t) \in timers'
                             /\ d - (now - t) <= d
                             /\ d <= now => d - (now - t) <= t
    BY <1>1, <2>1, <2>2
  <2>4. Expired => Expired'
    BY <2>2, <2>3
  <2>5. AlarmIsTimed'
    <3> SUFFICES ASSUME nearest # None
                 PROVE  \E d \in timers' : d <= list[nearest].time \/ d <= t
      BY <2>2
    <3>1. PICK d \in timers : d <= list[nearest].time \/ d <= now
      OBVIOUS
    <3> QED  BY <1>1, <2>1, <2>3, <3>1
  <2> QED  BY <2>2, <2>3, <2>4, <2>5
<1>10. CASE UNCHANGED vars
  BY <1>10 DEF vars, memory
<1> QED  BY <1>2, <1>3, <1>4, <1>5, <1>6, <1>7, <1>8, <1>9, <1>10 DEF Next

LEMMA AlwaysTimed == Spec => []Timed
<1>1. Init => Timed
  BY DEF Init, Timed, AlarmIsTimed, TimerHasAlarm, WakeUpCoversAlarm
<1> QED  BY <1>1, TimedStep, TypeCorrect, PTL DEF Spec

(* A timer that goes off in time runs while any alarm is listed. *)
THEOREM AlarmAlwaysTimed == Spec => []AlarmIsTimed
<1>1. Timed => AlarmIsTimed
  BY DEF Timed
<1> QED  BY <1>1, AlwaysTimed, PTL

(* timerEvent never runs into the resetTimer call for a null pointer. *)
THEOREM TimerAlwaysHasAlarm == Spec => []TimerHasAlarm
<1>1. Timed => TimerHasAlarm
  BY DEF Timed
<1> QED  BY <1>1, AlwaysTimed, PTL

(* The wake-up time left for opiealarm is early enough for every alarm. *)
THEOREM WakeUpAlwaysCovers == Spec => []WakeUpCoversAlarm
<1>1. Timed => WakeUpCoversAlarm
  BY DEF Timed
<1> QED  BY <1>1, AlwaysTimed, PTL

(***************************************************************************)
(* One alarm per set of parameters                                         *)
(***************************************************************************)
Unique(l) == \A i, j \in DOMAIN l : l[i] = l[j] => i = j

(* The files are copies of the list, so they have to be covered too. *)
UniqueInv ==
  /\ Unique(list)
  /\ saveFile # None => Unique(saveFile)
  /\ newFile # None => Unique(newFile)

LEMMA UniqueStep == TypeOK /\ UniqueInv /\ [Next]_vars => UniqueInv'
<1> SUFFICES ASSUME TypeOK, UniqueInv, [Next]_vars
             PROVE  UniqueInv'
  OBVIOUS
<1> USE DEF UniqueInv, files, memory
<1>1. \A S : Unique(Without(list, S))
  BY DEF Unique, Without
<1>2. ASSUME NEW a \in Alarm, AddAlarm(a)
      PROVE  UniqueInv'
  <2>1. IsList(list) /\ adds + 1 \in 1 .. MaxAdds
    BY <1>2, ConstantsAssumption DEF AddAlarm, Listed, BecomesNearest, TypeOK
  <2>2. /\ DOMAIN list' = DOMAIN list \cup {adds + 1}
        /\ list'[adds + 1] = a
        /\ \A j \in DOMAIN list : j # adds + 1 => list'[j] = list[j]
    BY <1>2, <2>1, AppendedIsList DEF AddAlarm, Listed, BecomesNearest
  <2>3. \A j \in DOMAIN list : list[j] # a
    BY <1>2 DEF AddAlarm, Listed, BecomesNearest, Items
  <2>4. Unique(list')
    BY <2>2, <2>3 DEF Unique
  <2> QED  BY <1>2, <2>4 DEF AddAlarm, Listed, BecomesNearest, Changes
<1>3. ASSUME NEW when, NEW keys, DeleteAlarm(when, keys)
      PROVE  UniqueInv'
  BY <1>1, <1>3 DEF DeleteAlarm, Changes
<1>4. CASE TimerEvent
  BY <1>1, <1>4 DEF TimerEvent, TimerFires, TimerEarly, Changes
<1>5. CASE SaveState
  BY <1>5 DEF SaveState, SaveEmpty, SaveOpen, SaveFails, SaveUnlink,
              SaveRename, SaveRenameFails, Finished, Returns
<1>6. CASE Crash
  <2>1. Unique(Empty)
    BY DEF Unique, Empty
  <2> QED  BY <1>6, <2>1 DEF Crash
<1>7. CASE Initialize
  BY <1>7 DEF Initialize
<1>8. CASE Tick \/ \E t \in Times : SetClockBack(t)
  BY <1>8 DEF Tick, SetClockBack
<1>9. CASE UNCHANGED vars
  BY <1>9 DEF vars
<1> QED  BY <1>2, <1>3, <1>4, <1>5, <1>6, <1>7, <1>8, <1>9 DEF Next

(* No two listed alarms agree in time and parameters. *)
THEOREM AlwaysOneAlarm == Spec => []OneAlarmPerParameters
<1>1. Init => UniqueInv
  BY DEF Init, UniqueInv, Unique, Empty
<1>2. UniqueInv => OneAlarmPerParameters
  BY DEF UniqueInv, Unique, OneAlarmPerParameters
<1> QED  BY <1>1, <1>2, UniqueStep, TypeCorrect, PTL DEF Spec

(* A deletion that names time and parameters leaves no match (deleteAlarm): *)
(* the item its loop skips would have to be a second one.                  *)
THEOREM AlwaysDeletesWhatIsNamed == Spec => DeletesWhatIsNamed
<1>1. ASSUME TypeOK, OneAlarmPerParameters,
             NEW when \in Times, NEW key \in Keys, DeleteAlarm(when, {key}),
             NEW a \in Items(list'), Matches(a, when, {key})
      PROVE  FALSE
  <2>1. PICK D \in SUBSET DOMAIN list :
          LoopRemoves(D, list, when, {key}) /\ list' = Without(list, D)
    BY <1>1 DEF DeleteAlarm
  <2>2. PICK i \in DOMAIN list : i \notin D /\ list[i] = a
    BY <2>1 DEF Items, Without
  <2>3. PICK j \in D : Follows(list, j, i)
    BY <1>1, <2>1, <2>2 DEF LoopRemoves
  <2>4. j \in DOMAIN list /\ j # i /\ Matches(list[j], when, {key})
    BY <2>1, <2>3, <1>1 DEF Follows, LoopRemoves, TypeOK, IsList
  <2>5. list[i] \in Alarm /\ list[j] \in Alarm
    BY <1>1, <2>2, <2>4 DEF TypeOK, IsList
  <2>6. list[i] = list[j]
    BY <1>1, <2>2, <2>4, <2>5, ConstantsAssumption DEF Matches, Alarm
  <2> QED  BY <1>1, <2>2, <2>4, <2>6 DEF OneAlarmPerParameters
<1>2. TypeOK /\ OneAlarmPerParameters /\ [Next]_vars =>
        [\A when \in Times, key \in Keys :
           DeleteAlarm(when, {key}) =>
             \A a \in Items(list') : ~ Matches(a, when, {key})]_vars
  BY <1>1
<1> QED  BY <1>2, TypeCorrect, AlwaysOneAlarm, PTL DEF Spec, DeletesWhatIsNamed

(***************************************************************************)
(* Crashes                                                                 *)
(***************************************************************************)
(***************************************************************************)
(* Where the alarms are at each step of a handler, with no assumption on   *)
(* crashes or failing calls.  A handler may start, and the open of its new *)
(* file fail, only where the committed alarms are kept: what is pending is *)
(* on the disk from the open on.                                           *)
(***************************************************************************)
DiskInv ==
  /\ pc \in {"idle", "open"} => Kept(committed)
  /\ pc \in {"open", "unlink", "rename"} => pending = Items(list)
  /\ pc \in {"unlink", "rename"} => newFile = list
  /\ pc = "rename" => saveFile = None
  /\ AlarmsStayOnDisk

LEMMA DiskStep == TypeOK /\ DiskInv /\ [Next]_vars => DiskInv'
<1> SUFFICES ASSUME TypeOK, DiskInv, [Next]_vars
             PROVE  DiskInv'
  OBVIOUS
<1> USE DEF DiskInv, AlarmsStayOnDisk, Kept, files, memory
<1>1. ASSUME pc = "idle", Changes
      PROVE  DiskInv'
  BY <1>1 DEF Changes
<1>2. ASSUME NEW a \in Alarm, AddAlarm(a)
      PROVE  DiskInv'
  BY <1>1, <1>2 DEF AddAlarm
<1>3. ASSUME NEW when, NEW keys, DeleteAlarm(when, keys)
      PROVE  DiskInv'
  <2>1. CASE Changes
    BY <1>1, <1>3, <2>1 DEF DeleteAlarm
  <2>2. CASE UNCHANGED <<files, now, pc, committed, pending, backs, crashes>>
    BY <1>3, <2>2 DEF DeleteAlarm
  <2> QED  BY <1>3, <2>1, <2>2 DEF DeleteAlarm
<1>4. CASE TimerFires
  BY <1>1, <1>4 DEF TimerFires
<1>5. CASE TimerEarly
  BY <1>5 DEF TimerEarly
<1>6. CASE SaveState
  <2>1. IsList(list) /\ Saved(list) = Items(list)
    BY ItemsAreAlarms DEF TypeOK
  <2>2. CASE SaveEmpty
    <3>1. Items(list) = {} /\ Saved(saveFile') = {}
      BY <2>2 DEF SaveEmpty, Items, Saved
    <3> QED  BY <2>2, <3>1 DEF SaveEmpty, Finished, Returns
  <2>3. CASE SaveOpen
    BY <2>1, <2>3 DEF SaveOpen
  <2>4. CASE SaveFails
    BY <2>4 DEF SaveFails, Returns
  <2>5. CASE SaveUnlink
    BY <2>1, <2>5 DEF SaveUnlink
  <2>6. CASE SaveRename
    BY <2>1, <2>6 DEF SaveRename, Finished, Returns
  <2>7. CASE SaveRenameFails
    <3>1. saveFile' = saveFile /\ newFile' = newFile /\ newFile = list
          /\ committed' = pending /\ pending' = pending /\ pc' = "idle"
          /\ pc = "rename" /\ pending = Items(list)
      BY <2>7 DEF SaveRenameFails, Finished, Returns
    <3> QED  BY <2>1, <3>1
  <2> QED  BY <1>6, <2>2, <2>3, <2>4, <2>5, <2>6, <2>7 DEF SaveState
<1>7. CASE Crash
  BY <1>7 DEF Crash
<1>8. CASE Initialize
  BY <1>8 DEF Initialize
<1>9. CASE Tick \/ \E t \in Times : SetClockBack(t)
  BY <1>9 DEF Tick, SetClockBack
<1>10. CASE UNCHANGED vars
  BY <1>10 DEF vars
<1> QED  BY <1>2, <1>3, <1>4, <1>5, <1>6, <1>7, <1>8, <1>9, <1>10
         DEF Next, TimerEvent

(* A crash at any point, and any failing call, leave the alarms from       *)
(* before or after the handler on the disk: saveState (alarmserver.cpp)    *)
(* unlinks the save file only when saveFile.new is written.                *)
THEOREM AlarmsAlwaysOnDisk == Spec => []AlarmsStayOnDisk
<1>1. Init => DiskInv
  BY DEF Init, DiskInv, AlarmsStayOnDisk, Kept, Saved
<1>2. DiskInv => AlarmsStayOnDisk
  BY DEF DiskInv
<1> QED  BY <1>1, <1>2, DiskStep, TypeCorrect, PTL DEF Spec

(***************************************************************************)
(* The book of alarms.  It is kept as long as no crash comes between the   *)
(* unlink and the rename and both the open and the rename succeed.         *)
(***************************************************************************)
FilesInv ==
  /\ pc = "idle" => Saved(saveFile) = committed /\ Items(list) = committed
  /\ pc \in {"open", "unlink"} => Saved(saveFile) = committed
  /\ pc \in {"open", "unlink", "rename"} => pending = Items(list)
  /\ pc \in {"unlink", "rename"} => newFile = list
  /\ pc = "down" => list = Empty
  /\ CrashIsAtomic

LEMMA FilesStep ==
  ASSUME "rename" \notin CrashPoints, SaveMayFail = FALSE
  PROVE  TypeOK /\ FilesInv /\ [Next]_vars => FilesInv'
<1> SUFFICES ASSUME TypeOK, FilesInv, [Next]_vars
             PROVE  FilesInv'
  OBVIOUS
<1> USE DEF FilesInv, CrashIsAtomic, files, memory
<1>1. ASSUME pc = "idle", Changes
      PROVE  FilesInv'
  BY <1>1 DEF Changes
<1>2. ASSUME NEW a \in Alarm, AddAlarm(a)
      PROVE  FilesInv'
  BY <1>1, <1>2 DEF AddAlarm, Listed, BecomesNearest
<1>3. ASSUME NEW when, NEW keys, DeleteAlarm(when, keys)
      PROVE  FilesInv'
  <2>1. PICK D \in SUBSET DOMAIN list :
          /\ list' = Without(list, D)
          /\ IF D # {} THEN Changes
             ELSE UNCHANGED <<files, now, pc, committed, pending, backs, crashes>>
    BY <1>3 DEF DeleteAlarm
  <2>2. CASE D # {}
    BY <1>1, <1>3, <2>1, <2>2 DEF DeleteAlarm
  <2>3. CASE D = {}
    <3>1. Items(list') = Items(list)
      BY <2>1, <2>3 DEF Items, Without
    <3> QED  BY <1>3, <2>1, <2>3, <3>1 DEF DeleteAlarm
  <2> QED  BY <2>2, <2>3
<1>4. CASE TimerFires
  BY <1>1, <1>4 DEF TimerFires
<1>5. CASE TimerEarly
  BY <1>5 DEF TimerEarly
<1>6. CASE SaveState
  <2>1. CASE SaveEmpty
    <3>1. Items(list) = {} /\ Saved(saveFile') = {}
      BY <2>1 DEF SaveEmpty, Items, Saved
    <3> QED  BY <2>1, <3>1 DEF SaveEmpty, Finished, Returns
  <2>2. CASE SaveOpen
    BY <2>2 DEF SaveOpen
  <2>3. CASE SaveUnlink
    BY <2>3 DEF SaveUnlink
  <2>4. CASE SaveRename
    <3>1. Saved(saveFile') = Items(list)
      BY <2>4, ItemsAreAlarms DEF SaveRename, TypeOK
    <3> QED  BY <2>4, <3>1 DEF SaveRename, Finished, Returns
  <2> QED  BY <1>6, <2>1, <2>2, <2>3, <2>4 DEF SaveState, SaveFails, SaveRenameFails
<1>7. CASE Crash
  <2>1. pc \in {"idle", "open", "unlink"}
    BY <1>7, ConstantsAssumption DEF Crash, Points
  <2> QED  BY <1>7, <2>1 DEF Crash
<1>8. CASE Initialize
  <2>1. CASE saveFile = None
    <3>1. Items(list) = {}
      BY <1>8 DEF Initialize, Items, Empty
    <3> QED  BY <1>8, <2>1, <3>1 DEF Initialize, Saved
  <2>2. CASE saveFile # None
    BY <1>8, <2>2 DEF Initialize, Saved
  <2> QED  BY <2>1, <2>2
<1>9. CASE Tick \/ \E t \in Times : SetClockBack(t)
  BY <1>9 DEF Tick, SetClockBack
<1>10. CASE UNCHANGED vars
  BY <1>10 DEF vars
<1> QED  BY <1>2, <1>3, <1>4, <1>5, <1>6, <1>7, <1>8, <1>9, <1>10
         DEF Next, TimerEvent

(* A message is only sent inside a handler that goes on to saveState. *)
SentInv == pc \in {"idle", "down"} => sent = None

BookInv == TypeOK /\ NearestIsEarliest /\ UniqueInv /\ FilesInv /\ SentInv

LEMMA SentStep == SentInv /\ [Next]_vars => SentInv'
<1> SUFFICES ASSUME SentInv, [Next]_vars PROVE SentInv'
  OBVIOUS
<1> USE DEF SentInv
<1>1. CASE Changes
  BY <1>1 DEF Changes
<1>2. CASE Returns \/ Crash
  BY <1>2 DEF Returns, Crash
<1>3. ASSUME UNCHANGED <<pc, sent>> PROVE SentInv'
  BY <1>3
<1>4. CASE SaveState
  BY <1>2, <1>4 DEF SaveState, SaveEmpty, SaveOpen, SaveFails, SaveUnlink, SaveRename,
                    SaveRenameFails, Finished
<1>5. CASE Initialize
  BY <1>5 DEF Initialize
<1>6. ASSUME NEW when, NEW keys, DeleteAlarm(when, keys) PROVE SentInv'
  BY <1>1, <1>3, <1>6 DEF DeleteAlarm
<1>7. CASE TimerEvent \/ Tick \/ \E t \in Times : SetClockBack(t)
  BY <1>1, <1>3, <1>7 DEF TimerEvent, TimerFires, TimerEarly, Tick, SetClockBack
<1>8. ASSUME NEW a \in Alarm, AddAlarm(a) PROVE SentInv'
  BY <1>1, <1>8 DEF AddAlarm
<1>9. CASE UNCHANGED vars
  BY <1>3, <1>9 DEF vars
<1> QED  BY <1>2, <1>4, <1>5, <1>6, <1>7, <1>8, <1>9 DEF Next

(* What the alarms of a list are when one has been added or some removed *)
LEMMA ItemsAppended ==
  ASSUME NEW l, IsList(l), NEW i \in 1 .. MaxAdds, i \notin DOMAIN l, NEW a \in Alarm
  PROVE  Items(Appended(l, i, a)) = Items(l) \cup {a}
<1> DEFINE m == Appended(l, i, a)
<1>1. /\ DOMAIN m = DOMAIN l \cup {i} /\ m[i] = a
      /\ \A j \in DOMAIN l : m[j] = l[j]
  BY AppendedIsList
<1> HIDE DEF m
<1>2. Items(m) = Items(l) \cup {a}
  BY <1>1 DEF Items
<1> QED  BY <1>2 DEF m

LEMMA ItemsWithout ==
  ASSUME NEW l, IsList(l), Unique(l), NEW D \in SUBSET DOMAIN l
  PROVE  Items(Without(l, D)) = Items(l) \ {l[i] : i \in D}
<1>1. DOMAIN Without(l, D) = DOMAIN l \ D /\ \A i \in DOMAIN l \ D : Without(l, D)[i] = l[i]
  BY DEF Without
<1> QED  BY <1>1 DEF Items, Unique

(* Between handlers list and file have what the book has *)
LEMMA BookIdle ==
  ASSUME BookInv, pc = "idle"
  PROVE  Lasting = Items(list) /\ Intended = Items(list) /\ sent = None
BY DEF BookInv, FilesInv, SentInv, Lasting, Intended

(* A handler that changes the list to s *)
LEMMA BookBegins ==
  ASSUME BookInv, pc = "idle", Changes
  PROVE  Book!Begins(Items(list'), sent')
<1>1. Lasting' = Lasting /\ Intended' = Items(list')
  BY DEF Changes, Lasting, Intended, files
<1> QED  BY <1>1, BookIdle DEF Book!Begins, Changes


LEMMA BookSchedules ==
  ASSUME BookInv, NEW a \in Alarm, AddAlarm(a)
  PROVE  Book!Schedule(a)
<1>1. pc = "idle" /\ Changes /\ a \notin Items(list) /\ sent' = sent
      /\ list' = Appended(list, adds + 1, a)
  BY DEF AddAlarm, Listed
<1>2. IsList(list) /\ adds + 1 \in 1 .. MaxAdds /\ adds + 1 \notin DOMAIN list
  BY ConstantsAssumption DEF AddAlarm, BookInv, TypeOK
<1>3. Items(list') = Items(list) \cup {a}
  BY <1>1, <1>2, ItemsAppended
<1> QED  BY <1>1, <1>3, BookIdle, BookBegins DEF Book!Schedule

(* The loop removes nothing but matches, and the first match always *)
LEMMA BookCancels ==
  ASSUME BookInv, NEW when, NEW keys, DeleteAlarm(when, keys)
  PROVE  Book!Cancel(when, keys) \/ UNCHANGED Book!vars
<1>1. PICK D \in SUBSET DOMAIN list :
        /\ LoopRemoves(D, list, when, keys)
        /\ list' = Without(list, D)
        /\ IF D # {} THEN Changes
           ELSE UNCHANGED <<files, now, pc, committed, pending, backs, crashes>>
  BY DEF DeleteAlarm
<1>2. pc = "idle" /\ sent' = sent /\ IsList(list)
  BY DEF DeleteAlarm, BookInv, TypeOK
<1> DEFINE S == {list[i] : i \in D}
<1>3. Items(list') = Items(list) \ S
  BY <1>1, <1>2, ItemsWithout DEF BookInv, UniqueInv
<1>4. CASE D = {}
  BY <1>1, <1>2, <1>3, <1>4 DEF Book!vars, Lasting, Intended, files
<1>5. CASE D # {}
  <2>1. S # {} /\ S \in SUBSET {a \in Items(list) : Matches(a, when, keys)}
    BY <1>1, <1>5 DEF LoopRemoves, Items
  <2>2. Book!Begins(Items(list) \ S, None)
    BY <1>1, <1>2, <1>3, <1>5, BookIdle, BookBegins
  <2> HIDE DEF S
  <2> QED  BY <1>2, <2>1, <2>2, BookIdle DEF Book!Cancel, Book!Matches, Matches
<1> QED  BY <1>4, <1>5

LEMMA BookRings ==
  ASSUME BookInv, TimerFires
  PROVE  \E a \in Alarm : Book!Ring(a)
<1> DEFINE a == list[nearest]
<1>1. /\ pc = "idle" /\ Changes /\ sent' = a /\ a.time <= now
      /\ list' = Without(list, {nearest})
      /\ IsList(list) /\ nearest = First(list) /\ nearest \in DOMAIN list
  BY DEF TimerFires, BookInv, TypeOK, NearestIsEarliest
<1>2. a \in Alarm /\ a \in Items(list)
  BY <1>1 DEF IsList, Items
<1>3. Items(list') = Items(list) \ {a}
  BY <1>1, ItemsWithout DEF BookInv, UniqueInv
<1>4. \A b \in Items(list) : a.time <= b.time
  <2>1. IsFirst(list, nearest)
    BY <1>1, FirstIsFirst
  <2>2. \A j \in DOMAIN list : list[j].time \in Int
    BY <1>1 DEF IsList, Alarm, Times
  <2> QED  BY <1>1, <2>1, <2>2 DEF IsFirst, Sooner, Items
<1> HIDE DEF a
<1> QED  BY <1>1, <1>2, <1>3, <1>4, BookIdle, BookBegins DEF Book!Ring

(* The unlink of saveState, or of an empty list's file, is the commit *)
LEMMA BookSaves ==
  ASSUME BookInv, SaveState, SaveMayFail = FALSE
  PROVE  Book!Commit \/ UNCHANGED Book!vars
<1> USE DEF Lasting, Intended, Finished, Returns, memory
<1>1. CASE SaveEmpty
  <2>1. Items(list) = {} /\ Saved(saveFile') = {} /\ list' = list
        /\ pc = "open" /\ pc' = "idle" /\ sent' = None /\ now' = now
    BY <1>1 DEF SaveEmpty, Items, Saved
  <2> QED  BY <2>1 DEF Book!Commit, Book!Ends
<1>2. CASE SaveOpen
  BY <1>2 DEF SaveOpen, Book!vars
<1>3. CASE SaveUnlink
  BY <1>3 DEF SaveUnlink, Book!Commit, Book!Ends
<1>4. CASE SaveRename
  <2>1. newFile = list /\ IsList(list)
    BY <1>4 DEF SaveRename, BookInv, FilesInv, TypeOK
  <2>2. Saved(saveFile') = Items(list)
    BY <1>4, <2>1, ItemsAreAlarms DEF SaveRename
  <2> QED  BY <1>4, <2>2 DEF SaveRename, Book!vars
<1> QED  BY <1>1, <1>2, <1>3, <1>4 DEF SaveState, SaveFails, SaveRenameFails

LEMMA BookCrashes ==
  ASSUME BookInv, Crash, "rename" \notin CrashPoints
  PROVE  Book!Abort \/ UNCHANGED Book!vars
<1>1. /\ pc \in {"idle", "open", "unlink"} /\ pc' = "down" /\ sent' = None
      /\ saveFile' = saveFile /\ now' = now
  BY ConstantsAssumption DEF Crash, Points, files
<1>2. Lasting' = Lasting /\ Intended' = Lasting
  BY <1>1 DEF Lasting, Intended
<1>3. CASE pc = "idle"
  BY <1>1, <1>2, <1>3, BookIdle DEF Book!vars
<1>4. CASE pc # "idle"
  BY <1>1, <1>2, <1>4 DEF Book!Abort, Book!Ends
<1> QED  BY <1>3, <1>4

LEMMA BookRestarts ==
  ASSUME BookInv, Initialize
  PROVE  UNCHANGED Book!vars
<1>1. Items(list') = Saved(saveFile)
  <2>1. CASE saveFile = None
    <3>1. list' = Empty
      BY <2>1 DEF Initialize, BookInv, FilesInv, memory
    <3> QED  BY <2>1, <3>1 DEF Items, Saved, Empty
  <2>2. CASE saveFile # None
    BY <2>2 DEF Initialize, Saved
  <2> QED  BY <2>1, <2>2
<1> QED  BY <1>1 DEF Initialize, Lasting, Intended, files, Book!vars

LEMMA BookStep ==
  ASSUME "rename" \notin CrashPoints, SaveMayFail = FALSE
  PROVE  BookInv /\ [Next]_vars => [Book!Next]_(Book!vars)
<1> SUFFICES ASSUME BookInv, [Next]_vars PROVE [Book!Next]_(Book!vars)
  OBVIOUS
<1>1. ASSUME NEW a \in Alarm, AddAlarm(a) PROVE Book!Next
  BY <1>1, BookSchedules DEF Book!Next, Book!Alarm, Alarm
<1>2. ASSUME NEW when \in Times \cup {AnyTime}, NEW keys \in SUBSET Keys,
             DeleteAlarm(when, keys)
      PROVE  [Book!Next]_(Book!vars)
  BY <1>2, BookCancels DEF Book!Next
<1>3. CASE TimerFires
  BY <1>3, BookRings DEF Book!Next, Book!Alarm, Alarm
<1>4. CASE TimerEarly
  BY <1>4 DEF TimerEarly, Lasting, Intended, files, Book!vars
<1>5. CASE SaveState
  BY <1>5, BookSaves DEF Book!Next
<1>6. CASE Crash
  BY <1>6, BookCrashes DEF Book!Next
<1>7. CASE Initialize
  BY <1>7, BookRestarts
<1>8. CASE Tick \/ \E t \in Times : SetClockBack(t)
  <2>1. now' \in Times /\ UNCHANGED <<list, saveFile, pc, sent>>
    <3>1. TypeOK'
      BY <1>8, ClockType DEF BookInv
    <3> QED  BY <1>8, <3>1 DEF Tick, SetClockBack, TypeOK, memory, files
  <2> QED  BY <2>1 DEF Book!Next, Book!Clock, Lasting, Intended
<1>9. CASE UNCHANGED vars
  BY <1>9 DEF vars, memory, files, Lasting, Intended, Book!vars
<1> QED  BY <1>1, <1>2, <1>3, <1>4, <1>5, <1>6, <1>7, <1>8, <1>9 DEF Next, TimerEvent

(* The alarm server implements a book of alarms that is never lost: what it *)
(* sends is the earliest alarm, and due; what a handler changes is what was *)
(* asked for; and a crash undoes the handler it comes in, or none of it.    *)
(* The assumptions are needed: a crash between unlink and rename loses the  *)
(* book (CrashIsAtomic fails), and so does a rename that fails.             *)
THEOREM ServerImplementsBook ==
  ASSUME "rename" \notin CrashPoints, SaveMayFail = FALSE
  PROVE  Spec => ImplementsBook
<1>1. Init => UniqueInv /\ FilesInv /\ SentInv
  BY DEF Init, UniqueInv, Unique, FilesInv, SentInv, CrashIsAtomic, Saved, Items, Empty
<1>2. TypeOK /\ FilesInv /\ [Next]_vars => FilesInv'
  BY FilesStep
<1>3. Init => Book!Init
  BY ConstantsAssumption DEF Init, Book!Init, Lasting, Intended, Saved, Items, Empty, Times
<1>4. BookInv /\ [Next]_vars => [Book!Next]_(Book!vars)
  BY BookStep
<1>5. TypeOK /\ NearestIsEarliest /\ UniqueInv /\ FilesInv /\ SentInv => BookInv
  BY DEF BookInv
<1> QED  BY <1>1, <1>2, <1>3, <1>4, <1>5, TypeCorrect, NearestAlwaysEarliest, UniqueStep,
            SentStep, PTL DEF Spec, ImplementsBook, Book!Spec

=============================================================================
