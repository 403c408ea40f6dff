---------------------------- MODULE AlarmServer ----------------------------
(***************************************************************************)
(* The alarm server of the launcher process (library/alarmserver.cpp, the  *)
(* build without USE_ATD).                                                 *)
(*                                                                         *)
(* One process keeps a list of alarms in memory, arms a Qt timer for the   *)
(* earliest of them, writes the time of the next wake-up for opiealarm to  *)
(* /var/run/resumeat and saves the list to a file after every change.      *)
(* Handlers run one at a time on the event loop; only a crash or the loss  *)
(* of power comes between the system calls of saveState, so those are      *)
(* separate actions and everything else a handler does is one step.        *)
(***************************************************************************)
EXTENDS Integers, FiniteSets

CONSTANTS
  MaxTime,     \* bound on the wall clock, in seconds since some epoch
  Keys,        \* what <<channel, message, data>> tells apart
  None,        \* the null pointer, and a file that does not exist
  AnyTime,     \* the null QDateTime, a wildcard of deleteAlarm
  MaxSecs,     \* the most seconds a Qt timer is armed for (2147000)
  MaxAdds,     \* bound on the alarms accepted
  MaxBacks,    \* bound on how often the clock is set back
  MaxCrashes,  \* bound on the crashes
  CrashPoints, \* the points of a handler at which a crash may happen
  SaveMayFail  \* whether the open and the rename of saveState may fail

Points == {"idle", "open", "unlink", "rename"}

Times == 1 .. MaxTime

(* struct timerEventItem *)
Alarm == [time : Times, key : Keys]

ASSUME ConstantsAssumption ==
  /\ {MaxTime, MaxSecs, MaxAdds, MaxBacks, MaxCrashes} \subseteq Nat
  /\ MaxTime > 0 /\ MaxSecs > 0
  /\ AnyTime \notin Times
  /\ None \notin Nat
  /\ \A S \in SUBSET (1 .. MaxAdds) : None \notin [S -> Alarm]
  /\ CrashPoints \subseteq Points
  /\ SaveMayFail \in BOOLEAN

VARIABLES
  list,       \* timerEventList: the position an alarm was appended at -> alarm
  nearest,    \* nearestTimerEvent: a position of the list, or None
  timers,     \* when the running Qt timers go off, on the wall clock
  resumeat,   \* the contents of /var/run/resumeat, 0 when nothing is due
  now,        \* the wall clock
  saveFile,   \* what AlarmServer/saveFile holds: a list, or None
  newFile,    \* what saveFile.new holds: a list, or None
  pc,         \* "idle": between handlers; a step of saveState; "down"
  committed,  \* (history) the alarms as the last save that was written left
              \* them, or as the restart found them
  pending,    \* (history) the alarms as the running handler will leave them
  sent,       \* (history) the alarm the running handler has sent, or None
  adds, backs, crashes  \* counters for the bounds

memory == <<list, nearest, timers>>
files  == <<saveFile, newFile>>
counts == <<adds, backs, crashes>>
vars   == <<memory, files, counts, resumeat, now, pc, committed, pending, sent>>

(***************************************************************************)
(* Lists of alarms.  Positions only ever grow, so their order is the order *)
(* of the list, and a position is the identity of the item allocated for   *)
(* it.                                                                     *)
(***************************************************************************)
IsList(l) == DOMAIN l \subseteq 1 .. MaxAdds /\ l \in [DOMAIN l -> Alarm]

Items(l) == {l[i] : i \in DOMAIN l}

(* The alarms initialize finds in a file *)
Saved(f) == IF f = None THEN {} ELSE Items(f)

Empty == [i \in {} |-> None]

Without(l, S) == [i \in DOMAIN l \ S |-> l[i]]

Appended(l, i, a) == [j \in DOMAIN l \cup {i} |-> IF j = i THEN a ELSE l[j]]

(* j comes before i for setNearestTimerEvent: sooner, or listed first *)
Sooner(l, i, j) ==
  l[i].time < l[j].time \/ (l[i].time = l[j].time /\ i <= j)

IsFirst(l, i) == i \in DOMAIN l /\ \A j \in DOMAIN l : Sooner(l, i, j)

(* The item the scan of setNearestTimerEvent ends on *)
First(l) == IF DOMAIN l = {} THEN None ELSE CHOOSE i \in DOMAIN l : IsFirst(l, i)

(***************************************************************************)
(* resetTimer: an alarm in the past counts as one for now, a Qt timer      *)
(* covers at most MaxSecs, the wake-up time is not cut.                    *)
(***************************************************************************)
WakeUp(t) == IF t < now THEN now ELSE t

(* mutant: the cap the wrong way round *)
DueSwapped(t) == IF WakeUp(t) - now > MaxSecs THEN WakeUp(t) ELSE now + MaxSecs

Due(t) == IF WakeUp(t) - now > MaxSecs THEN now + MaxSecs ELSE WakeUp(t)

DueOf(l, i) == IF i = None THEN {} ELSE {Due(l[i].time)}

(* mutant: deleteTimer in both branches *)
SetNearestDeletesTimer(l) ==
  /\ nearest' = First(l)
  /\ timers' = {}
  /\ resumeat' = 0

(* setNearestTimerEvent once the timers have been killed *)
SetNearestTimerEvent(l) ==
  /\ nearest' = First(l)
  /\ timers' = DueOf(l, First(l))
  /\ resumeat' = IF First(l) = None THEN 0 ELSE WakeUp(l[First(l)].time)

Init ==
  /\ list = Empty /\ nearest = None /\ timers = {} /\ resumeat = 0
  /\ now = 1
  /\ saveFile = None /\ newFile = None
  /\ pc = "idle"
  /\ committed = {} /\ pending = {} /\ sent = None
  /\ adds = 0 /\ backs = 0 /\ crashes = 0

(***************************************************************************)
(* The handlers                                                            *)
(***************************************************************************)
(* A handler that changed the list goes on to saveState *)
Changes ==
  /\ pc' = "open"
  /\ pending' = Items(list')
  /\ UNCHANGED <<files, now, committed, backs, crashes>>

(* mutant: only the nearest alarm is compared *)
ListedNearest(a) == nearest # None /\ list[nearest] = a

Listed(a) == a \in Items(list)

(* mutant: an alarm as soon as the nearest replaces it *)
BecomesNearestOnTie(a) == nearest = None \/ a.time <= list[nearest].time

BecomesNearest(a) == nearest = None \/ a.time < list[nearest].time

(* An alarm equal to a listed one is ignored: the handler returns *)
AddAlarm(a) ==
  /\ pc = "idle" /\ adds < MaxAdds
  /\ ~ Listed(a)
  /\ adds' = adds + 1
  /\ list' = Appended(list, adds + 1, a)
  /\ IF BecomesNearest(a)
     THEN /\ nearest' = adds + 1
          /\ timers' = {Due(a.time)}
          /\ resumeat' = WakeUp(a.time)
     ELSE UNCHANGED <<nearest, timers, resumeat>>
  /\ Changes /\ UNCHANGED sent

Matches(a, when, keys) == when \in {AnyTime, a.time} /\ a.key \in keys

(* i is the item after j in the list *)
Follows(l, j, i) == j < i /\ \A k \in DOMAIN l : k <= j \/ i <= k

(* mutant: the iterator is not moved by the removal *)
LoopRemovesEach(D, l, when, keys) ==
  \A i \in DOMAIN l : i \in D <=> Matches(l[i], when, keys)

(***************************************************************************)
(* The items the loop of deleteAlarm removes.  Removing the item under the *)
(* iterator moves the iterator on to the next one, and the ++it of the     *)
(* loop then steps over that one: an item is visited unless the one before *)
(* it was removed.                                                         *)
(***************************************************************************)
LoopRemoves(D, l, when, keys) ==
  \A i \in DOMAIN l :
    i \in D <=> Matches(l[i], when, keys) /\ ~ \E j \in D : Follows(l, j, i)

(***************************************************************************)
(* Removing nearestTimerEvent scans the list again, as it is at that point *)
(* of the loop, and so does removing what that scan found.                 *)
(***************************************************************************)
RemovedUpTo(D, l, i) == Without(l, {j \in D : j <= i})

Rescans(D, l) ==
  {d \in D : \/ d = nearest
             \/ /\ nearest \in D /\ nearest < d
                /\ d = First(RemovedUpTo(D, l, d - 1))}

(* Each scan starts a timer, which nothing kills if its alarm goes too *)
StartedInLoop(D, l) ==
  UNION { DueOf(RemovedUpTo(D, l, i), First(RemovedUpTo(D, l, i))) :
          i \in Rescans(D, l) }

(* nearestTimerEvent after the loop: it stays unless it was removed *)
NearestAfter(D, l) ==
  IF nearest \in D THEN First(Without(l, D)) ELSE nearest

DeleteAlarm(when, keys) ==
  /\ pc = "idle"
  /\ \E D \in SUBSET DOMAIN list :
       LET rest == Without(list, D)
           first == NearestAfter(D, list) IN
       /\ LoopRemoves(D, list, when, keys)
       /\ list' = rest
       /\ nearest' = first
       /\ timers' = StartedInLoop(D, list) \cup DueOf(rest, first)
       /\ resumeat' = IF first # None THEN WakeUp(rest[first].time)
                      ELSE IF nearest \in D THEN 0 ELSE resumeat
       /\ IF D # {} THEN Changes
          ELSE UNCHANGED <<files, now, pc, committed, pending, backs, crashes>>
  /\ UNCHANGED <<adds, sent>>

Expired == \E d \in timers : d <= now

(* timerEvent, the nearest alarm is due: it is sent and dropped *)
TimerFires ==
  /\ pc = "idle" /\ Expired /\ nearest # None
  /\ list[nearest].time <= now
  /\ list' = Without(list, {nearest})
  /\ SetNearestTimerEvent(Without(list, {nearest}))
  /\ Changes /\ sent' = list[nearest]
  /\ UNCHANGED adds

(* mutant: no timer for the rest of the time *)
TimerEarlyDrops ==
  /\ pc = "idle" /\ Expired /\ nearest # None
  /\ now < list[nearest].time
  /\ timers' = {}
  /\ UNCHANGED <<list, nearest, files, counts, resumeat, now, pc, committed,
                 pending, sent>>

(* timerEvent, too early: the timer was capped, stale, or the clock moved *)
TimerEarly ==
  /\ pc = "idle" /\ Expired /\ nearest # None
  /\ now < list[nearest].time
  /\ SetNearestTimerEvent(list)
  /\ UNCHANGED <<list, files, counts, now, pc, committed, pending, sent>>

TimerEvent == TimerFires \/ TimerEarly

(***************************************************************************)
(* saveState                                                               *)
(***************************************************************************)
(* saveState returns, and with it the handler *)
Returns ==
  /\ pc' = "idle" /\ sent' = None
  /\ UNCHANGED <<memory, counts, resumeat, now, pending>>

Finished == Returns /\ committed' = pending

(* mutant: the last alarm is left in the old file *)
SaveEmptyKeepsFile ==
  /\ pc = "open" /\ DOMAIN list = {}
  /\ UNCHANGED files
  /\ Finished

SaveEmpty ==
  /\ pc = "open" /\ DOMAIN list = {}
  /\ saveFile' = None
  /\ UNCHANGED newFile
  /\ Finished

(* mutant: the old file goes before the new one is there *)
SaveOpenUnlinks ==
  /\ pc = "open" /\ DOMAIN list # {}
  /\ saveFile' = None
  /\ newFile' = list
  /\ pc' = "unlink"
  /\ UNCHANGED <<memory, counts, resumeat, now, committed, pending, sent>>

SaveOpen ==
  /\ pc = "open" /\ DOMAIN list # {}
  /\ newFile' = list
  /\ pc' = "unlink"
  /\ UNCHANGED <<memory, counts, resumeat, now, saveFile, committed, pending,
                 sent>>

(* mutant: what open returns is not looked at *)
SaveFailsUnseen ==
  /\ SaveMayFail
  /\ pc = "open" /\ DOMAIN list # {}
  /\ pc' = "unlink"
  /\ UNCHANGED <<memory, counts, resumeat, now, files, committed, pending, sent>>

SaveFails ==
  /\ SaveMayFail
  /\ pc = "open" /\ DOMAIN list # {}
  /\ Returns
  /\ UNCHANGED <<files, committed>>

SaveUnlink ==
  /\ pc = "unlink"
  /\ saveFile' = None
  /\ pc' = "rename"
  /\ UNCHANGED <<memory, counts, resumeat, now, newFile, committed, pending,
                 sent>>

SaveRename ==
  /\ pc = "rename"
  /\ saveFile' = newFile
  /\ newFile' = None
  /\ Finished

(* What rename returns is not looked at *)
SaveRenameFails ==
  /\ SaveMayFail
  /\ pc = "rename"
  /\ UNCHANGED files
  /\ Finished

SaveState ==
  SaveEmpty \/ SaveOpen \/ SaveFails \/ SaveUnlink \/ SaveRename \/ SaveRenameFails

(***************************************************************************)
(* The launcher dies and is started again                                  *)
(***************************************************************************)
Crash ==
  /\ pc \in CrashPoints /\ crashes < MaxCrashes
  /\ crashes' = crashes + 1
  /\ pc' = "down"
  /\ list' = Empty /\ nearest' = None /\ timers' = {} /\ sent' = None
  /\ UNCHANGED <<files, resumeat, now, committed, pending, adds, backs>>

(* initialize: the file resumeat is only written when there was a save file *)
Initialize ==
  /\ pc = "down"
  /\ pc' = "idle"
  /\ IF saveFile = None
     THEN UNCHANGED <<memory, resumeat>>
     ELSE list' = saveFile /\ SetNearestTimerEvent(saveFile)
  /\ committed' = Saved(saveFile)
  /\ pending' = Saved(saveFile)
  /\ UNCHANGED <<files, counts, now, sent>>

(***************************************************************************)
(* The clock.  When it is set back Qt moves its timers with it.            *)
(***************************************************************************)
Tick ==
  /\ now < MaxTime
  /\ now' = now + 1
  /\ UNCHANGED <<memory, files, counts, resumeat, pc, committed, pending, sent>>

SetClockBack(t) ==
  /\ t < now /\ backs < MaxBacks
  /\ now' = t
  /\ timers' = {d - (now - t) : d \in timers}
  /\ backs' = backs + 1
  /\ UNCHANGED <<list, nearest, files, adds, crashes, resumeat, pc,
                 committed, pending, sent>>

Next ==
  \/ \E a \in Alarm : AddAlarm(a)
  \/ \E when \in Times \cup {AnyTime}, keys \in SUBSET Keys : DeleteAlarm(when, keys)
  \/ TimerEvent
  \/ SaveState
  \/ Crash
  \/ Initialize
  \/ Tick
  \/ \E t \in Times : SetClockBack(t)

(***************************************************************************)
(* The event loop serves every timer that stays expired between handlers,  *)
(* the clock runs, and the launcher is started again when it dies.         *)
(***************************************************************************)
Fairness ==
  /\ SF_vars(TimerEvent)
  /\ WF_vars(SaveState)
  /\ WF_vars(Initialize)
  /\ WF_vars(Tick)

Spec == Init /\ [][Next]_vars /\ Fairness

(***************************************************************************)
(* Properties                                                              *)
(***************************************************************************)
(* The type of every variable (the state timerEventList and its pointer,   *)
(* timers and files of alarmserver.cpp can be in).                         *)
TypeOK ==
  /\ IsList(list) /\ DOMAIN list \subseteq 1 .. adds
  /\ nearest \in DOMAIN list \cup {None}
  /\ timers \subseteq Int
  /\ resumeat \in 0 .. MaxTime
  /\ now \in Times
  /\ saveFile # None => IsList(saveFile) /\ DOMAIN saveFile \subseteq 1 .. adds
  /\ newFile # None => IsList(newFile) /\ DOMAIN newFile \subseteq 1 .. adds
  /\ pc \in Points \cup {"down"}
  /\ committed \subseteq Alarm /\ pending \subseteq Alarm
  /\ sent \in Alarm \cup {None}
  /\ adds \in 0 .. MaxAdds
  /\ backs \in 0 .. MaxBacks
  /\ crashes \in 0 .. MaxCrashes

(* nearestTimerEvent is always the earliest alarm, the first listed among  *)
(* equals: the shortcut of addAlarm, which compares the new alarm with the *)
(* nearest only, and the deletion loop agree with a scan of the list.      *)
NearestIsEarliest == nearest = First(list)

(* "There is only ever one alarm with a given set of parameters", also     *)
(* after a restart read the save file (alarmserver.cpp addAlarm).          *)
OneAlarmPerParameters ==
  \A i, j \in DOMAIN list : list[i] = list[j] => i = j

(* While an alarm is listed a Qt timer runs that goes off by the time the  *)
(* alarm is due, or at once when it is overdue.                            *)
AlarmIsTimed ==
  nearest # None => \E d \in timers : d <= list[nearest].time \/ d <= now

(* No timer runs without an alarm: timerEvent would then call resetTimer,  *)
(* which dereferences the null nearestTimerEvent.                          *)
TimerHasAlarm == timers # {} => nearest # None

(* A suspended device wakes up in time: /var/run/resumeat holds a time no  *)
(* later than the earliest alarm, unless a timer is about to go off.       *)
WakeUpCoversAlarm ==
  nearest # None => \/ Expired
                    \/ resumeat # 0 /\ resumeat <= list[nearest].time

(* The alarms S are in the save file, or there is none and they are in the *)
(* file that was to replace it.                                            *)
Kept(S) ==
  \/ Saved(saveFile) = S
  \/ saveFile = None /\ Saved(newFile) = S

(* Whenever the launcher dies and whichever call of saveState fails, the   *)
(* alarms as the last save left them, or as the handler under way will     *)
(* leave them, are whole on the disk: in the save file, or in saveFile.new *)
(* when there is no save file.  In the second case they are there, but     *)
(* initialize does not look for them (see CrashIsAtomic).                  *)
AlarmsStayOnDisk == Kept(committed) \/ Kept(pending)

(* initialize finds, "restoring to previous state", the alarms from before *)
(* the handler that the crash cut short or those from after it.  This does *)
(* NOT hold of the code: a crash between the unlink of the save file and   *)
(* the rename of the new one leaves no save file, and every alarm is lost. *)
CrashIsAtomic == pc = "down" => Saved(saveFile) \in {committed, pending}

(* The book of alarms: the save file, but while it is unlinked and the new  *)
(* one is not in its place; and what a change will leave in it             *)
Lasting == IF pc = "rename" THEN Items(list) ELSE Saved(saveFile)
Intended == IF pc = "down" THEN Saved(saveFile) ELSE Items(list)

Book == INSTANCE AlarmBook WITH
  alarms <- Lasting, next <- Intended, busy <- pc \in {"open", "unlink"},
  sent <- IF pc = "rename" THEN None ELSE sent

(* List, nearest alarm, timers and files together are one book of alarms:  *)
(* a handler schedules, cancels or sends what it should, and the unlink of *)
(* saveState is the moment it takes effect, whole or not at all.  For the  *)
(* code this is so only while no crash comes between that unlink and the   *)
(* rename (CrashPoints), and open and rename succeed (SaveMayFail).        *)
ImplementsBook == Book!Spec

(* deleteAlarm "deletes previously scheduled alarms which match" whenever  *)
(* it is called without wildcards: its loop skips an item only behind one  *)
(* that it removed, and addAlarm has put no second match there.            *)
DeletesWhatIsNamed ==
  [][\A when \in Times, key \in Keys :
       DeleteAlarm(when, {key}) =>
         \A a \in Items(list') : ~ Matches(a, when, {key})]_vars

(* Every alarm goes off or is deleted in the end, over clock changes,      *)
(* crashes and restarts (an alarm lost between unlink and rename has left  *)
(* committed at the restart, and is not what this is about).               *)
AlarmsGoOff == \A a \in Alarm : (a \in committed) ~> (a \notin committed)
=============================================================================
