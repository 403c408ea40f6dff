----------------------------- MODULE AlarmBook -----------------------------
(***************************************************************************)
(* What the alarm server promises its clients, whatever list, timers and   *)
(* files it keeps: a book of alarms that outlives the launcher.  A request *)
(* schedules one alarm or cancels some; the earliest alarm is sent when it *)
(* is due, never before.  Each of these takes effect as a whole or, when   *)
(* the launcher dies over it, not at all.  AlarmServer is shown to         *)
(* implement this.                                                         *)
(***************************************************************************)
EXTENDS Integers

CONSTANTS
  Times,    \* of alarms, and what the clock can show
  Keys,     \* what <<channel, message, data>> tells apart
  AnyTime,  \* the wildcard of a cancellation
  None      \* no alarm

Alarm == [time : Times, key : Keys]

VARIABLES
  alarms,  \* what is in the book
  next,    \* what the change under way will leave in it
  busy,    \* a change is under way
  sent,    \* the alarm it has sent, or None
  now      \* the wall clock

vars == <<alarms, next, busy, sent, now>>

Init ==
  /\ alarms = {} /\ next = {} /\ busy = FALSE /\ sent = None
  /\ now \in Times

Begins(outcome, message) ==
  /\ ~ busy /\ busy' = TRUE
  /\ next' = outcome /\ sent' = message
  /\ UNCHANGED <<alarms, now>>

Schedule(a) == a \notin alarms /\ Begins(alarms \cup {a}, None)

Matches(a, when, keys) == when \in {AnyTime, a.time} /\ a.key \in keys

(* At least one of those that match goes, and nothing else *)
Cancel(when, keys) ==
  \E S \in SUBSET {a \in alarms : Matches(a, when, keys)} :
    S # {} /\ Begins(alarms \ S, None)

Ring(a) ==
  /\ a \in alarms /\ a.time <= now
  /\ \A b \in alarms : a.time <= b.time
  /\ Begins(alarms \ {a}, a)

Ends(outcome) ==
  /\ busy /\ busy' = FALSE
  /\ alarms' = outcome /\ next' = outcome /\ sent' = None
  /\ UNCHANGED now

Commit == Ends(next)

(* The launcher died: an alarm that was sent will be sent again *)
Abort == Ends(alarms)

Clock == now' \in Times /\ UNCHANGED <<alarms, next, busy, sent>>

Next ==
  \/ \E a \in Alarm : Schedule(a) \/ Ring(a)
  \/ \E when \in Times \cup {AnyTime}, keys \in SUBSET Keys : Cancel(when, keys)
  \/ Commit \/ Abort \/ Clock

Spec == Init /\ [][Next]_vars
=============================================================================
