----------------------------- MODULE OpieAlarm ------------------------------
(***************************************************************************)
(* opiealarm (core/opiealarm/opiealarm.c): arms the hardware clock (RTC)   *)
(* before the device suspends, from the wake-up time that the alarm server *)
(* keeps in /var/run/resumeat, and suspends a device again that it woke up *)
(* on mains.                                                               *)
(*                                                                         *)
(* apmd runs one instance at each suspend (-s) and one at each resume (-r) *)
(* and waits for it (root/etc/apm/event.d/01opiealarm).  An instance kills *)
(* the child of an earlier one, named in a pid file, and may leave a child *)
(* of its own behind.  Nothing runs while the device is asleep.            *)
(***************************************************************************)
EXTENDS Integers, FiniteSets

CONSTANTS
  MaxTime,      \* bound on the clock
  MaxKids,      \* bound on the children; without one left a resume goes no further
  MaxFails,     \* bound on the failing system calls
  Lead,         \* the 5 seconds the device wakes up ahead of an alarm
  Resuspend     \* the argument of -a

ASSUME ConstantsAssumption ==
  {MaxTime, MaxKids, MaxFails, Lead, Resuspend} \subseteq Nat

Times == 0 .. MaxTime
Kids == 1 .. MaxKids
NoKid == 0     \* the pid file is not there
NotRead == -1  \* the child has not read resumeat yet

VARIABLES
  power,     \* "awake" or "asleep"
  now,
  ac,        \* on mains
  resumeat,  \* /var/run/resumeat; 0: no alarm
  script,    \* the event apmd runs an instance for, or "none"
  pc,        \* where that instance, the parent, is
  opiealarm_was_running,
  pidfile,   \* /var/run/opiealarm.pid
  kids,      \* children forked so far, each with a pid of its own
  kpc,       \* of each child: where it is
  job,       \* the mode it was forked in
  sig,       \* SIGUSR2 is pending
  alrt,      \* the alarm it read
  start,     \* when a resuspend child began to wait
  rang,      \* children that got the RTC's interrupt
  alarm, enabled,  \* the RTC: alarm time and whether it is on
  irq,       \* an interrupt the child that has the RTC open has not read
  late,      \* a child that was killed was still there for the next one
  fails

environment == <<power, now, ac, resumeat>>
parent == <<script, pc, opiealarm_was_running>>
child == <<kids, kpc, job, sig, alrt, start, rang>>
rtc == <<alarm, enabled, irq>>
vars == <<environment, parent, pidfile, child, rtc, late, fails>>

Points == {"idle", "kill", "remove", "fork", "wait", "done"}
KidPoints == {"none", "forked", "open", "read", "set", "tell", "waiting",
              "stuck", "remove", "timer", "ended"}

Alive(k) == kpc[k] \notin {"none", "ended"}

(* It has /dev/rtc open *)
HasRtc(k) ==
  job[k] = "suspend" /\ kpc[k] \in {"read", "set", "tell", "waiting"}

Init ==
  /\ power = "awake" /\ now = 0 /\ ac \in BOOLEAN /\ resumeat = 0
  /\ script = "none" /\ pc = "idle" /\ opiealarm_was_running = FALSE
  /\ pidfile = NoKid
  /\ kids = 0
  /\ kpc = [k \in Kids |-> "none"]
  /\ job = [k \in Kids |-> "none"]
  /\ sig = [k \in Kids |-> FALSE]
  /\ alrt = [k \in Kids |-> NotRead]
  /\ start = [k \in Kids |-> 0]
  /\ rang = {}
  /\ alarm = 0 /\ enabled = FALSE /\ irq = FALSE
  /\ late = FALSE /\ fails = 0

(***************************************************************************)
(* The world                                                               *)
(***************************************************************************)
(* writeResumeAt of the alarm server: never a time that is over.  The      *)
(* launcher serves events while apmd suspends (ODevice::apmSuspend).       *)
SetAlarm(t) ==
  /\ power = "awake"
  /\ t = 0 \/ t >= now
  /\ resumeat' = t
  /\ UNCHANGED <<power, now, ac, parent, pidfile, child, rtc, late, fails>>

Plug ==
  /\ ac' = ~ ac
  /\ UNCHANGED <<power, now, resumeat, parent, pidfile, child, rtc, late, fails>>

(* apmd's script for a resume starts *)
WakesUp ==
  /\ power' = "awake"
  /\ script' = "resume" /\ pc' = "kill"
  /\ UNCHANGED opiealarm_was_running

(* The RTC raises an interrupt when its alarm comes, not for one in the past *)
Rings == enabled /\ alarm = now + 1

Tick ==
  /\ now < MaxTime
  /\ now' = now + 1
  /\ irq' = (irq \/ (Rings /\ \E k \in Kids : HasRtc(k)))
  /\ IF Rings /\ power = "asleep" THEN WakesUp ELSE UNCHANGED <<power, parent>>
  /\ UNCHANGED <<ac, resumeat, pidfile, child, alarm, enabled, late, fails>>

Button ==
  /\ power = "asleep"
  /\ WakesUp
  /\ UNCHANGED <<now, ac, resumeat, pidfile, child, rtc, late, fails>>

(* A suspend the user, a timer or qcop asked for *)
SuspendRequest ==
  /\ power = "awake" /\ script = "none"
  /\ kids < MaxKids
  /\ script' = "suspend" /\ pc' = "kill"
  /\ UNCHANGED <<environment, opiealarm_was_running, pidfile, child, rtc, late, fails>>

(* apmd goes on when its script has ended *)
ScriptEnds ==
  /\ pc = "done"
  /\ power' = IF script = "suspend" THEN "asleep" ELSE power
  /\ script' = "none" /\ pc' = "idle"
  /\ UNCHANGED <<now, ac, resumeat, opiealarm_was_running, pidfile, child, rtc,
                 late, fails>>

(***************************************************************************)
(* The parent                                                              *)
(***************************************************************************)
(* mutant: no signal is sent *)
KillWithPidfileNoSignal ==
  /\ pc = "kill"
  /\ opiealarm_was_running' = (\E k \in Kids : k = pidfile /\ Alive(k))
  /\ pc' = "remove"
  /\ UNCHANGED <<environment, script, pidfile, child, rtc, late, fails>>

KillWithPidfile ==
  /\ pc = "kill"
  /\ opiealarm_was_running' = (\E k \in Kids : k = pidfile /\ Alive(k))
  /\ sig' = [k \in Kids |-> sig[k] \/ (k = pidfile /\ Alive(k))]
  /\ pc' = "remove"
  /\ UNCHANGED <<environment, script, pidfile, kids, kpc, job, alrt, start, rang,
                 rtc, late, fails>>

(* remove_pidfile() of main(), then the beginning of suspend() or resume() *)
RemovePidfile ==
  /\ pc = "remove"
  /\ pidfile' = NoKid
  /\ pc' = IF script = "suspend" \/ (~ opiealarm_was_running /\ ac)
           THEN "fork" ELSE "done"
  /\ UNCHANGED <<environment, script, opiealarm_was_running, child, rtc, late, fails>>

(* The parent waits for SIGUSR1, and is gone when that comes: with status 0  *)
(* from its handler, or with another if the handler is not installed yet    *)
Fork ==
  /\ pc = "fork" /\ kids < MaxKids
  /\ kids' = kids + 1
  /\ kpc' = [kpc EXCEPT ![kids + 1] = "forked"]
  /\ job' = [job EXCEPT ![kids + 1] = script]
  /\ pc' = "wait"
  /\ UNCHANGED <<environment, script, opiealarm_was_running, pidfile, sig, alrt,
                 start, rang, rtc, late, fails>>

Fails == fails < MaxFails /\ fails' = fails + 1

ForkFails ==
  /\ pc = "fork" /\ Fails
  /\ pc' = "done"
  /\ UNCHANGED <<environment, script, opiealarm_was_running, pidfile, child, rtc,
                 late>>

(***************************************************************************)
(* The children                                                            *)
(***************************************************************************)
Goes(k, from, to) ==
  /\ power = "awake"
  /\ kpc[k] = from
  /\ kpc' = [kpc EXCEPT ![k] = to]

(* kill(parent_pid, SIGUSR1): without a parent there is nobody to tell *)
TellsParent ==
  /\ pc' = IF pc = "wait" THEN "done" ELSE pc
  /\ UNCHANGED <<script, opiealarm_was_running>>

(* What most steps of a child leave alone *)
KidRest == UNCHANGED <<environment, kids, job, sig>>

(* mutant: the parent is told at once *)
WritePidTellsParent(k) ==
  /\ late' = (late \/ \E j \in Kids : sig[j])
  /\ Goes(k, "forked", IF job[k] = "suspend" THEN "open" ELSE "tell")
  /\ pidfile' = k
  /\ TellsParent
  /\ KidRest /\ UNCHANGED <<alrt, start, rang, rtc, fails>>

WritePid(k) ==
  /\ late' = (late \/ \E j \in Kids : sig[j])
  /\ Goes(k, "forked", IF job[k] = "suspend" THEN "open" ELSE "tell")
  /\ pidfile' = k
  /\ KidRest /\ UNCHANGED <<parent, alrt, start, rang, rtc, fails>>

(* The child returns from main(), and nobody tells the parent *)
WritePidFails(k) ==
  /\ Fails
  /\ Goes(k, "forked", "ended")
  /\ KidRest /\ UNCHANGED <<parent, pidfile, alrt, start, rang, rtc, late>>

(* mutant: it does not wait to be killed *)
GivesUpAndEnds(k, from) ==
  /\ Goes(k, from, "ended")
  /\ pidfile' = NoKid
  /\ TellsParent
  /\ KidRest /\ UNCHANGED <<start, rang, enabled, irq, late>>

(* mutant: it does not tell the parent *)
GivesUpSilently(k, from) ==
  /\ Goes(k, from, "stuck")
  /\ KidRest /\ UNCHANGED <<parent, pidfile, start, rang, enabled, irq, late>>

(* Out of the do ... while (0) of suspend(): closes the RTC, tells the      *)
(* parent and pretends to wait                                             *)
GivesUp(k, from) ==
  /\ Goes(k, from, "stuck")
  /\ TellsParent
  /\ KidRest /\ UNCHANGED <<pidfile, start, rang, enabled, irq, late>>

(* Only one process can have the RTC open *)
OpenRtc(k) ==
  /\ \A j \in Kids : ~ HasRtc(j)
  /\ Goes(k, "open", "read")
  /\ irq' = FALSE
  /\ KidRest /\ UNCHANGED <<parent, pidfile, alrt, start, rang, alarm, enabled, late, fails>>

RtcBusy(k) ==
  /\ \E j \in Kids : HasRtc(j)
  /\ GivesUp(k, "open")
  /\ UNCHANGED <<alrt, alarm, fails>>

(* The second of the two calls that set the alarm may be the one that fails *)
RtcFails(k) ==
  /\ Fails
  /\ \/ GivesUp(k, "read") /\ UNCHANGED alarm
     \/ GivesUp(k, "set") /\ alarm' \in {alarm, alrt[k] - Lead}
  /\ UNCHANGED alrt

ReadAlarm(k) ==
  /\ resumeat # 0
  /\ Goes(k, "read", "set")
  /\ alrt' = [alrt EXCEPT ![k] = resumeat]
  /\ KidRest /\ UNCHANGED <<parent, pidfile, start, rang, rtc, late, fails>>

ReadNoAlarm(k) ==
  /\ resumeat = 0
  /\ GivesUp(k, "read")
  /\ alrt' = [alrt EXCEPT ![k] = 0]
  /\ UNCHANGED <<alarm, fails>>

SetRtc(k) ==
  /\ Goes(k, "set", "tell")
  /\ alarm' = alrt[k] - Lead
  /\ enabled' = TRUE
  /\ KidRest /\ UNCHANGED <<parent, pidfile, alrt, start, rang, irq, late, fails>>

(* SIGUSR1, and then the wait: for the RTC or for the time to resuspend *)
Tell(k) ==
  /\ Goes(k, "tell", IF job[k] = "suspend" THEN "waiting" ELSE "timer")
  /\ TellsParent
  /\ start' = [start EXCEPT ![k] = now]
  /\ KidRest /\ UNCHANGED <<pidfile, alrt, rang, rtc, late, fails>>

(* The read of the RTC returns; the alarm is switched off *)
ReadRtc(k) ==
  /\ irq
  /\ Goes(k, "waiting", "remove")
  /\ rang' = rang \cup {k}
  /\ irq' = FALSE /\ enabled' = FALSE
  /\ KidRest /\ UNCHANGED <<parent, pidfile, alrt, start, alarm, late, fails>>

(* Its parent is gone: there is nobody to tell *)
ReadRtcFails(k) ==
  /\ Fails
  /\ Goes(k, "waiting", "stuck")
  /\ KidRest /\ UNCHANGED <<parent, pidfile, alrt, start, rang, rtc, late>>

(* The alarm stays on: RTC_AIE_OFF fails and the child pretends to wait, or  *)
(* the file of sysfs cannot be opened and it does not notice                *)
SwitchOffFails(k) ==
  /\ irq /\ Fails
  /\ \E to \in {"stuck", "remove"} : Goes(k, "waiting", to)
  /\ rang' = rang \cup {k}
  /\ irq' = FALSE
  /\ KidRest /\ UNCHANGED <<parent, pidfile, alrt, start, alarm, enabled, late>>

(* remove_pidfile() of suspend(): it ignores what it is sent from here on  *)
KidRemovesPidfile(k) ==
  /\ Goes(k, "remove", "ended")
  /\ pidfile' = NoKid
  /\ sig' = [sig EXCEPT ![k] = FALSE]
  /\ UNCHANGED <<environment, parent, kids, job, alrt, start, rang, rtc, late, fails>>

(* The end of resume(): still on mains it becomes qcop, which asks the      *)
(* launcher to suspend; otherwise it ends and leaves the pid file          *)
TimerEnds(k) ==
  /\ now - start[k] >= Resuspend
  /\ Goes(k, "timer", "ended")
  /\ pidfile' = IF ac THEN NoKid ELSE pidfile
  /\ sig' = [sig EXCEPT ![k] = FALSE]
  /\ UNCHANGED <<environment, parent, kids, job, alrt, start, rang, rtc, late, fails>>

(* mutant: the handler leaves the process alive *)
SigHandlerChildReturns(k) ==
  /\ sig[k] /\ Alive(k) /\ power = "awake"
  /\ pidfile' = NoKid
  /\ sig' = [sig EXCEPT ![k] = FALSE]
  /\ UNCHANGED <<environment, parent, kids, kpc, job, alrt, start, rang, rtc, late, fails>>

(* sig_handler_child: whatever file is there now is removed *)
SigHandlerChild(k) ==
  /\ sig[k]
  /\ Goes(k, kpc[k], "ended")
  /\ pidfile' = NoKid
  /\ sig' = [sig EXCEPT ![k] = FALSE]
  /\ UNCHANGED <<environment, parent, kids, job, alrt, start, rang, rtc, late, fails>>

Kid(k) ==
  \/ WritePid(k) \/ WritePidFails(k)
  \/ OpenRtc(k) \/ RtcBusy(k) \/ RtcFails(k)
  \/ ReadAlarm(k) \/ ReadNoAlarm(k) \/ SetRtc(k)
  \/ Tell(k) \/ ReadRtc(k) \/ ReadRtcFails(k) \/ SwitchOffFails(k)
  \/ KidRemovesPidfile(k) \/ TimerEnds(k)
  \/ SigHandlerChild(k)

Parent == KillWithPidfile \/ RemovePidfile \/ Fork \/ ForkFails

Next ==
  \/ \E t \in Times : SetAlarm(t)
  \/ Plug \/ Tick \/ Button \/ SuspendRequest \/ ScriptEnds
  \/ Parent
  \/ \E k \in Kids : Kid(k)

(* Processes run while the device is awake, and apmd goes on *)
Fairness ==
  /\ WF_vars(Parent) /\ WF_vars(ScriptEnds)
  /\ \A k \in Kids : WF_vars(Kid(k)) /\ SF_vars(SigHandlerChild(k))

Spec == Init /\ [][Next]_vars /\ Fairness

(***************************************************************************)
(* Properties                                                              *)
(***************************************************************************)
(* The type of every variable (the processes of opiealarm, its files and   *)
(* the hardware clock).                                                    *)
TypeOK ==
  /\ power \in {"awake", "asleep"} /\ now \in Times /\ ac \in BOOLEAN
  /\ resumeat \in Times
  /\ script \in {"none", "suspend", "resume"} /\ pc \in Points
  /\ power = "asleep" => pc = "idle"
  /\ (script = "none") <=> (pc = "idle")
  /\ opiealarm_was_running \in BOOLEAN
  /\ kids \in 0 .. MaxKids
  /\ pidfile \in 0 .. kids
  /\ kpc \in [Kids -> KidPoints]
  /\ \A k \in Kids : (kpc[k] = "none") <=> (k > kids)
  /\ job \in [Kids -> {"none", "suspend", "resume"}]
  /\ sig \in [Kids -> BOOLEAN]
  /\ \A k \in Kids : sig[k] => Alive(k)
  /\ alrt \in [Kids -> {NotRead} \cup Times]
  /\ start \in [Kids -> Times]
  /\ rang \subseteq Kids
  /\ alarm \in Int /\ enabled \in BOOLEAN /\ irq \in BOOLEAN
  /\ late \in BOOLEAN /\ fails \in 0 .. MaxFails

(* "The kernel could suspend the iPAQ just before the child process sets   *)
(* the RTC": when the device is asleep, no child is on its way there (the  *)
(* wait of fork_with_pidfile for SIGUSR1).                                 *)
AsleepWhenSafe ==
  power = "asleep" =>
    \A k \in Kids : kpc[k] \notin {"forked", "open", "read", "set", "tell"}

(* "Kill running opiealarm": a child that waits can be found by the next   *)
(* instance, or its signal is on its way, if no child that was killed was  *)
(* still there when the next one wrote its pid (kill_with_pidfile,         *)
(* remove_pidfile).  ResumeCanKill is without that exception.              *)
WaitingIsKillable ==
  ~ late =>
    \A k \in Kids :
      kpc[k] \in {"waiting", "stuck", "timer"} => pidfile = k \/ sig[k]

(* "So opiealarm -r can kill us": the same of a child of a suspend whatever *)
(* was late.  It does not hold: a child that handles its signal late       *)
(* removes the file of the next one (sig_handler_child).                   *)
ResumeCanKill ==
  \A k \in Kids :
    kpc[k] \in {"waiting", "stuck"} => pidfile = k \/ sig[k]

(* What the sleep relies on, if no call failed and no signal is late: the  *)
(* child of this suspend has the RTC armed for the alarm it read, or there *)
(* was none, or the alarm came before the device was asleep. No older      *)
(* child is in its way (suspend()).                                        *)
SleepIsArmed ==
  power = "asleep" /\ fails = 0 /\ ~ late =>
    \E k \in Kids :
      /\ k = kids /\ job[k] = "suspend"
      /\ \/ kpc[k] = "waiting" /\ enabled /\ alarm = alrt[k] - Lead
         \/ kpc[k] = "stuck" /\ alrt[k] = 0
         \/ k \in rang

(* "Re-suspend ... when woken up via RTC": an instance forks a child that  *)
(* will suspend the device again only when the alarm of the last suspend   *)
(* came, if no call failed and no signal is late (resume()).               *)
ResuspendAfterAlarm ==
  fails = 0 /\ ~ late =>
    \A k \in Kids : job[k] = "resume" =>
      k > 1 /\ job[k - 1] = "suspend" /\ k - 1 \in rang

(* The parent waits for a child that could not write the pid file *)
Hangs == pc = "wait" /\ \A k \in Kids : k = kids => kpc[k] = "ended"

(* "Safe to exit now": a suspend comes to its end, whatever the child      *)
(* meets, as long as it can write the pid file (fork_with_pidfile).        *)
SuspendEnds == (script = "suspend") ~> (power = "asleep" \/ Hangs)

(* A child ends at the next resume, if not by itself, unless the device    *)
(* falls asleep again before it has handled its signal (main()).           *)
ResumeEndsChildren ==
  \A k \in Kids :
    (script = "resume" /\ job[k] = "suspend" /\ Alive(k))
      ~> (~ Alive(k) \/ power = "asleep" \/ late)
=============================================================================
