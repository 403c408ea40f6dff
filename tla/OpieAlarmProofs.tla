-------------------------- MODULE OpieAlarmProofs ---------------------------
(* The handshake of a suspend, the pid file and the hardware clock:        *)
(* OpieAlarm, for any number of suspends, children and failing calls.      *)
EXTENDS OpieAlarm, TLAPS

LEMMA ConstantTypes ==
  /\ MaxTime \in Nat /\ MaxKids \in Nat /\ MaxFails \in Nat
  /\ Lead \in Nat /\ Resuspend \in Nat
  /\ Kids = 1 .. MaxKids /\ Times = 0 .. MaxTime /\ NoKid = 0 /\ NotRead = -1
BY ConstantsAssumption DEF Kids, Times, NoKid, NotRead

-----------------------------------------------------------------------------
(* Where the children and the parent may be                                *)

(* Before the parent is told to go on *)
Early == {"forked", "open", "read", "set", "tell"}

(* Afterwards, until the process ends *)
Settled == {"waiting", "stuck", "remove", "timer"}

(* With its pid in the pid file, or after that *)
Written(k) == kpc[k] \in {"open", "read", "set", "tell"} \cup Settled

(* A child on its way is the last one, and its parent waits for it *)
ParentWaits ==
  \A k \in Kids : kpc[k] \in Early => pc = "wait" /\ k = kids /\ job[k] = script

JobsOK ==
  \A k \in Kids :
    /\ kpc[k] \in {"open", "read", "set", "waiting", "stuck", "remove"}
         => job[k] = "suspend"
    /\ kpc[k] = "timer" => job[k] = "resume"
    /\ (job[k] = "none") <=> (k > kids)

(* Only children that have settled are killed *)
KilledSettled == \A k \in Kids : sig[k] => kpc[k] \in Settled

(* Between the removal of the old pid file and the new one *)
NoPidfile == pc = "fork" \/ (\E k \in Kids : kpc[k] = "forked") => pidfile = NoKid

(* The child in the pid file is killed before the file is removed *)
KilledFirst ==
  pc = "remove" => \A k \in Kids : k = pidfile /\ Alive(k) => sig[k]

RangFirst == \A k \in Kids : kpc[k] = "remove" => k \in rang

Structure ==
  /\ TypeOK /\ ParentWaits /\ JobsOK /\ KilledSettled
  /\ NoPidfile /\ KilledFirst /\ RangFirst


LEMMA StructureInit == Init => Structure
<1> SUFFICES ASSUME Init PROVE Structure
  OBVIOUS
<1> USE ConstantTypes DEF Init
<1>1. TypeOK
  <2>1. /\ kpc \in [Kids -> KidPoints] /\ pc \in Points
        /\ job \in [Kids -> {"none", "suspend", "resume"}]
    BY DEF KidPoints, Points
  <2>2. /\ alrt \in [Kids -> {NotRead} \cup Times] /\ start \in [Kids -> Times]
        /\ now \in Times /\ resumeat \in Times
    OBVIOUS
  <2>3. /\ sig \in [Kids -> BOOLEAN] /\ \A k \in Kids : ~ sig[k]
        /\ \A k \in Kids : (kpc[k] = "none") <=> (k > kids)
    OBVIOUS
  <2>4. /\ kids \in 0 .. MaxKids /\ pidfile \in 0 .. kids
        /\ alarm \in Int /\ fails \in 0 .. MaxFails /\ rang \subseteq Kids
    OBVIOUS
  <2>5. /\ opiealarm_was_running \in BOOLEAN /\ ac \in BOOLEAN
        /\ enabled \in BOOLEAN /\ irq \in BOOLEAN /\ late \in BOOLEAN
        /\ power \in {"awake", "asleep"}
        /\ script \in {"none", "suspend", "resume"}
        /\ (power = "asleep" => pc = "idle")
        /\ ((script = "none") <=> (pc = "idle"))
    OBVIOUS
  <2> QED BY <2>1, <2>2, <2>3, <2>4, <2>5 DEF TypeOK
<1>2. ParentWaits /\ JobsOK /\ KilledSettled /\ NoPidfile /\ KilledFirst /\ RangFirst
  BY DEF ParentWaits, JobsOK, KilledSettled, NoPidfile, KilledFirst, RangFirst,
         Early, Settled
<1> QED BY <1>1, <1>2 DEF Structure

(* Steps of the world and of the parent *)
LEMMA WorldStep ==
  ASSUME Structure,
         (\E t \in Times : SetAlarm(t)) \/ Plug \/ Tick \/ Button
           \/ SuspendRequest \/ ScriptEnds
  PROVE  Structure'
<1> USE ConstantTypes
    DEF Structure, TypeOK, ParentWaits, JobsOK, KilledSettled, NoPidfile,
        KilledFirst, RangFirst, Early, Settled, Alive, Points
<1>1. ASSUME NEW t \in Times, SetAlarm(t) PROVE Structure'
  BY <1>1 DEF SetAlarm, parent, child, rtc
<1>2. CASE Plug
  BY <1>2 DEF Plug, parent, child, rtc
<1>3. CASE Tick
  <2>1. /\ now' \in Times /\ irq' \in BOOLEAN
        /\ UNCHANGED <<ac, resumeat, pidfile, child, alarm, enabled, late, fails>>
    BY <1>3 DEF Tick
  <2>2. CASE UNCHANGED <<power, parent>>
    BY <2>1, <2>2 DEF parent, child
  <2>3. CASE power = "asleep" /\ WakesUp
    BY <2>1, <2>3 DEF WakesUp, child
  <2> QED BY <1>3, <2>2, <2>3 DEF Tick
<1>4. CASE Button
  BY <1>4 DEF Button, WakesUp, child, rtc
<1>5. CASE SuspendRequest
  BY <1>5 DEF SuspendRequest, environment, child, rtc
<1>6. CASE ScriptEnds
  BY <1>6 DEF ScriptEnds, child, rtc
<1> QED BY <1>1, <1>2, <1>3, <1>4, <1>5, <1>6

LEMMA ParentStep ==
  ASSUME Structure, Parent
  PROVE  Structure'
<1> USE ConstantTypes
    DEF Structure, TypeOK, ParentWaits, JobsOK, KilledSettled, NoPidfile,
        KilledFirst, RangFirst, Early, Settled, Alive, Points, KidPoints
<1>1. CASE KillWithPidfile
  <2>1. /\ sig' \in [Kids -> BOOLEAN] /\ opiealarm_was_running' \in BOOLEAN
        /\ \A k \in Kids : sig'[k] <=> sig[k] \/ (k = pidfile /\ Alive(k))
    BY <1>1 DEF KillWithPidfile
  <2> QED BY <1>1, <2>1 DEF KillWithPidfile, environment, rtc
<1>2. CASE RemovePidfile
  BY <1>2 DEF RemovePidfile, environment, child, rtc
<1>3. CASE Fork
  <2>1. /\ kids + 1 \in Kids /\ kids' = kids + 1
        /\ kpc' = [kpc EXCEPT ![kids + 1] = "forked"]
        /\ job' = [job EXCEPT ![kids + 1] = script]
        /\ pc = "fork" /\ pc' = "wait" /\ script # "none"
        /\ kpc[kids + 1] = "none"
    BY <1>3 DEF Fork
  <2> QED BY <1>3, <2>1 DEF Fork, environment, rtc
<1>4. CASE ForkFails
  BY <1>4 DEF ForkFails, Fails, environment, child, rtc
<1> QED BY <1>1, <1>2, <1>3, <1>4 DEF Parent

(* What one step of a child does to the children *)
LEMMA KidMoves ==
  ASSUME Structure, NEW k \in Kids, NEW from, NEW to \in KidPoints,
         Goes(k, from, to)
  PROVE  /\ kpc' \in [Kids -> KidPoints]
         /\ kpc[k] = from /\ kpc'[k] = to
         /\ \A j \in Kids : j # k => kpc'[j] = kpc[j]
         /\ power = "awake"
BY DEF Goes, Structure, TypeOK

(* What every step of a child has in common *)
Moves(k, from, to) ==
  /\ Goes(k, from, to)
  /\ from \in Early \cup Settled /\ to \in {"ended"} \cup Early \cup Settled
  /\ UNCHANGED <<environment, kids, job, script, opiealarm_was_running>>
  /\ \/ pc' = pc
     \/ from \in Early /\ to \notin Early /\ pc = "wait" /\ pc' = "done"
  /\ to \in Early => from \in Early /\ to # "forked" /\ pc' = pc
  /\ to \in {"open", "read", "set", "waiting", "stuck", "remove"}
       => job[k] = "suspend"
  /\ to = "timer" => job[k] = "resume"
  /\ to = "remove" => k \in rang'
  /\ (from = "forked" /\ pidfile' = k) \/ pidfile' \in {NoKid, pidfile}
  /\ from = "forked" /\ to # "ended"
       => pidfile' = k /\ (~ late' => \A j \in Kids : ~ sig[j])
  /\ from # "forked" \/ to = "ended"
       => pidfile' = pidfile \/ (pidfile' = NoKid /\ to = "ended")
  /\ late => late'
  /\ sig' \in [Kids -> BOOLEAN]
  /\ \A j \in Kids : j # k => sig'[j] = sig[j]
  /\ sig'[k] = (sig[k] /\ to # "ended")
  /\ alrt' \in [Kids -> {NotRead} \cup Times] /\ start' \in [Kids -> Times]
  /\ rang \subseteq rang' /\ rang' \subseteq Kids
  /\ alarm' \in Int /\ enabled' \in BOOLEAN /\ irq' \in BOOLEAN
  /\ late' \in BOOLEAN /\ fails' \in 0 .. MaxFails

LEMMA MovesStep ==
  ASSUME Structure, NEW k \in Kids, NEW from, NEW to, Moves(k, from, to)
  PROVE  Structure'
<1>1. /\ kpc' \in [Kids -> KidPoints]
      /\ kpc[k] = from /\ kpc'[k] = to
      /\ \A j \in Kids : j # k => kpc'[j] = kpc[j]
      /\ power = "awake" /\ from # "none" /\ to # "none"
  BY KidMoves DEF Moves, Early, Settled, KidPoints
<1>2. /\ power' = power /\ now' = now /\ ac' = ac /\ resumeat' = resumeat
      /\ kids' = kids /\ job' = job /\ script' = script
      /\ opiealarm_was_running' = opiealarm_was_running
  BY DEF Moves, environment
<1> USE ConstantTypes DEF Structure
<1>3. TypeOK'
  <2>1. pidfile' \in 0 .. kids' /\ kids' \in 0 .. MaxKids
    BY <1>1, <1>2 DEF Moves, TypeOK, Early
  <2>2. \A j \in Kids : (kpc'[j] = "none") <=> (j > kids')
    BY <1>1, <1>2 DEF TypeOK
  <2>3. \A j \in Kids : sig'[j] => Alive(j)'
    <3>1. sig'[k] => to # "ended"
      BY DEF Moves
    <3> QED BY <3>1, <1>1 DEF Moves, TypeOK, Alive
  <2>4. /\ pc' \in Points /\ (power' = "asleep" => pc' = "idle")
        /\ ((script' = "none") <=> (pc' = "idle"))
    BY <1>1, <1>2 DEF Moves, TypeOK, Points
  <2> QED BY <1>1, <1>2, <2>1, <2>2, <2>3, <2>4 DEF Moves, TypeOK
<1>4. ParentWaits'
  <2> SUFFICES ASSUME NEW j \in Kids, kpc'[j] \in Early
               PROVE  pc' = "wait" /\ j = kids /\ job[j] = script
    BY <1>2 DEF ParentWaits
  <2>1. kpc[j] \in Early
    BY <1>1 DEF Moves
  <2>2. pc = "wait" /\ j = kids /\ job[j] = script
    BY <2>1 DEF ParentWaits
  <2>3. pc' = pc
    <3>1. ASSUME from \in Early, to \notin Early PROVE FALSE
      BY <3>1, <1>1, <2>2 DEF ParentWaits
    <3> QED BY <3>1 DEF Moves
  <2> QED BY <2>2, <2>3
<1>5. JobsOK'
  BY <1>1, <1>2 DEF JobsOK, Moves
<1>6. KilledSettled'
  <2>1. sig'[k] => to \in Settled
    <3>1. sig'[k] => sig[k] /\ to # "ended"
      BY DEF Moves
    <3>2. sig[k] => from \notin Early
      BY <1>1 DEF KilledSettled, Early, Settled
    <3> QED BY <3>1, <3>2 DEF Moves
  <2> QED BY <2>1, <1>1 DEF KilledSettled, Moves
<1>7. NoPidfile'
  <2>1. CASE pc' = "fork"
    BY <2>1, <1>1 DEF NoPidfile, ParentWaits, Moves, Early
  <2>2. ASSUME NEW j \in Kids, kpc'[j] = "forked" PROVE pidfile' = NoKid
    <3>1. kpc[j] = "forked" /\ j # k
      BY <2>2, <1>1 DEF Moves, Early
    <3>2. from # "forked"
      BY <3>1, <1>1 DEF ParentWaits, Early
    <3> QED BY <3>1, <3>2 DEF NoPidfile, Moves
  <2> QED BY <2>1, <2>2 DEF NoPidfile
<1>8. KilledFirst'
  <2> SUFFICES ASSUME pc' = "remove", NEW j \in Kids, j = pidfile',
                      kpc'[j] \notin {"none", "ended"}
               PROVE  sig'[j]
    BY DEF KilledFirst, Alive
  <2>1. pc = "remove" /\ from \notin Early
    BY <1>1 DEF Moves, ParentWaits
  <2>2. pidfile' = pidfile
    BY <2>1, ConstantTypes DEF Moves, Early
  <2>3. sig[j]
    <3>1. kpc[j] \notin {"none", "ended"}
      BY <1>1 DEF Early, Settled, Moves
    <3> QED BY <3>1, <2>1, <2>2 DEF KilledFirst, Alive
  <2>4. CASE j = k
    <3>1. sig'[k] = (sig[k] /\ to # "ended") /\ to # "ended"
      BY <2>4, <1>1 DEF Moves
    <3> QED BY <3>1, <2>3, <2>4
  <2>5. CASE j # k
    BY <2>3, <2>5 DEF Moves
  <2> QED BY <2>4, <2>5
<1>9. RangFirst'
  BY <1>1 DEF RangFirst, Moves
<1> QED BY <1>3, <1>4, <1>5, <1>6, <1>7, <1>8, <1>9

(* The steps of a child are such moves *)
LEMMA KidStep ==
  ASSUME Structure, NEW k \in Kids, Kid(k)
  PROVE  \E from, to : Moves(k, from, to)
<1> USE ConstantTypes DEF Moves, KidRest, environment, parent, rtc, Early, Settled
<1>t. /\ sig \in [Kids -> BOOLEAN]
      /\ alrt \in [Kids -> {NotRead} \cup Times] /\ start \in [Kids -> Times]
      /\ rang \subseteq Kids /\ now \in Times /\ resumeat \in Times
      /\ alarm \in Int /\ enabled \in BOOLEAN /\ irq \in BOOLEAN
      /\ late \in BOOLEAN /\ fails \in 0 .. MaxFails
  BY DEF Structure, TypeOK
<1>s. ASSUME UNCHANGED sig, NEW to, to # "ended"
      PROVE  /\ sig' \in [Kids -> BOOLEAN]
             /\ \A j \in Kids : j # k => sig'[j] = sig[j]
             /\ sig'[k] = (sig[k] /\ to # "ended")
  BY <1>s, <1>t
<1>j. /\ kpc[k] \in {"open", "read", "set", "waiting", "stuck", "remove"}
           => job[k] = "suspend"
      /\ kpc[k] = "timer" => job[k] = "resume"
      /\ kpc[k] \in {"forked", "open", "read", "set", "tell"}
           => pc = "wait" /\ job[k] \in {"suspend", "resume"}
      /\ kpc[k] = "remove" => k \in rang
  BY DEF Structure, JobsOK, ParentWaits, RangFirst, TypeOK
<1>g. ASSUME NEW from \in {"open", "read", "set"}, GivesUp(k, from), alarm' \in Int,
             alrt' \in [Kids -> {NotRead} \cup Times], fails' \in 0 .. MaxFails
      PROVE  Moves(k, from, "stuck")
  <2>1. /\ sig' \in [Kids -> BOOLEAN]
        /\ \A j \in Kids : j # k => sig'[j] = sig[j]
        /\ sig'[k] = (sig[k] /\ "stuck" # "ended")
    BY <1>g, <1>s DEF GivesUp
  <2> QED BY <1>g, <2>1, <1>t, <1>j DEF GivesUp, TellsParent, Goes
<1>1. CASE WritePid(k)
  <2> DEFINE to == IF job[k] = "suspend" THEN "open" ELSE "tell"
  <2>1. Goes(k, "forked", to) /\ to \in {"open", "tell"}
    BY <1>1 DEF WritePid
  <2>2. to = "open" => job[k] = "suspend"
    OBVIOUS
  <2> HIDE DEF to
  <2>3. /\ sig' \in [Kids -> BOOLEAN]
        /\ \A j \in Kids : j # k => sig'[j] = sig[j]
        /\ sig'[k] = (sig[k] /\ to # "ended")
    BY <1>1, <2>1, <1>s DEF WritePid
  <2>4. late' \in BOOLEAN
    BY <1>1 DEF WritePid
  <2>5. Moves(k, "forked", to)
    BY <1>1, <2>1, <2>2, <2>3, <2>4, <1>t DEF WritePid
  <2> QED BY <2>5
<1>2. CASE WritePidFails(k)
  <2>1. ~ sig[k]
    BY <1>2 DEF WritePidFails, Goes, Structure, KilledSettled
  <2>2. Moves(k, "forked", "ended")
    BY <1>2, <2>1, <1>t, <1>j DEF WritePidFails, Fails, Goes
  <2> QED BY <2>2
<1>3. CASE OpenRtc(k)
  <2>1. Moves(k, "open", "read")
    BY <1>3, <1>s, <1>t, <1>j DEF OpenRtc, Goes
  <2> QED BY <2>1
<1>4. CASE RtcBusy(k)
  <2>1. /\ GivesUp(k, "open") /\ fails' \in 0 .. MaxFails /\ alarm' \in Int
        /\ alrt' \in [Kids -> {NotRead} \cup Times]
    BY <1>4, <1>t DEF RtcBusy
  <2>2. Moves(k, "open", "stuck")
    BY <2>1, <1>g
  <2> QED BY <2>2
<1>5. CASE RtcFails(k)
  <2>1. PICK from \in {"read", "set"} : GivesUp(k, from)
    BY <1>5 DEF RtcFails
  <2>2. /\ fails' \in 0 .. MaxFails /\ alrt' \in [Kids -> {NotRead} \cup Times]
        /\ alarm' \in Int
    BY <1>5, <1>t DEF RtcFails, Fails
  <2>3. Moves(k, from, "stuck")
    BY <2>1, <2>2, <1>g
  <2> QED BY <2>3
<1>6. CASE ReadAlarm(k)
  <2>1. alrt' \in [Kids -> {NotRead} \cup Times]
    BY <1>6, <1>t DEF ReadAlarm
  <2>2. Moves(k, "read", "set")
    BY <1>6, <2>1, <1>s, <1>t, <1>j DEF ReadAlarm, Goes
  <2> QED BY <2>2
<1>7. CASE ReadNoAlarm(k)
  <2>1. alrt' \in [Kids -> {NotRead} \cup Times]
    BY <1>7, <1>t DEF ReadNoAlarm
  <2>2. /\ GivesUp(k, "read") /\ alarm' \in Int /\ fails' \in 0 .. MaxFails
    BY <1>7, <1>t DEF ReadNoAlarm
  <2>3. Moves(k, "read", "stuck")
    BY <2>1, <2>2, <1>g
  <2> QED BY <2>3
<1>8. CASE SetRtc(k)
  <2>1. alarm' \in Int /\ enabled' \in BOOLEAN
    BY <1>8, <1>t DEF SetRtc
  <2>2. Moves(k, "set", "tell")
    BY <1>8, <2>1, <1>s, <1>t, <1>j DEF SetRtc, Goes
  <2> QED BY <2>2
<1>9. CASE Tell(k)
  <2> DEFINE to == IF job[k] = "suspend" THEN "waiting" ELSE "timer"
  <2>1. Goes(k, "tell", to) /\ to \in {"waiting", "timer"} /\ kpc[k] = "tell"
    BY <1>9 DEF Tell, Goes
  <2>2. /\ to = "waiting" => job[k] = "suspend"
        /\ to = "timer" => job[k] = "resume"
    BY <2>1, <1>j
  <2> HIDE DEF to
  <2>3. /\ sig' \in [Kids -> BOOLEAN]
        /\ \A j \in Kids : j # k => sig'[j] = sig[j]
        /\ sig'[k] = (sig[k] /\ to # "ended")
    BY <1>9, <2>1, <1>s DEF Tell
  <2>4. start' \in [Kids -> Times]
    BY <1>9, <1>t DEF Tell
  <2>5. Moves(k, "tell", to)
    BY <1>9, <2>1, <2>2, <2>3, <2>4, <1>t, <1>j DEF Tell, TellsParent
  <2> QED BY <2>5
<1>10. CASE ReadRtc(k)
  <2>1. Moves(k, "waiting", "remove")
    BY <1>10, <1>s, <1>t, <1>j DEF ReadRtc, Goes
  <2> QED BY <2>1
<1>10a. CASE ReadRtcFails(k) \/ SwitchOffFails(k)
  <2>1. PICK to \in {"stuck", "remove"} : Goes(k, "waiting", to)
    BY <1>10a DEF ReadRtcFails, SwitchOffFails
  <2>2. UNCHANGED <<environment, kids, job, parent, pidfile, sig, alrt, start,
                    alarm, enabled, late>>
    BY <1>10a DEF ReadRtcFails, SwitchOffFails
  <2>3. /\ rang \subseteq rang' /\ rang' \subseteq Kids /\ irq' \in BOOLEAN
        /\ fails' \in 0 .. MaxFails
    <3>1. \/ rang' = rang /\ irq' = irq
          \/ rang' = rang \cup {k} /\ irq' = FALSE
      BY <1>10a DEF ReadRtcFails, SwitchOffFails
    <3>2. fails' = fails + 1 /\ fails < MaxFails
      BY <1>10a DEF ReadRtcFails, SwitchOffFails, Fails
    <3>3. rang \subseteq rang' /\ rang' \subseteq Kids /\ irq' \in BOOLEAN
      BY <3>1, <1>t
    <3> QED BY <3>2, <3>3, <1>t
  <2>4. to = "remove" => k \in rang'
    BY <1>10a, <2>1 DEF ReadRtcFails, SwitchOffFails, Goes, Structure, TypeOK
  <2>5. /\ sig' \in [Kids -> BOOLEAN]
        /\ \A j \in Kids : j # k => sig'[j] = sig[j]
        /\ sig'[k] = (sig[k] /\ to # "ended")
    BY <2>1, <2>2, <1>s
  <2>6. Moves(k, "waiting", to)
    BY <2>1, <2>2, <2>3, <2>4, <2>5, <1>t, <1>j DEF Goes
  <2> QED BY <2>6
<1>11. CASE KidRemovesPidfile(k) \/ TimerEnds(k) \/ SigHandlerChild(k)
  <2>1. PICK from \in Settled : Goes(k, from, "ended") /\ kpc[k] = from
    BY <1>11
       DEF KidRemovesPidfile, TimerEnds, SigHandlerChild, Goes, Structure,
           KilledSettled
  <2>2. /\ sig' \in [Kids -> BOOLEAN] /\ sig'[k] = FALSE
        /\ \A j \in Kids : j # k => sig'[j] = sig[j]
        /\ pidfile' \in {NoKid, pidfile}
        /\ UNCHANGED <<environment, parent, kids, job, alrt, start, rang, rtc,
                       late, fails>>
    BY <1>11, <1>t DEF KidRemovesPidfile, TimerEnds, SigHandlerChild
  <2>3. Moves(k, from, "ended")
    BY <2>1, <2>2, <1>t
  <2> QED BY <2>3
<1> QED BY <1>1, <1>2, <1>3, <1>4, <1>5, <1>6, <1>7, <1>8, <1>9, <1>10, <1>10a, <1>11
        DEF Kid

LEMMA StructureStep == Structure /\ [Next]_vars => Structure'
<1> SUFFICES ASSUME Structure, [Next]_vars PROVE Structure'
  OBVIOUS
<1>1. CASE Next
  BY <1>1, WorldStep, ParentStep, KidStep, MovesStep DEF Next
<1>2. CASE UNCHANGED vars
  BY <1>2 DEF vars, environment, parent, child, rtc, Structure, TypeOK,
     ParentWaits, JobsOK, KilledSettled, NoPidfile, KilledFirst, RangFirst, Alive
<1> QED BY <1>1, <1>2

LEMMA StructureAlways == Spec => []Structure
<1> QED BY StructureInit, StructureStep, PTL DEF Spec

(* Every variable of the processes, their files and the RTC keeps its type, *)
(* and a signal is only pending for a process that is there.                *)
THEOREM TypeCorrect == Spec => []TypeOK
<1>1. Structure => TypeOK
  BY DEF Structure
<1> QED BY <1>1, StructureAlways, PTL

(* The parent waits for SIGUSR1, so that no child is on its way to the RTC   *)
(* when the device falls asleep (opiealarm.c:81).                            *)
THEOREM AlwaysAsleepWhenSafe == Spec => []AsleepWhenSafe
<1>1. Structure => AsleepWhenSafe
  BY DEF Structure, TypeOK, ParentWaits, Early, AsleepWhenSafe
<1> QED BY <1>1, StructureAlways, PTL

-----------------------------------------------------------------------------
(* The pid file, as long as every signal is handled in time                *)

(* The child that has written its pid can be found, or its signal is sent, *)
(* and there is only one: an older one would have lost its file to it      *)
Prompt ==
  ~ late =>
    \A k \in Kids :
      Written(k) =>
        /\ pidfile = k \/ sig[k]
        /\ \A j \in Kids : Written(j) => j = k

LEMMA PromptInit == Init => Prompt
BY DEF Init, Prompt, Written, Settled

LEMMA PromptParent ==
  ASSUME Structure, Prompt,
         \/ (\E t \in Times : SetAlarm(t)) \/ Plug \/ Tick \/ Button
         \/ SuspendRequest \/ ScriptEnds \/ Parent
  PROVE  Prompt'
<1>1. CASE KillWithPidfile
  <2>1. /\ \A k \in Kids : sig[k] => sig'[k]
        /\ UNCHANGED <<pidfile, kpc, late>>
    BY <1>1 DEF KillWithPidfile
  <2> QED BY <2>1 DEF Prompt, Written
<1>2. CASE RemovePidfile
  <2>1. UNCHANGED <<kpc, sig, late>> /\ pc = "remove"
    BY <1>2 DEF RemovePidfile, child
  <2>2. \A k \in Kids : Written(k) /\ pidfile = k => sig[k]
    BY <2>1 DEF Structure, KilledFirst, Written, Alive, Settled
  <2> QED BY <2>1, <2>2 DEF Prompt, Written
<1>3. CASE Fork
  <2>1. /\ UNCHANGED <<pidfile, sig, late>> /\ kids + 1 \in Kids
        /\ kpc' = [kpc EXCEPT ![kids + 1] = "forked"]
    BY <1>3, ConstantTypes DEF Fork, Structure, TypeOK
  <2>2. \A k \in Kids : Written(k)' => Written(k)
    BY <2>1 DEF Structure, TypeOK, Written, Settled
  <2> QED BY <2>1, <2>2 DEF Prompt
<1>4. ASSUME UNCHANGED <<pidfile, kpc, sig, late>> PROVE Prompt'
  BY <1>4 DEF Prompt, Written
<1> QED
  BY <1>1, <1>2, <1>3, <1>4
     DEF SetAlarm, Plug, Tick, Button, SuspendRequest, ScriptEnds, Parent,
         ForkFails, child

LEMMA PromptMoves ==
  ASSUME Structure, Prompt, NEW k \in Kids, NEW from, NEW to, Moves(k, from, to)
  PROVE  Prompt'
<1>1. /\ kpc[k] = from /\ kpc'[k] = to
      /\ \A j \in Kids : j # k => kpc'[j] = kpc[j]
  BY KidMoves DEF Moves, Early, Settled, KidPoints
<1>2. \A j \in Kids : j # k => (Written(j)' <=> Written(j)) /\ sig'[j] = sig[j]
  BY <1>1 DEF Written, Moves
<1> SUFFICES ASSUME ~ late', NEW j \in Kids, Written(j)'
             PROVE  /\ pidfile' = j \/ sig'[j]
                    /\ \A i \in Kids : Written(i)' => i = j
  BY DEF Prompt
<1>3. ~ late
  BY DEF Moves
<1>4. CASE from = "forked" /\ to # "ended"
  <2>1. pidfile' = k /\ pidfile = NoKid /\ \A i \in Kids : ~ sig[i]
    BY <1>4, <1>1 DEF Moves, Structure, NoPidfile
  <2>2. \A i \in Kids : ~ Written(i)
    BY <2>1, <1>3, ConstantTypes DEF Prompt
  <2> QED BY <2>1, <2>2, <1>2
<1>5. CASE to = "ended"
  <2>1. j # k /\ Written(j)
    BY <1>5, <1>1, <1>2 DEF Written, Settled
  <2>2. CASE from = "forked"
    <3>1. pidfile' = pidfile \/ pidfile' = NoKid
      BY <1>5 DEF Moves
    <3>2. pidfile = NoKid
      BY <2>2, <1>1 DEF Structure, NoPidfile
    <3>3. \A i \in Kids : Written(i)' => Written(i)
      BY <1>1, <1>2, <1>5 DEF Written, Settled
    <3> QED BY <2>1, <3>1, <3>2, <3>3, <1>2, <1>3, ConstantTypes DEF Prompt
  <2>3. CASE from # "forked"
    <3>1. Written(k)
      BY <2>3, <1>1 DEF Written, Moves, Early
    <3> QED BY <3>1, <2>1, <1>3 DEF Prompt
  <2> QED BY <2>2, <2>3
<1>6. CASE from # "forked" /\ to # "ended"
  <2>1. pidfile' = pidfile /\ Written(k)
    BY <1>6, <1>1 DEF Moves, Written, Early
  <2>2. \A i \in Kids : Written(i)' => Written(i)
    BY <2>1, <1>2
  <2>3. sig[k] => sig'[k]
    <3>1. sig'[k] = (sig[k] /\ to # "ended") /\ to # "ended"
      BY <1>6 DEF Moves
    <3> QED BY <3>1
  <2> QED BY <2>1, <2>2, <2>3, <1>2, <1>3 DEF Prompt
<1> QED BY <1>4, <1>5, <1>6

LEMMA PromptStep == Structure /\ Prompt /\ [Next]_vars => Prompt'
<1> SUFFICES ASSUME Structure, Prompt, [Next]_vars PROVE Prompt'
  OBVIOUS
<1>1. CASE Next
  BY <1>1, PromptParent, KidStep, PromptMoves DEF Next
<1>2. CASE UNCHANGED vars
  BY <1>2 DEF vars, child, Prompt, Written
<1> QED BY <1>1, <1>2

(* A child that waits is named in the pid file, or its signal is on its way, *)
(* as long as no signal was handled late (opiealarm.c:123).                  *)
THEOREM WaitingAlwaysKillable == Spec => []WaitingIsKillable
<1>1. Prompt => WaitingIsKillable
  BY DEF Prompt, WaitingIsKillable, Written, Settled
<1>2. Spec => []Prompt
  BY PromptInit, PromptStep, StructureAlways, PTL DEF Spec
<1> QED BY <1>1, <1>2, PTL

-----------------------------------------------------------------------------
(* The alarm of a suspend, as long as no call failed either                *)

(* The suspend has come to its end, or the resume after it begins *)
SuspendDone ==
  \/ power = "asleep"
  \/ script = "suspend" /\ pc = "done"
  \/ script = "resume" /\ pc = "kill"

(* The parent waits for somebody *)
ChildComes == pc = "wait" => \E k \in Kids : k = kids /\ kpc[k] \in Early

StuckWithoutAlarm == \A k \in Kids : kpc[k] = "stuck" => alrt[k] = 0

RtcArmed ==
  \A k \in Kids :
    kpc[k] = "waiting" \/ (kpc[k] = "tell" /\ job[k] = "suspend")
      => enabled /\ alarm = alrt[k] - Lead

(* The last child belongs to that suspend, and has not been killed *)
LastWaits ==
  SuspendDone =>
    \E k \in Kids :
      /\ k = kids /\ job[k] = "suspend" /\ ~ sig[k]
      /\ kpc[k] \in {"waiting", "stuck"} \/ k \in rang

(* A resume that found nobody to kill comes after the alarm *)
NobodyKilled ==
  script = "resume" /\ (pc = "fork" \/ (pc = "remove" /\ ~ opiealarm_was_running))
    => \E k \in Kids : k = kids /\ job[k] = "suspend" /\ k \in rang

ResuspendAfterRing ==
  \A k \in Kids : job[k] = "resume" =>
    k > 1 /\ job[k - 1] = "suspend" /\ k - 1 \in rang

Plan ==
  fails = 0 /\ ~ late =>
    /\ ChildComes /\ StuckWithoutAlarm /\ RtcArmed
    /\ LastWaits /\ NobodyKilled /\ ResuspendAfterRing

(* What a step of a child does beyond its move *)
Effects(k) ==
  /\ fails' = 0 => fails = 0
  /\ kpc[k] \in Early /\ kpc'[k] \notin Early
       => fails' # 0 \/ (pc' # "wait" /\ kpc'[k] \in {"waiting", "stuck", "timer"})
  /\ kpc[k] \in {"waiting", "stuck"}
       => fails' # 0 \/ kpc'[k] = "remove" \/ (kpc'[k] = "ended" /\ sig[k])
  /\ kpc'[k] = "stuck"
       => \/ fails' # 0 \/ alrt'[k] = 0
          \/ Written(k) /\ \E j \in Kids : j # k /\ HasRtc(j)
  /\ kpc'[k] = "waiting" => kpc[k] = "tell"
  /\ kpc'[k] = "tell" /\ job[k] = "suspend"
       => kpc[k] = "set" /\ enabled' /\ alarm' = alrt[k] - Lead
  /\ \A j \in Kids : j # k \/ kpc'[k] \in {"tell", "waiting"} => alrt'[j] = alrt[j]
  /\ kpc[k] \notin {"set", "waiting"} => alarm' = alarm /\ enabled' = enabled

LEMMA KidEffects ==
  ASSUME Structure, NEW k \in Kids, Kid(k)
  PROVE  Effects(k)
<1>t. /\ kpc \in [Kids -> KidPoints] /\ fails \in 0 .. MaxFails
      /\ alrt \in [Kids -> {NotRead} \cup Times] /\ MaxFails \in Nat
  BY ConstantTypes DEF Structure, TypeOK
<1>m. ASSUME NEW from, NEW to, Goes(k, from, to)
      PROVE  kpc[k] = from /\ kpc'[k] = to
  BY <1>m, <1>t DEF Goes
<1>j. kpc[k] \in {"open", "read", "set"} => job[k] = "suspend" /\ pc = "wait"
  BY DEF Structure, JobsOK, ParentWaits, Early
<1> USE DEF Effects, KidRest, parent, rtc, Early
<1>1. CASE WritePid(k)
  <2>1. /\ kpc[k] = "forked"
        /\ kpc'[k] = IF job[k] = "suspend" THEN "open" ELSE "tell"
    BY <1>1, <1>m DEF WritePid
  <2>2. UNCHANGED <<alrt, alarm, enabled, fails>>
    BY <1>1 DEF WritePid
  <2>3. kpc'[k] \in {"open", "tell"} /\ (kpc'[k] = "tell" => job[k] # "suspend")
    BY <2>1
  <2> QED BY <2>1, <2>2, <2>3
<1>2. CASE WritePidFails(k)
  <2>1. /\ kpc[k] = "forked" /\ kpc'[k] = "ended"
        /\ UNCHANGED <<alrt, alarm, enabled>> /\ fails' # 0
    BY <1>2, <1>m, <1>t DEF WritePidFails, Fails
  <2> QED BY <2>1
<1>3. CASE OpenRtc(k)
  <2>1. /\ kpc[k] = "open" /\ kpc'[k] = "read"
        /\ UNCHANGED <<alrt, alarm, enabled, fails>>
    BY <1>3, <1>m DEF OpenRtc
  <2> QED BY <2>1
<1>4. CASE RtcBusy(k)
  <2>1. /\ kpc[k] = "open" /\ kpc'[k] = "stuck" /\ pc' # "wait"
        /\ UNCHANGED <<alrt, alarm, enabled, fails>>
    BY <1>4, <1>m DEF RtcBusy, GivesUp, TellsParent
  <2>2. PICK j \in Kids : HasRtc(j)
    BY <1>4 DEF RtcBusy
  <2>3. j # k /\ Written(k)
    BY <2>1, <2>2 DEF HasRtc, Written
  <2> QED BY <2>1, <2>2, <2>3
<1>5. CASE RtcFails(k)
  <2>1. PICK from \in {"read", "set"} : GivesUp(k, from)
    BY <1>5 DEF RtcFails
  <2>2. /\ kpc[k] = from /\ kpc'[k] = "stuck" /\ fails' # 0
        /\ UNCHANGED <<alrt, enabled>>
    BY <1>5, <2>1, <1>m, <1>t DEF RtcFails, Fails, GivesUp
  <2>3. from # "set" => alarm' = alarm
    BY <1>5, <2>2 DEF RtcFails, GivesUp, Goes
  <2> QED BY <2>1, <2>2, <2>3
<1>6. CASE ReadAlarm(k)
  <2>1. /\ kpc[k] = "read" /\ kpc'[k] = "set"
        /\ UNCHANGED <<alarm, enabled, fails>>
        /\ \A j \in Kids : j # k => alrt'[j] = alrt[j]
    BY <1>6, <1>m, <1>t DEF ReadAlarm
  <2> QED BY <2>1
<1>7. CASE ReadNoAlarm(k)
  <2>1. /\ kpc[k] = "read" /\ kpc'[k] = "stuck" /\ pc' # "wait"
        /\ UNCHANGED <<alarm, enabled, fails>>
    BY <1>7, <1>m DEF ReadNoAlarm, GivesUp, TellsParent
  <2>2. alrt'[k] = 0 /\ \A j \in Kids : j # k => alrt'[j] = alrt[j]
    BY <1>7, <1>t DEF ReadNoAlarm
  <2> QED BY <2>1, <2>2
<1>8. CASE SetRtc(k)
  <2>1. /\ kpc[k] = "set" /\ kpc'[k] = "tell" /\ UNCHANGED <<alrt, fails>>
        /\ enabled' /\ alarm' = alrt[k] - Lead
    BY <1>8, <1>m DEF SetRtc
  <2> QED BY <2>1
<1>9. CASE Tell(k)
  <2>1. /\ kpc[k] = "tell"
        /\ kpc'[k] = IF job[k] = "suspend" THEN "waiting" ELSE "timer"
        /\ UNCHANGED <<alrt, alarm, enabled, fails>> /\ pc' # "wait"
    BY <1>9, <1>m DEF Tell, TellsParent
  <2>2. kpc'[k] \in {"waiting", "timer"}
    BY <2>1
  <2> QED BY <2>1, <2>2
<1>10. CASE ReadRtc(k)
  <2>1. /\ kpc[k] = "waiting" /\ kpc'[k] = "remove" /\ UNCHANGED <<alrt, fails>>
    BY <1>10, <1>m DEF ReadRtc
  <2> QED BY <2>1
<1>10a. CASE ReadRtcFails(k) \/ SwitchOffFails(k)
  <2>1. /\ kpc[k] = "waiting" /\ kpc'[k] \in {"stuck", "remove"}
        /\ UNCHANGED alrt /\ fails' # 0
    BY <1>10a, <1>m, <1>t DEF ReadRtcFails, SwitchOffFails, Fails
  <2> QED BY <2>1
<1>11. CASE KidRemovesPidfile(k) \/ TimerEnds(k)
  <2>1. /\ kpc[k] \in {"remove", "timer"} /\ kpc'[k] = "ended"
        /\ UNCHANGED <<alrt, alarm, enabled, fails>>
    BY <1>11, <1>m DEF KidRemovesPidfile, TimerEnds
  <2> QED BY <2>1
<1>12. CASE SigHandlerChild(k)
  <2>1. /\ kpc[k] \in Settled /\ kpc'[k] = "ended" /\ sig[k]
        /\ UNCHANGED <<alrt, alarm, enabled, fails>>
    BY <1>12, <1>m DEF SigHandlerChild, Structure, KilledSettled
  <2> QED BY <2>1 DEF Settled
<1> QED BY <1>1, <1>2, <1>3, <1>4, <1>5, <1>6, <1>7, <1>8, <1>9, <1>10, <1>10a,
           <1>11, <1>12 DEF Kid

LEMMA PlanInit == Init => Plan
BY DEF Init, Plan, ChildComes, StuckWithoutAlarm, RtcArmed, LastWaits, SuspendDone,
   NobodyKilled, ResuspendAfterRing

LEMMA PlanWorld ==
  ASSUME Structure, Plan,
         (\E t \in Times : SetAlarm(t)) \/ Plug \/ Tick \/ Button
           \/ SuspendRequest \/ ScriptEnds
  PROVE  Plan'
<1>1. UNCHANGED <<child, alarm, enabled, late, fails, opiealarm_was_running>>
  BY DEF SetAlarm, Plug, Tick, Button, SuspendRequest, ScriptEnds, WakesUp, parent, rtc
<1>2. /\ pc' = "wait" => pc = "wait"
      /\ SuspendDone' => SuspendDone
      /\ pc' \in {"fork", "remove"} => pc' = pc /\ script' = script
  BY DEF SetAlarm, Plug, Tick, Button, SuspendRequest, ScriptEnds, WakesUp, parent,
         environment, SuspendDone, Structure, TypeOK
<1> QED
  BY <1>1, <1>2
     DEF child, Plan, ChildComes, StuckWithoutAlarm, RtcArmed, LastWaits,
         NobodyKilled, ResuspendAfterRing

LEMMA PlanParent ==
  ASSUME Structure, Prompt, Plan, Parent
  PROVE  Plan'
<1> SUFFICES ASSUME fails' = 0, ~ late'
             PROVE  /\ ChildComes' /\ StuckWithoutAlarm' /\ RtcArmed'
                    /\ LastWaits' /\ NobodyKilled' /\ ResuspendAfterRing'
  BY DEF Plan
<1>1. CASE KillWithPidfile
  <2>1. /\ pc = "kill" /\ pc' = "remove"
        /\ UNCHANGED <<environment, script, pidfile, kids, kpc, job, alrt, rang,
                       rtc, late, fails>>
        /\ opiealarm_was_running' = \E k \in Kids : k = pidfile /\ Alive(k)
    BY <1>1 DEF KillWithPidfile
  <2>2. /\ ChildComes /\ StuckWithoutAlarm /\ RtcArmed /\ LastWaits
        /\ ResuspendAfterRing
    BY <2>1 DEF Plan
  <2>3. ~ SuspendDone'
    BY <2>1 DEF SuspendDone, Structure, TypeOK, environment
  <2>4. ASSUME script = "resume", ~ \E k \in Kids : k = pidfile /\ Alive(k)
        PROVE  \E k \in Kids : k = kids /\ job[k] = "suspend" /\ k \in rang
    <3>1. PICK k \in Kids :
            /\ k = kids /\ job[k] = "suspend" /\ ~ sig[k]
            /\ kpc[k] \in {"waiting", "stuck"} \/ k \in rang
      BY <2>1, <2>2, <2>4 DEF LastWaits, SuspendDone
    <3>2. kpc[k] \in {"waiting", "stuck"} => pidfile = k /\ Alive(k)
      BY <3>1, <2>1 DEF Prompt, Written, Settled, Alive
    <3> QED BY <3>1, <3>2, <2>4
  <2> QED
    BY <2>1, <2>2, <2>3, <2>4
       DEF rtc, ChildComes, StuckWithoutAlarm, RtcArmed, LastWaits, NobodyKilled,
           ResuspendAfterRing
<1>2. CASE RemovePidfile
  <2>1. /\ pc = "remove" /\ pc' \in {"fork", "done"}
        /\ pc' = "fork" => script = "suspend" \/ ~ opiealarm_was_running
        /\ pc' = "done" => script # "suspend"
        /\ UNCHANGED <<environment, script, opiealarm_was_running, child, rtc, late,
                       fails>>
    BY <1>2 DEF RemovePidfile
  <2>2. ~ SuspendDone'
    BY <2>1 DEF SuspendDone, Structure, TypeOK, environment
  <2> QED
    BY <2>1, <2>2
       DEF Plan, child, rtc, ChildComes, StuckWithoutAlarm, RtcArmed, LastWaits,
           NobodyKilled, ResuspendAfterRing
<1>3. CASE Fork
  <2>1. /\ kids + 1 \in Kids /\ kids \in Nat /\ kids' = kids + 1
        /\ pc = "fork" /\ pc' = "wait"
        /\ UNCHANGED <<environment, script, sig, alrt, rang, rtc, late, fails>>
    BY <1>3, ConstantTypes DEF Fork, Structure, TypeOK
  <2>2. /\ kpc'[kids + 1] = "forked" /\ job'[kids + 1] = script
        /\ \A k \in Kids : k # kids + 1 => kpc'[k] = kpc[k] /\ job'[k] = job[k]
    BY <1>3, <2>1 DEF Fork, Structure, TypeOK
  <2>3. ~ SuspendDone' /\ ChildComes' /\ NobodyKilled'
    BY <2>1, <2>2
       DEF SuspendDone, Structure, TypeOK, environment, ChildComes, Early, NobodyKilled
  <2>4. /\ StuckWithoutAlarm /\ RtcArmed /\ NobodyKilled /\ ResuspendAfterRing
        /\ job[kids + 1] = "none"
    BY <2>1 DEF Plan, Structure, JobsOK
  <2>5. StuckWithoutAlarm' /\ RtcArmed'
    BY <2>1, <2>2, <2>4 DEF StuckWithoutAlarm, RtcArmed, rtc
  <2>6. ASSUME NEW k \in Kids, job'[k] = "resume"
        PROVE  k > 1 /\ job'[k - 1] = "suspend" /\ k - 1 \in rang'
    <3>1. CASE k = kids + 1
      <4>1. kids \in Kids /\ job[kids] = "suspend" /\ kids \in rang
        BY <2>1, <2>2, <2>4, <2>6, <3>1 DEF NobodyKilled
      <4> QED BY <4>1, <3>1, <2>1, <2>2, ConstantTypes
    <3>2. CASE k # kids + 1
      <4>1. job[k] = "resume"
        BY <2>2, <2>6, <3>2
      <4>2. k > 1 /\ job[k - 1] = "suspend" /\ k - 1 \in rang
        BY <4>1, <2>4 DEF ResuspendAfterRing
      <4>3. k - 1 \in Kids /\ k - 1 # kids + 1
        BY <4>2, <2>4, ConstantTypes
      <4> QED BY <4>2, <4>3, <2>1, <2>2
    <3> QED BY <3>1, <3>2
  <2>7. LastWaits' /\ ResuspendAfterRing'
    BY <2>3, <2>6 DEF LastWaits, ResuspendAfterRing
  <2> QED BY <2>3, <2>5, <2>7
<1>4. CASE ForkFails
  BY <1>4, ConstantTypes DEF ForkFails, Fails, Structure, TypeOK
<1> QED BY <1>1, <1>2, <1>3, <1>4 DEF Parent

LEMMA PlanKid ==
  ASSUME Structure, Prompt, Plan, NEW k \in Kids, Kid(k)
  PROVE  Plan'
<1> SUFFICES ASSUME fails' = 0, ~ late'
             PROVE  /\ ChildComes' /\ StuckWithoutAlarm' /\ RtcArmed'
                    /\ LastWaits' /\ NobodyKilled' /\ ResuspendAfterRing'
  BY DEF Plan
<1>1. PICK from, to : Moves(k, from, to)
  BY KidStep
<1>2. Effects(k)
  BY KidEffects
<1>3. /\ kpc[k] = from /\ kpc'[k] = to
      /\ \A j \in Kids : j # k => kpc'[j] = kpc[j]
      /\ power' = "awake" /\ power = "awake"
  BY <1>1, KidMoves DEF Moves, Early, Settled, KidPoints, environment
<1>4. /\ ChildComes /\ StuckWithoutAlarm /\ RtcArmed /\ LastWaits /\ NobodyKilled
      /\ ResuspendAfterRing /\ ~ late /\ fails = 0
  BY <1>1, <1>2 DEF Plan, Moves, Effects
<1>5. /\ UNCHANGED <<kids, job, script, opiealarm_was_running>> /\ rang \subseteq rang'
      /\ pc' = pc \/ (from \in Early /\ to \notin Early /\ pc = "wait" /\ pc' = "done")
      /\ \A j \in Kids : j # k => sig'[j] = sig[j]
      /\ ~ sig[k] => ~ sig'[k]
  <2>1. sig'[k] = (sig[k] /\ to # "ended")
    BY <1>1 DEF Moves
  <2>2. ~ sig[k] => ~ sig'[k]
    BY <2>1
  <2> QED BY <1>1, <2>2 DEF Moves
(* Whoever else has written its pid is in the way *)
<1>6. \A j \in Kids : Written(k) /\ Written(j) => j = k
  BY <1>4 DEF Prompt
<1>7. ChildComes'
  <2>1. from \in Early /\ to \notin Early => pc' # "wait"
    BY <1>2, <1>3 DEF Effects
  <2> QED BY <2>1, <1>3, <1>4, <1>5 DEF ChildComes
<1>8. StuckWithoutAlarm'
  <2> SUFFICES ASSUME NEW j \in Kids, kpc'[j] = "stuck" PROVE alrt'[j] = 0
    BY DEF StuckWithoutAlarm
  <2>1. CASE j # k
    BY <2>1, <1>2, <1>3, <1>4 DEF Effects, StuckWithoutAlarm
  <2>2. CASE j = k
    <3>1. \/ alrt'[k] = 0
          \/ Written(k) /\ \E i \in Kids : i # k /\ HasRtc(i)
      BY <2>2, <1>2 DEF Effects
    <3>2. \A i \in Kids : HasRtc(i) => Written(i)
      BY DEF HasRtc, Written, Settled
    <3> QED BY <2>2, <3>1, <3>2, <1>6
  <2> QED BY <2>1, <2>2
<1>9. RtcArmed'
  <2> SUFFICES ASSUME NEW j \in Kids,
                      kpc'[j] = "waiting" \/ (kpc'[j] = "tell" /\ job[j] = "suspend")
               PROVE  enabled' /\ alarm' = alrt'[j] - Lead
    BY <1>5 DEF RtcArmed
  <2>1. CASE j = k /\ to = "tell"
    BY <2>1, <1>2, <1>3 DEF Effects
  <2>2. CASE j = k /\ to = "waiting"
    <3>1. from = "tell" /\ job[k] = "suspend"
      BY <2>2, <1>1, <1>2, <1>3 DEF Effects, Moves
    <3>2. enabled /\ alarm = alrt[k] - Lead
      BY <3>1, <1>3, <1>4 DEF RtcArmed
    <3> QED BY <2>2, <3>1, <3>2, <1>2, <1>3 DEF Effects
  <2>3. CASE j # k
    <3>1. enabled /\ alarm = alrt[j] - Lead /\ Written(j)
      BY <2>3, <1>3, <1>4 DEF RtcArmed, Written, Settled
    <3>2. kpc[k] \notin {"set", "waiting"}
      BY <2>3, <3>1, <1>6 DEF Written, Settled
    <3> QED BY <2>3, <3>1, <3>2, <1>2 DEF Effects
  <2> QED BY <2>1, <2>2, <2>3, <1>3
<1>10. LastWaits'
  <2>1. CASE SuspendDone
    <3>1. PICK j \in Kids :
            /\ j = kids /\ job[j] = "suspend" /\ ~ sig[j]
            /\ kpc[j] \in {"waiting", "stuck"} \/ j \in rang
      BY <2>1, <1>4 DEF LastWaits
    <3>2. /\ ~ sig'[j] /\ j = kids' /\ job'[j] = "suspend"
      BY <3>1, <1>5
    <3>3. kpc'[j] \in {"waiting", "stuck"} \/ j \in rang'
      <4>1. CASE j = k /\ j \notin rang
        BY <4>1, <3>1, <1>1, <1>2, <1>3 DEF Effects, Moves
      <4>2. CASE j # k \/ j \in rang
        BY <4>2, <3>1, <1>3, <1>5
      <4> QED BY <4>1, <4>2
    <3> QED BY <3>2, <3>3 DEF LastWaits
  <2>2. CASE ~ SuspendDone /\ SuspendDone'
    <3>1. from \in Early /\ to \notin Early /\ script = "suspend"
      BY <2>2, <1>3, <1>5 DEF SuspendDone
    <3>2. k = kids /\ job[k] = "suspend" /\ ~ sig[k]
      BY <3>1, <1>3
         DEF Structure, ParentWaits, KilledSettled, Early, Settled
    <3>3. to \in {"waiting", "stuck"}
      BY <3>1, <3>2, <1>1, <1>2, <1>3 DEF Effects, Moves
    <3> QED BY <3>2, <3>3, <1>3, <1>5 DEF LastWaits
  <2> QED BY <2>1, <2>2 DEF LastWaits
<1>11. NobodyKilled' /\ ResuspendAfterRing'
  BY <1>4, <1>5 DEF NobodyKilled, ResuspendAfterRing, Early
<1> QED BY <1>7, <1>8, <1>9, <1>10, <1>11

LEMMA PlanStep == Structure /\ Prompt /\ Plan /\ [Next]_vars => Plan'
<1> SUFFICES ASSUME Structure, Prompt, Plan, [Next]_vars PROVE Plan'
  OBVIOUS
<1>1. CASE Next
  BY <1>1, PlanWorld, PlanParent, PlanKid DEF Next
<1>2. CASE UNCHANGED vars
  BY <1>2
     DEF vars, environment, parent, child, rtc, Plan, ChildComes,
         StuckWithoutAlarm, RtcArmed, LastWaits, SuspendDone, NobodyKilled,
         ResuspendAfterRing
<1> QED BY <1>1, <1>2

LEMMA PlanAlways == Spec => []Plan
<1>1. Spec => []Prompt
  BY PromptInit, PromptStep, StructureAlways, PTL DEF Spec
<1> QED BY PlanInit, PlanStep, StructureAlways, <1>1, PTL DEF Spec

(* A device that falls asleep has its RTC armed for the alarm the last child *)
(* read, if there was one, as long as no call failed and no signal was late  *)
(* (opiealarm.c:295).                                                        *)
THEOREM SleepAlwaysArmed == Spec => []SleepIsArmed
<1>1. Plan => SleepIsArmed
  <2> SUFFICES ASSUME Plan, power = "asleep", fails = 0, ~ late
               PROVE  \E k \in Kids :
                        /\ k = kids /\ job[k] = "suspend"
                        /\ \/ kpc[k] = "waiting" /\ enabled
                              /\ alarm = alrt[k] - Lead
                           \/ kpc[k] = "stuck" /\ alrt[k] = 0
                           \/ k \in rang
    BY DEF SleepIsArmed
  <2> QED BY DEF Plan, LastWaits, SuspendDone, RtcArmed, StuckWithoutAlarm
<1> QED BY <1>1, PlanAlways, PTL

(* The device is only put back to sleep after its alarm came (opiealarm.c:193). *)
THEOREM ResuspendAlwaysAfterAlarm == Spec => []ResuspendAfterAlarm
<1>1. Plan => ResuspendAfterAlarm
  BY DEF Plan, ResuspendAfterRing, ResuspendAfterAlarm
<1> QED BY <1>1, PlanAlways, PTL
=============================================================================
