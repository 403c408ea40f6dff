--------------------------- MODULE LauncherTable ----------------------------
(***************************************************************************)
(* The processes of the launcher (launcher/applauncher.cpp): the table of  *)
(* running applications, the quicklauncher that waits to become the next   *)
(* one (tools/quicklauncher/main.cpp), and the SIGCHLD handler they share  *)
(* with OProcess, which the launcher uses to suspend the device            *)
(* (opiecore/device/odevice.cpp, oprocctrl.cpp).                           *)
(*                                                                         *)
(* From the first suspend on the handler of OProcessController comes first:*)
(* it calls the launcher's when it found no child of its own, and starts a *)
(* timer that waits for every child.                                       *)
(***************************************************************************)
EXTENDS Integers, FiniteSets

CONSTANTS
  Apps,
  Plugins,     \* the applications the quicklauncher can become
  NoApp,
  MaxForks,    \* bound on the children
  MaxFails,    \* bound on calls of vfork() and exec() that fail
  MaxSuspends  \* bound on the suspends

ASSUME ConstantsAssumption ==
  /\ Plugins \subseteq Apps /\ NoApp \notin Apps
  /\ {MaxForks, MaxFails, MaxSuspends} \subseteq Nat

(* The n-th child has pid n; -1 is the key vfork() leaves when it fails *)
Pids == 1 .. MaxForks
Keys == {-1} \cup Pids

VARIABLES
  runningApps,
  qlPid, qlReady,
  timers,    \* calls of createQuickLauncher() on their way
  disabled,
  life,      \* of each child: one of Lives
  what,      \* the application each child is to be, or is; NoApp when it ends
  regs,      \* channels the window server has yet to hear of
  sigchld,   \* a SIGCHLD is pending
  inHandler, \* the launcher's signal handler is about to run
  events,    \* the pids of AppStoppedEvents
  suspend,   \* apmSuspend(): no, fork or wait
  apm,       \* the child of the last apmSuspend()
  records,   \* pids in the pipe of OProcessController
  delayed,   \* a record {0, 0} is in it
  cleanup,   \* delayedChildrenCleanupTimer runs
  coalesced, \* before the first suspend a SIGCHLD stood for two children
  mistaken,  \* an event of no process was taken for the quicklauncher's end
  unmade,    \* the vfork() of the last createQuickLauncher() failed
  taken,     \* the launcher's handler took the child of apmSuspend()
  stolen,    \* the pids OProcessController waited for: no event tells of them
  forks, fails, suspends

table    == <<runningApps, qlPid, qlReady, timers, disabled>>
children == <<life, what, regs>>
signals  == <<sigchld, inHandler, events>>
oprocess == <<suspend, apm, records, delayed, cleanup>>
history  == <<coalesced, mistaken, unmade, taken, stolen>>
tracked  == <<mistaken, unmade, taken, stolen>>
bounds   == <<forks, fails, suspends>>
vars == <<table, children, signals, oprocess, history, bounds>>

(* loading, listening: a quicklauncher; told: with execute() on its way *)
Alive == {"loading", "listening", "told", "app", "apm"}
Lives == Alive \cup {"none", "zombie", "reaped"}

Zombies == {p \in Pids : life[p] = "zombie"}

Init ==
  /\ runningApps = [k \in Keys |-> NoApp]
  /\ qlPid = 0 /\ qlReady = FALSE /\ timers = 1 /\ disabled = FALSE
  /\ life = [p \in Pids |-> "none"] /\ what = [p \in Pids |-> NoApp] /\ regs = {}
  /\ sigchld = FALSE /\ inHandler = FALSE /\ events = {}
  /\ suspend = "no" /\ apm = 0 /\ records = {} /\ delayed = FALSE /\ cleanup = FALSE
  /\ coalesced = FALSE /\ mistaken = FALSE /\ unmade = FALSE /\ taken = FALSE
  /\ stolen = {}
  /\ forks = 0 /\ fails = 0 /\ suspends = 0

(* The event loop, that of apmSuspend() included *)
Loop == ~ inHandler /\ suspend # "fork"

(* OProcessController is there, with its handler *)
HandlerSet == suspends > 0

(***************************************************************************)
(* Children                                                                *)
(***************************************************************************)
(* Deaths that the handler of one signal has to see to *)
Raises ==
  /\ sigchld' = TRUE
  /\ coalesced' = (coalesced \/ (sigchld /\ ~ HandlerSet))

Dies(p) ==
  /\ life[p] \in Alive
  /\ life' = [life EXCEPT ![p] = "zombie"] /\ what' = [what EXCEPT ![p] = NoApp]
  /\ Raises
  /\ UNCHANGED <<table, regs, inHandler, events, oprocess, tracked, bounds>>

(* QuickLauncher(): its channel *)
Registers(p) ==
  /\ life[p] = "loading"
  /\ life' = [life EXCEPT ![p] = "listening"]
  /\ regs' = regs \cup {p}
  /\ UNCHANGED <<table, what, signals, oprocess, history, bounds>>

(* QuickLauncher::message() *)
QuickExecutes(p) ==
  /\ life[p] = "told"
  /\ life' = [life EXCEPT ![p] = "app"]
  /\ UNCHANGED <<table, what, regs, signals, oprocess, history, bounds>>

New == forks + 1

(* vfork() with a child that is l for application a *)
Forks(l, a) ==
  /\ forks < MaxForks
  /\ forks' = forks + 1
  /\ life' = [life EXCEPT ![New] = l] /\ what' = [what EXCEPT ![New] = a]
  /\ UNCHANGED regs

ForkSucceeds(l, a) == Forks(l, a) /\ UNCHANGED <<sigchld, coalesced, fails>>

Fails == fails < MaxFails /\ fails' = fails + 1

ExecFails == Forks("zombie", NoApp) /\ Raises /\ Fails

ForkFails == Fails /\ UNCHANGED <<sigchld, coalesced, children, forks>>

(***************************************************************************)
(* AppLauncher                                                             *)
(***************************************************************************)
(* One entry at most, see OneProcess; a zombie has a process group *)
IsRunning(a) == \E p \in Pids : runningApps[p] = a /\ life[p] # "reaped"

(* isRunning() drops the entry of a process that is gone *)
Dropped(a) == [k \in Keys |-> IF runningApps[k] = a THEN NoApp ELSE runningApps[k]]

LauncherRest == UNCHANGED <<inHandler, events, oprocess, mistaken, taken, stolen, suspends>>

(* mutant: the entry is forgotten *)
ExecuteQuickUnlisted(a) ==
  /\ Loop /\ ~ IsRunning(a)
  /\ qlPid # 0 /\ qlReady /\ a \in Plugins
  /\ runningApps' = Dropped(a)
  /\ IF life[qlPid] = "listening"
       THEN /\ life' = [life EXCEPT ![qlPid] = "told"]
            /\ what' = [what EXCEPT ![qlPid] = a]
       ELSE UNCHANGED <<life, what>>
  /\ qlPid' = 0 /\ qlReady' = FALSE
  /\ timers' = timers + 1
  /\ UNCHANGED <<disabled, regs, sigchld, coalesced, unmade, forks, fails>>
  /\ LauncherRest

(* The message reaches a quicklauncher that is still there *)
ExecuteQuick(a) ==
  /\ Loop /\ ~ IsRunning(a)
  /\ qlPid # 0 /\ qlReady /\ a \in Plugins
  /\ runningApps' = [Dropped(a) EXCEPT ![qlPid] = a]
  /\ IF life[qlPid] = "listening"
       THEN /\ life' = [life EXCEPT ![qlPid] = "told"]
            /\ what' = [what EXCEPT ![qlPid] = a]
       ELSE UNCHANGED <<life, what>>
  /\ qlPid' = 0 /\ qlReady' = FALSE
  /\ timers' = timers + 1
  /\ UNCHANGED <<disabled, regs, sigchld, coalesced, unmade, forks, fails>>
  /\ LauncherRest

ExecuteFork(a) ==
  /\ Loop /\ ~ IsRunning(a)
  /\ ~ (qlPid # 0 /\ qlReady /\ a \in Plugins)
  /\ \/ /\ ForkSucceeds("app", a) \/ ExecFails
        /\ runningApps' = [Dropped(a) EXCEPT ![New] = a]
     \/ /\ ForkFails
        /\ runningApps' = [Dropped(a) EXCEPT ![-1] = a]
  /\ UNCHANGED <<qlPid, qlReady, timers, disabled, unmade>> /\ LauncherRest

(* mutant: qlPid keeps the result of a vfork() that failed *)
CreateKeepsResult ==
  /\ Loop /\ timers > 0 /\ ~ disabled
  /\ timers' = timers - 1
  /\ qlReady' = FALSE
  /\ \/ ForkSucceeds("loading", NoApp) /\ qlPid' = New /\ UNCHANGED disabled
     \/ ExecFails /\ qlPid' = New /\ disabled' = TRUE
     \/ ForkFails /\ qlPid' = -1 /\ UNCHANGED disabled
  /\ unmade' = (qlPid' = -1)
  /\ UNCHANGED runningApps /\ LauncherRest

(* The child of vfork() sets disabled where its parent sees it *)
CreateQuickLauncher ==
  /\ Loop /\ timers > 0 /\ ~ disabled
  /\ timers' = timers - 1
  /\ qlReady' = FALSE
  /\ \/ ForkSucceeds("loading", NoApp) /\ qlPid' = New /\ UNCHANGED disabled
     \/ ExecFails /\ qlPid' = New /\ disabled' = TRUE
     \/ ForkFails /\ qlPid' = 0 /\ UNCHANGED disabled
  /\ unmade' = (qlPid' = 0)
  /\ UNCHANGED runningApps /\ LauncherRest

CreateDisabled ==
  /\ Loop /\ timers > 0 /\ disabled
  /\ timers' = timers - 1
  /\ UNCHANGED <<runningApps, qlPid, qlReady, disabled, children, signals, oprocess,
                 history, bounds>>

(* mutant: any quicklauncher's channel counts *)
NewAnyChannel(p) ==
  /\ Loop /\ p \in regs
  /\ regs' = regs \ {p}
  /\ qlReady' = (qlReady \/ qlPid # 0)
  /\ UNCHANGED <<runningApps, qlPid, timers, disabled, life, what, signals, oprocess,
                 history, bounds>>

NewQcopChannel(p) ==
  /\ Loop /\ p \in regs
  /\ regs' = regs \ {p}
  /\ qlReady' = (qlReady \/ p = qlPid)
  /\ UNCHANGED <<runningApps, qlPid, timers, disabled, life, what, signals, oprocess,
                 history, bounds>>

(* sigStopped() *)
EntryStopped(k) ==
  /\ runningApps' = [runningApps EXCEPT ![k] = NoApp]
  /\ UNCHANGED <<qlPid, qlReady, timers>>

(* mutant: nobody starts the next one *)
QuickLauncherForgotten ==
  /\ qlPid' = 0 /\ qlReady' = FALSE
  /\ UNCHANGED <<runningApps, timers>>

QuickLauncherStopped ==
  /\ qlPid' = 0 /\ qlReady' = FALSE
  /\ timers' = timers + 1
  /\ UNCHANGED runningApps

HasEntry(k) == k \in Keys /\ runningApps[k] # NoApp

SigStopped(k) ==
  /\ Loop /\ k \in events
  /\ events' = events \ {k}
  /\ IF HasEntry(k) THEN EntryStopped(k)
     ELSE IF k = qlPid THEN QuickLauncherStopped
     ELSE UNCHANGED <<runningApps, qlPid, qlReady, timers>>
  /\ mistaken' = (mistaken \/ (k = 0 /\ qlPid = 0))
  /\ UNCHANGED <<disabled, children, sigchld, inHandler, oprocess, coalesced, unmade,
                 taken, stolen, bounds>>

(***************************************************************************)
(* SIGCHLD                                                                 *)
(***************************************************************************)
(* What theSigCHLDHandler waits for: before pid_ is assigned it is 0, any  *)
(* child of the launcher's process group                                   *)
Watched ==
  CASE suspend = "no"   -> {}
    [] suspend = "fork" -> Zombies
    [] suspend = "wait" -> Zombies \cap {apm}

Reaped(R) == life' = [p \in Pids |-> IF p \in R THEN "reaped" ELSE life[p]]

HandlerRest ==
  UNCHANGED <<table, what, regs, suspend, apm, cleanup, mistaken, unmade, bounds>>

OProcessHandler ==
  /\ sigchld /\ ~ inHandler
  /\ sigchld' = FALSE
  /\ \/ \E p \in Watched :
          /\ Reaped({p}) /\ records' = records \cup {p}
          /\ delayed' = TRUE /\ stolen' = stolen \cup {p}
          /\ UNCHANGED inHandler
     \/ /\ Watched = {}
        /\ inHandler' = TRUE
        /\ UNCHANGED <<life, records, delayed, stolen>>
  /\ UNCHANGED <<events, coalesced, taken>> /\ HandlerRest

(* mutant: the record {0, 0} is written for own children only *)
SignalHandlerOnly ==
  /\ inHandler
  /\ inHandler' = FALSE
  /\ \/ \E p \in Zombies :
          /\ Reaped({p}) /\ events' = events \cup {p}
          /\ taken' = (taken \/ (p = apm /\ suspend # "no"))
     \/ /\ Zombies = {}
        /\ events' = events \cup {IF \E p \in Pids : life[p] \in Alive THEN 0 ELSE -1}
        /\ UNCHANGED <<life, taken>>
  /\ UNCHANGED <<sigchld, coalesced, stolen, records, delayed>> /\ HandlerRest

(* AppLauncher::signalHandler(): waitpid(-1, WNOHANG), once; 0 and -1 are  *)
(* posted like a pid                                                       *)
SignalHandler ==
  /\ inHandler
  /\ inHandler' = FALSE
  /\ \/ \E p \in Zombies :
          /\ Reaped({p}) /\ events' = events \cup {p}
          /\ taken' = (taken \/ (p = apm /\ suspend # "no"))
     \/ /\ Zombies = {}
        /\ events' = events \cup {IF \E p \in Pids : life[p] \in Alive THEN 0 ELSE -1}
        /\ UNCHANGED <<life, taken>>
  /\ delayed' = (delayed \/ HandlerSet)
  /\ UNCHANGED <<sigchld, coalesced, stolen, records>> /\ HandlerRest

(***************************************************************************)
(* apmSuspend() and OProcessController                                     *)
(***************************************************************************)
SuspendRest == UNCHANGED <<table, inHandler, events, records, delayed, cleanup, tracked>>

(* new OProcess and start(); runs is set and pid_ still 0 in "fork" *)
SuspendForks ==
  /\ Loop /\ suspend = "no" /\ suspends < MaxSuspends
  /\ suspends' = suspends + 1
  /\ \/ ForkSucceeds("apm", NoApp) /\ suspend' = "fork" /\ apm' = New
     \/ ForkFails /\ UNCHANGED <<suspend, apm>>
  /\ SuspendRest

OProcessRest ==
  UNCHANGED <<table, what, regs, signals, apm, coalesced, mistaken, unmade, taken,
              forks, suspends>>

SuspendGoesOn ==
  /\ ~ inHandler /\ suspend = "fork"
  /\ \/ suspend' = "wait" /\ UNCHANGED fails
     \/ suspend' = "no" /\ Fails
  /\ UNCHANGED <<life, records, delayed, cleanup, stolen>> /\ OProcessRest

(* slotDoHousekeeping() *)
ReadRecord(p) ==
  /\ Loop /\ p \in records
  /\ records' = records \ {p}
  /\ suspend' = IF p = apm THEN "no" ELSE suspend
  /\ UNCHANGED <<life, delayed, cleanup, stolen, fails>> /\ OProcessRest

ReadDelayed ==
  /\ Loop /\ delayed
  /\ delayed' = FALSE /\ cleanup' = TRUE
  /\ UNCHANGED <<life, suspend, records, stolen, fails>> /\ OProcessRest

(* mutant: it writes no record *)
CleanupSilent ==
  /\ Loop /\ cleanup
  /\ cleanup' = FALSE
  /\ Reaped(Zombies) /\ stolen' = stolen \cup Zombies
  /\ UNCHANGED <<suspend, records, delayed, fails>> /\ OProcessRest

(* delayedChildrenCleanup(); its waitpid() may be ahead of a signal *)
DelayedChildrenCleanup ==
  /\ Loop /\ cleanup
  /\ cleanup' = FALSE
  /\ Reaped(Zombies) /\ stolen' = stolen \cup Zombies
  /\ records' = records \cup (IF suspend = "no" THEN {} ELSE Zombies \cap {apm})
  /\ UNCHANGED <<suspend, delayed, fails>> /\ OProcessRest

Handlers == OProcessHandler \/ SignalHandler

EventLoop ==
  \/ CreateQuickLauncher \/ CreateDisabled
  \/ SuspendGoesOn \/ ReadDelayed \/ DelayedChildrenCleanup
  \/ \E p \in Pids : NewQcopChannel(p) \/ ReadRecord(p)
  \/ \E k \in Keys \cup {0} : SigStopped(k)

Next ==
  \/ \E p \in Pids : Dies(p) \/ Registers(p) \/ QuickExecutes(p)
  \/ \E a \in Apps : ExecuteQuick(a) \/ ExecuteFork(a)
  \/ SuspendForks
  \/ Handlers \/ EventLoop

(* Signals are delivered; the event loop serves what it has: every step of  *)
(* it uses an event, a record or a timer up                                *)
Fairness == WF_vars(Handlers) /\ WF_vars(EventLoop)

Spec == Init /\ [][Next]_vars /\ Fairness

(***************************************************************************)
(* Properties                                                              *)
(***************************************************************************)
TableType ==
  /\ runningApps \in [Keys -> Apps \cup {NoApp}]
  /\ qlPid \in {0} \cup Pids /\ qlReady \in BOOLEAN
  /\ timers \in Nat /\ disabled \in BOOLEAN

ChildrenType ==
  /\ life \in [Pids -> Lives] /\ what \in [Pids -> Apps \cup {NoApp}]
  /\ regs \subseteq Pids
  /\ forks \in 0 .. MaxForks
  /\ \A p \in Pids : life[p] = "none" <=> p > forks

SignalsType ==
  /\ sigchld \in BOOLEAN /\ inHandler \in BOOLEAN
  /\ events \subseteq Keys \cup {0}
  /\ coalesced \in BOOLEAN /\ mistaken \in BOOLEAN /\ unmade \in BOOLEAN
  /\ taken \in BOOLEAN /\ stolen \subseteq Pids

OProcessType ==
  /\ suspend \in {"no", "fork", "wait"} /\ apm \in {0} \cup Pids
  /\ records \subseteq Pids /\ delayed \in BOOLEAN /\ cleanup \in BOOLEAN
  /\ fails \in 0 .. MaxFails /\ suspends \in 0 .. MaxSuspends

(* The type of every variable (members of AppLauncher and of               *)
(* OProcessController, what the kernel knows of the children).             *)
TypeOK == TableType /\ ChildrenType /\ SignalsType /\ OProcessType

Applications == {p \in Pids : life[p] \in {"told", "app"}}

(* Whatever dies, is reaped by one or the other handler, or is told to     *)
(* become an application, a living one is in runningApps under its name,   *)
(* and no application runs twice (execute, isRunning, sigStopped).         *)
OneProcess ==
  /\ \A p \in Applications : runningApps[p] = what[p]
  /\ \A j, k \in Keys : runningApps[j] = runningApps[k] => j = k \/ runningApps[j] = NoApp

(* A quicklauncher that counts as ready has had its channel, whatever news *)
(* of older ones is late (newQcopChannel, createQuickLauncher); it may be  *)
(* dead since.                                                             *)
ReadyIsListening ==
  qlReady => qlPid # 0 /\ life[qlPid] \in {"listening", "zombie", "reaped"}

(* The quicklauncher is there, or its end is on its way to sigStopped, or  *)
(* the next one is due.  Named are the ways in which it is gone for good:  *)
(* its vfork failed, its exec failed (disabled), OProcessController waited *)
(* for it, so that qlPid stays and no event comes.  And none is left over, *)
(* unless the event of a handler that found nobody was taken for the end   *)
(* of a quicklauncher, with 0 for both (createQuickLauncher, sigStopped).  *)
OneQuickLauncher ==
  /\ qlPid = 0 => timers > 0 \/ disabled \/ unmade
  /\ qlPid # 0 => \/ life[qlPid] \in {"loading", "listening", "zombie"}
                  \/ qlPid \in events
                  \/ qlPid \in stolen
  /\ \A p \in Pids : life[p] \in {"loading", "listening"} => p = qlPid \/ mistaken

(* Every child that ended is waited for: by the handlers, or by the timer  *)
(* of OProcessController, but for signals that coalesced before it was     *)
(* there.                                                                  *)
ZombiesEnd ==
  \A p \in Pids : life[p] = "zombie" ~> life[p] = "reaped" \/ coalesced

(* apmSuspend() notices the end of apm, unless the launcher's handler got  *)
(* hold of it.                                                             *)
SuspendEnds ==
  suspend = "wait" /\ life[apm] \in {"zombie", "reaped"} ~> suspend = "no" \/ taken
=============================================================================
