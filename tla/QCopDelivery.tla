---------------------------- MODULE QCopDelivery ---------------------------
(***************************************************************************)
(* How a message sent to QPE/Application/X reaches the application X,      *)
(* which may be running, starting, on its way out or not there at all.     *)
(*                                                                         *)
(* A sender (library/qcopenvelope_qws.cpp) appends the message to the file *)
(* /tmp/qcop-msg-X under a lock and tells the launcher.  The launcher      *)
(* (core/launcher/applauncher.cpp) starts X, or tells the running X to     *)
(* read the file.  X (library/qpeapplication.cpp) reads and truncates the  *)
(* file when it starts, when told to, and when the launcher announces its  *)
(* channel.  Sender, launcher and the processes of X share no clock: what  *)
(* they write to each other's sockets arrives later and in order.  The     *)
(* module is about one application, X.                                     *)
(***************************************************************************)
EXTENDS Naturals, Sequences, FiniteSets

CONSTANTS
  MaxSent,     \* bound on the messages written when senders write
  MaxPids,     \* bound on the processes of X ever started
  MaxCommands, \* bound on the execute and raise commands
  MaxCrashes   \* bound on crashes of X and of senders and failures of vfork

ASSUME ConstantsAssumption ==
  {MaxSent, MaxPids, MaxCommands, MaxCrashes} \subseteq Nat

Pids == 1 .. MaxPids

(* what a failed vfork returns, and runningApps takes for a process *)
NoPid == 0

(* A message is known by its place in the order of the writes to the file; *)
(* a command writes two messages at most.                                  *)
Messages == 1 .. MaxSent + 2 * MaxCommands

Kinds == {"raise", "other"}

VARIABLES
  sent,        \* (history) the kind of every message written
  delivered,   \* (history) the messages X was given, in that order
  lost,        \* (history) the messages that died in the memory of X
  file,        \* /tmp/qcop-msg-X
  requests,    \* processQCop(X) messages under way to the launcher
  running,     \* the entries of runningApps for X
  registered,  \* the processes whose channel QPE/Application/X is known
  stopped,     \* AppStoppedEvents posted by the SIGCHLD handler
  waiting,     \* waitingHeartbeat has an entry for X
  asking,      \* appKillerBox is up for X
  raising,     \* the launcher is between the two halves of raise(QString)
  pc,          \* where each process of X is
  link,        \* what each process has written to the launcher's socket
  inbox,       \* what the launcher has written to the process's socket
  queue,       \* qcopq
  keep,        \* keep_running
  commands, crashes  \* counters for the bounds

history  == <<sent, delivered, lost>>
launcher == <<running, registered, stopped, waiting, asking, raising>>
process  == <<pc, link, inbox, queue, keep>>
counts   == <<commands, crashes>>
vars == <<history, file, requests, launcher, process, counts>>

(***************************************************************************)
(* The life of a process: between fork and main; its channel is being      *)
(* registered; before exec(); sendQCopQ of exec(); the first processEvents *)
(* of exec(); the event loop; the last processEvents; out of all loops.    *)
(***************************************************************************)
Alive == {"starting", "reading", "ready", "draining", "events", "loop",
          "lastEvents", "leaving"}

(* where the process serves its socket; a handler may run a nested loop *)
Serving == {"draining", "events", "loop", "lastEvents"}

IsAlive(p) == pc[p] \in Alive

Elems(s) == {s[i] : i \in DOMAIN s}

Init ==
  /\ sent = <<>> /\ delivered = <<>> /\ lost = {}
  /\ file = <<>>
  /\ requests = 0
  /\ running = {} /\ registered = {} /\ stopped = {}
  /\ waiting = FALSE /\ asking = FALSE /\ raising = FALSE
  /\ pc = [p \in Pids |-> "none"]
  /\ link = [p \in Pids |-> <<>>]
  /\ inbox = [p \in Pids |-> <<>>]
  /\ queue = [p \in Pids |-> <<>>]
  /\ keep = [p \in Pids |-> FALSE]
  /\ commands = 0 /\ crashes = 0

(* A record is appended to the file under its lock *)
Write(kind) ==
  /\ sent' = Append(sent, kind)
  /\ file' = Append(file, Len(sent) + 1)
  /\ UNCHANGED <<delivered, lost>>

(***************************************************************************)
(* The sender: ~QCopEnvelope.  It may die before the launcher is told.     *)
(***************************************************************************)
Send ==
  /\ Len(sent) < MaxSent
  /\ Write("other")
  /\ \/ requests' = requests + 1 /\ UNCHANGED crashes
     \/ /\ crashes < MaxCrashes /\ crashes' = crashes + 1
        /\ UNCHANGED requests
  /\ UNCHANGED <<launcher, process, commands>>

(***************************************************************************)
(* The launcher: one thread, which only the SIGCHLD handler interrupts     *)
(***************************************************************************)
Idle == ~ raising

(* mutant: an application whose channel is not known is not running *)
IsKnown == \E p \in running : p \in registered

(* A zombie still has a process group; a reaped process and NoPid do not *)
IsRunning == \E p \in running \ {NoPid} : pc[p] # "reaped"

(* QPEProcessQCop() to whoever registered the channel *)
Notify ==
  inbox' = [p \in Pids |-> IF p \in registered /\ IsAlive(p)
                           THEN Append(inbox[p], "process") ELSE inbox[p]]

(* isRunning drops the entry of a process that is gone *)
StillThere == {q \in running \ {NoPid} : pc[q] # "reaped"}

(* vfork and exec; processes are numbered in the order they are started *)
Fork ==
  \E p \in Pids :
    /\ \A q \in Pids : pc[q] = "none" <=> q >= p
    /\ pc' = [pc EXCEPT ![p] = "starting"]
    /\ running' = StillThere \cup {p}
    /\ UNCHANGED crashes

(* the result of vfork is not looked at *)
ForkFails ==
  /\ crashes < MaxCrashes
  /\ crashes' = crashes + 1
  /\ running' = StillThere \cup {NoPid}
  /\ UNCHANGED pc

StartApplication == ~ IsRunning /\ (Fork \/ ForkFails) /\ UNCHANGED inbox

(* processQCop(QString) *)
ProcessQCop ==
  /\ Idle
  /\ requests > 0
  /\ requests' = requests - 1
  /\ \/ IsRunning /\ Notify /\ UNCHANGED <<pc, running, crashes>>
     \/ StartApplication
  /\ UNCHANGED <<history, file, registered, stopped, waiting, asking, raising,
                 link, queue, keep, commands>>

(* An application with an empty file is told to raise itself *)
RaiseRunning ==
  /\ IsRunning
  /\ IF file = <<>> THEN Write("raise") ELSE UNCHANGED <<history, file>>
  /\ Notify
  /\ UNCHANGED <<pc, running, crashes>>

StartQuietly == StartApplication /\ UNCHANGED <<history, file>>

(* execute(QString) *)
Execute ==
  /\ Idle
  /\ commands < MaxCommands /\ commands' = commands + 1
  /\ RaiseRunning \/ StartQuietly
  /\ waiting' = (waiting \/ (IsRunning /\ file = <<>> /\ ~ asking))
  /\ UNCHANGED <<requests, registered, stopped, asking, raising, link, queue,
                 keep>>

(***************************************************************************)
(* raise(QString) is ignored while a heartbeat is awaited or the box is    *)
(* up.  It writes its message, lets go of the lock and executes X.  When X *)
(* has read the file in between, execute() writes a second message.        *)
(***************************************************************************)
Raise ==
  /\ Idle
  /\ commands < MaxCommands /\ commands' = commands + 1
  /\ ~ waiting /\ ~ asking
  /\ Write("raise")
  /\ raising' = TRUE
  /\ UNCHANGED <<requests, running, registered, stopped, waiting, asking,
                 process, crashes>>

RaiseExecute ==
  /\ raising
  /\ raising' = FALSE
  /\ RaiseRunning \/ StartQuietly
  /\ waiting' = TRUE
  /\ UNCHANGED <<requests, registered, stopped, asking, link, queue, keep,
                 commands>>

(* timerEvent: no heartbeat in time *)
HeartbeatTimeout ==
  /\ Idle
  /\ waiting /\ ~ asking
  /\ waiting' = FALSE
  /\ asking' = TRUE
  /\ UNCHANGED <<history, file, requests, running, registered, stopped,
                 raising, process, counts>>

(* The process is gone and with it what it had not yet handed on *)
Die(p) ==
  /\ pc' = [pc EXCEPT ![p] = "zombie"]
  /\ link' = [link EXCEPT ![p] = Append(@, "unregister")]
  /\ inbox' = [inbox EXCEPT ![p] = <<>>]
  /\ queue' = [queue EXCEPT ![p] = <<>>]
  /\ keep' = [keep EXCEPT ![p] = FALSE]
  /\ lost' = lost \cup Elems(queue[p])
  /\ UNCHANGED <<sent, delivered, file>>

(* "Would you like to force the application to exit?" *)
AnswerYes ==
  /\ Idle /\ asking
  /\ asking' = FALSE
  /\ \E p \in running :
       IF p # NoPid /\ IsAlive(p) THEN Die(p)
       ELSE UNCHANGED <<history, file, process>>
  /\ UNCHANGED <<requests, running, registered, stopped, waiting, raising,
                 counts>>

AnswerNo ==
  /\ Idle /\ asking
  /\ asking' = FALSE
  /\ UNCHANGED <<history, file, requests, running, registered, stopped,
                 waiting, raising, process, counts>>

(* mutant: the channel is not announced *)
RegisteredSilently(p) ==
  /\ Head(link[p]) = "register"
  /\ registered' = registered \cup {p}
  /\ UNCHANGED <<inbox, waiting, asking>>

(* newQcopChannel: the announcement reaches the process itself too *)
Registered(p) ==
  /\ Head(link[p]) = "register"
  /\ registered' = registered \cup {p}
  /\ inbox' = IF IsAlive(p)
              THEN [inbox EXCEPT ![p] = Append(@, "newChannel")] ELSE inbox
  /\ UNCHANGED <<waiting, asking>>

Unregistered(p) ==
  /\ Head(link[p]) = "unregister"
  /\ registered' = registered \ {p}
  /\ UNCHANGED <<inbox, waiting, asking>>

(* appRaised(QString), the heartbeat *)
AppRaised(p) ==
  /\ Head(link[p]) = "appRaised"
  /\ waiting' = FALSE
  /\ asking' = FALSE
  /\ UNCHANGED <<inbox, registered>>

ReadLink(p) ==
  /\ Idle
  /\ link[p] # <<>>
  /\ link' = [link EXCEPT ![p] = Tail(@)]
  /\ Registered(p) \/ Unregistered(p) \/ AppRaised(p)
  /\ UNCHANGED <<history, file, requests, running, stopped, raising, pc, queue,
                 keep, counts>>

(* The SIGCHLD handler interrupts the launcher anywhere *)
SignalHandler(p) ==
  /\ pc[p] = "zombie"
  /\ pc' = [pc EXCEPT ![p] = "reaped"]
  /\ stopped' = stopped \cup {p}
  /\ UNCHANGED <<history, file, requests, running, registered, waiting,
                 asking, raising, link, inbox, queue, keep, counts>>

(* mutant: the box outlives the application *)
SigStoppedKeepsBox(p) ==
  /\ Idle
  /\ p \in stopped
  /\ stopped' = stopped \ {p}
  /\ running' = running \ {p}
  /\ waiting' = (waiting /\ p \notin running)
  /\ UNCHANGED <<history, file, requests, registered, asking, raising, process,
                 counts>>

SigStopped(p) ==
  /\ Idle
  /\ p \in stopped
  /\ stopped' = stopped \ {p}
  /\ running' = running \ {p}
  /\ waiting' = (waiting /\ p \notin running)
  /\ asking' = (asking /\ p \notin running)
  /\ UNCHANGED <<history, file, requests, registered, raising, process, counts>>

Launcher ==
  \/ ProcessQCop \/ RaiseExecute
  \/ \E p \in Pids : ReadLink(p) \/ SignalHandler(p) \/ SigStopped(p)

User ==
  \/ Execute \/ Raise
  \/ HeartbeatTimeout \/ AnswerYes \/ AnswerNo

(***************************************************************************)
(* A process of X                                                          *)
(***************************************************************************)
Goes(p, from, to) ==
  /\ pc[p] = from
  /\ pc' = [pc EXCEPT ![p] = to]

(* initApp: the channel is created, the launcher hears of it later *)
AppRegister(p) ==
  /\ Goes(p, "starting", "reading")
  /\ link' = [link EXCEPT ![p] = Append(@, "register")]
  /\ UNCHANGED <<history, file, requests, launcher, inbox, queue, keep, counts>>

(* mutant: the file is not truncated after it was read *)
ReadFileOnly(p) ==
  /\ queue' = [queue EXCEPT ![p] = @ \o file]
  /\ UNCHANGED file

(* processQCopFile *)
ProcessQCopFile(p) ==
  /\ queue' = [queue EXCEPT ![p] = @ \o file]
  /\ file' = <<>>

(* initApp: an application started without a message stays *)
AppReadFile(p) ==
  /\ Goes(p, "reading", "ready")
  /\ ProcessQCopFile(p)
  /\ keep' = [keep EXCEPT ![p] = file = <<>>]
  /\ UNCHANGED <<history, requests, launcher, link, inbox, counts>>

(* exec() *)
AppExec(p) ==
  /\ Goes(p, "ready", "draining")
  /\ UNCHANGED <<history, file, requests, launcher, link, inbox, queue, keep,
                 counts>>

(* mutant: a stack instead of a queue *)
TakeLast(p) ==
  /\ queue[p] # <<>>
  /\ delivered' = Append(delivered, queue[p][Len(queue[p])])
  /\ queue' = [queue EXCEPT ![p] = SubSeq(@, 1, Len(@) - 1)]

(* sendQCopQ: the head is dequeued and sent *)
TakeNext(p) ==
  /\ queue[p] # <<>>
  /\ delivered' = Append(delivered, Head(queue[p]))
  /\ queue' = [queue EXCEPT ![p] = Tail(@)]

(***************************************************************************)
(* pidMessage.  raise() makes the application stay and answers with a      *)
(* heartbeat.  Any other message may make it stay; if that is news, it may *)
(* be answered with a heartbeat as well.                                   *)
(***************************************************************************)
Deliver(p) ==
  /\ pc[p] \in Serving
  /\ TakeNext(p)
  /\ \E k \in {keep[p], TRUE}, beat \in BOOLEAN :
       /\ IF sent[Head(queue[p])] = "raise" THEN k /\ beat
          ELSE beat => k /\ ~ keep[p]
       /\ keep' = [keep EXCEPT ![p] = k]
       /\ link' = IF beat THEN [link EXCEPT ![p] = Append(@, "appRaised")]
                  ELSE link
  /\ UNCHANGED <<sent, lost, file, requests, launcher, pc, inbox, counts>>

(* QPEProcessQCop() and newChannel(QString) *)
AppEvent(p) ==
  /\ pc[p] \in Serving
  /\ inbox[p] # <<>>
  /\ inbox' = [inbox EXCEPT ![p] = Tail(@)]
  /\ ProcessQCopFile(p)
  /\ UNCHANGED <<history, requests, launcher, pc, link, keep, counts>>

Quiet(p) == queue[p] = <<>> /\ inbox[p] = <<>>

(* exec(): the queue is sent; without a reason to stay, look once more *)
AppDrained(p) ==
  /\ queue[p] = <<>>
  /\ Goes(p, "draining", IF keep[p] THEN "loop" ELSE "events")
  /\ UNCHANGED <<history, file, requests, launcher, link, inbox, queue, keep,
                 counts>>

(* exec(): "closing" is announced unless a message came after all *)
AppLooked(p) ==
  /\ Quiet(p)
  /\ Goes(p, "events", IF keep[p] THEN "loop" ELSE "lastEvents")
  /\ UNCHANGED <<history, file, requests, launcher, link, inbox, queue, keep,
                 counts>>

(* hideOrQuit, tryQuit: processEvents and then quit *)
UserClose(p) ==
  /\ queue[p] = <<>>
  /\ Goes(p, "loop", "lastEvents")
  /\ UNCHANGED <<history, file, requests, launcher, link, inbox, queue, keep,
                 counts>>

(* the last processEvents is over; keep_running is not asked again *)
AppLeave(p) ==
  /\ Quiet(p)
  /\ Goes(p, "lastEvents", "leaving")
  /\ UNCHANGED <<history, file, requests, launcher, link, inbox, queue, keep,
                 counts>>

(* ~QPEApplication and exit *)
AppExit(p) ==
  /\ pc[p] = "leaving"
  /\ Die(p)
  /\ UNCHANGED <<requests, launcher, counts>>

(* The process crashes, or there is no such program *)
AppCrash(p) ==
  /\ IsAlive(p) /\ crashes < MaxCrashes
  /\ crashes' = crashes + 1
  /\ Die(p)
  /\ UNCHANGED <<requests, launcher, commands>>

AppStep(p) ==
  \/ AppRegister(p) \/ AppReadFile(p) \/ AppExec(p)
  \/ Deliver(p) \/ AppEvent(p)
  \/ AppDrained(p) \/ AppLooked(p) \/ AppLeave(p) \/ AppExit(p)

Next ==
  \/ Send
  \/ Launcher
  \/ User
  \/ \E p \in Pids : AppStep(p) \/ UserClose(p) \/ AppCrash(p)

(***************************************************************************)
(* The launcher and the processes of X serve their sockets; nobody has to  *)
(* send, to close a window or to crash.                                    *)
(***************************************************************************)
Fairness ==
  /\ WF_vars(ProcessQCop)
  /\ WF_vars(RaiseExecute)
  /\ \A p \in Pids :
       /\ WF_vars(ReadLink(p))
       /\ WF_vars(SignalHandler(p))
       /\ WF_vars(SigStopped(p))
       /\ WF_vars(AppStep(p))

Spec == Init /\ [][Next]_vars /\ Fairness

(***************************************************************************)
(* Properties                                                              *)
(***************************************************************************)
Statuses == Alive \cup {"none", "zombie", "reaped"}

(* What is in the file, in the queues and in the histories was sent *)
MessagesOK ==
  /\ sent \in Seq(Kinds)
  /\ delivered \in Seq(1 .. Len(sent))
  /\ lost \subseteq 1 .. Len(sent)
  /\ file \in Seq(1 .. Len(sent))
  /\ queue \in [Pids -> Seq(1 .. Len(sent))]

LauncherOK ==
  /\ requests \in Nat
  /\ running \subseteq Pids \cup {NoPid}
  /\ registered \subseteq Pids /\ stopped \subseteq Pids
  /\ waiting \in BOOLEAN /\ asking \in BOOLEAN /\ raising \in BOOLEAN
  /\ commands \in 0 .. MaxCommands /\ crashes \in 0 .. MaxCrashes

ProcessesOK ==
  /\ pc \in [Pids -> Statuses]
  /\ link \in [Pids -> Seq({"register", "unregister", "appRaised"})]
  /\ inbox \in [Pids -> Seq({"process", "newChannel"})]
  /\ keep \in [Pids -> BOOLEAN]

(* The type of every variable; above all, no request of the launcher is    *)
(* consumed that no sender made (AppLauncher::received).                   *)
TypeOK == MessagesOK /\ LauncherOK /\ ProcessesOK

(* At most one process of the application runs at any time, whatever the   *)
(* launcher believes while the old one is on its way out (isRunning).      *)
OneProcess == \A p, q \in Pids : IsAlive(p) /\ IsAlive(q) => p = q

(* The messages still under way: those X has read, then those in the file *)
Owner == {p \in Pids : queue[p] # <<>>}
UnderWay == IF Owner = {} THEN file
            ELSE queue[CHOOSE p \in Owner : TRUE] \o file

Mailbox == INSTANCE QCopMailbox WITH underWay <- UnderWay

(* Every step of senders, launcher and processes is a step of one mailbox  *)
(* or none at all: messages reach the application from the head of one     *)
(* queue, and die from its head when a process does (qcopq and the file).  *)
ImplementsMailbox == Mailbox!Spec

(* Messages reach the application in the order they were written to the    *)
(* file, none twice, and none is dropped but those a process had read and  *)
(* not handled when it died (processQCopFile, sendQCopQ).                  *)
InOrderOnce == Mailbox!InOrderOnce

(* The launcher does not ask to kill an application it awaits a heartbeat  *)
(* from, nor one that it knows to be gone (timerEvent, sigStopped).        *)
AsksAboutRunning == asking => ~ waiting /\ running # {}

(* The number of processes of X that the launcher has seen ending *)
Ended == Cardinality({p \in Pids : pc[p] = "reaped"})

(* No message is overlooked: while the launcher has yet to act on it, a    *)
(* message in the file will be read, or the process it was left to ends,   *)
(* or the vfork that was to start one fails; in particular the one that    *)
(* comes between the first look into the file and the registration of the  *)
(* channel (initApp, newChannel(QString)).                                 *)
NotOverlooked ==
  \A m \in Messages, n \in 0 .. MaxPids - 1 :
    (m \in Elems(file) /\ requests > 0 /\ Ended = n)
      ~> (m \notin Elems(file) \/ Ended > n \/ NoPid \in running)

(* "The message is delivered even if the application is not yet running    *)
(* (the application is run and the message is then sent)" (docs/qcop.doc). *)
EveryMessageDelivered ==
  \A m \in Messages :
    (m \in Elems(file)) ~> (m \in Elems(delivered) \cup lost)
=============================================================================
