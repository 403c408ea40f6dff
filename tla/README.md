# Verification of OPIE in TLA+

OPIE is a desktop environment for handhelds: a launcher process that is also
the window server, applications that are started and reused by it, and
libraries (`library`, `libopie2`) that all of them link. This directory holds
TLA+ modules of the parts of it in which processes, files and timers meet, the
configurations TLC checks them with, and theorems the TLA+ proof system TLAPS
checks for every value of their constants. Paths below are relative to `src/`.

`PROJECT.json` maps every definition to the lines it stands for and lists the
runs, the hazards, the disagreements found and the theorems.

## 1. Inventory

### Modelled

| part | state | operations | what is hard |
|---|---|---|---|
| **Alarm server** `library/alarmserver.cpp` | list of alarms, pointer to the nearest, a Qt timer, `/var/run/resumeat`, the save file and its `.new` | `addAlarm`, `deleteAlarm` with wildcards, the timer's event, `saveState`, `initialize` | crashes between the calls of a save, timers that cannot cover the time to the alarm, a clock that is set back, a deletion loop that restarts timers while it removes items |
| **Message delivery** `library/qcopenvelope_qws.cpp`, `library/qpeapplication.cpp`, `core/launcher/applauncher.cpp` | the spool file `/tmp/qcop-msg-X`, `runningApps`, heartbeats, the kill box, `qcopq`, `keep_running` | sending, `processQCop`, `execute`, `raise`, reaping, reading the file, draining the queue, leaving | five kinds of party with no common clock; an application that is starting, leaving or dead while messages for it are under way |
| **Address book store** `libopie2/opiepim` (`OPimContactAccess`, `OPimAccessTemplate`, `OPimCache`, XML backend) | list, `m_changed`, journal, cache, the shared `addressbook.xml` and its `.new` | `load`, `reload`, `add`, `replace`, `remove`, `find`, `clear`, `save`, destruction | several applications write one file whole; crashes inside a save; a journal read after the file; a cache in front |
| **Child processes** `libopie2/opiecore/oprocess.cpp`, `oprocctrl.cpp` | the list of objects, `runs`, `pid_`, a pipe written by the SIGCHLD handler, a delayed clean-up timer | `start` in three modes, `detach`, destruction, the handler, reading the pipe, the timer | the handler runs between any two instructions of `start`; signals coalesce; others in the program wait for children of their own |
| **`opiealarm`** `core/opiealarm/opiealarm.c` | the pid file, `/var/run/resumeat`, the hardware clock | an instance at each suspend and at each resume, with a child that outlives it | instances that kill each other by a file name, a parent that waits for a signal, a device that sleeps in between |
| **PIM change log** `libopie2/opiepim/backend/opimchangelog_sql.cpp` | tables `changelog` and `peers`, `m_peersSynced` of each application | logging of an addition, a change, a removal; synchronisation; purges | each statement is on its own; several applications and several peers, some far behind |
| **Launcher's process table** `core/launcher/applauncher.cpp`, `core/tools/quicklauncher` | `runningApps`, `qlPid`, `qlReady`, timers | `execute`, `isRunning`, `createQuickLauncher`, `newQcopChannel`, `sigStopped`, suspending the device | two SIGCHLD handlers in a chain, one of them for whatever child ends; a preloaded process that turns into an application |

How they interact: applications talk to each other, and to the launcher, only
through QCop messages. Messages to an application go through the spool file of
the second part. `AlarmServer` messages for `addAlarm` come in over the
launcher's own channel, and an alarm that goes off is sent with a
`QCopEnvelope`, so it is delivered by the second part. `flush()`, `reload()`
and `addressbookUpdated()` reach the third part as QCop broadcasts. The alarm
server tells `opiealarm` when to wake the device through the file `resumeat`;
the launcher suspends the device with an `OProcess`, whose SIGCHLD handler from
then on comes before the launcher's own.

Four parts of the system meet in `LauncherTable`, which composes the launcher,
the quicklauncher, the kernel's signals and what `ProcessControl` has of the
handler. The other models do not share variables: what one part asks of another
is an action that may happen at any time (`Send`, `AddAlarm`, `Reload`,
`SetAlarm`), or a child that others made (`Popen`).

What makes each part correct:

* alarm server: the nearest pointer is what a scan would find, a timer runs
  that goes off in time, none outlives the last alarm, the device is told to
  wake up early enough; whatever crash or failing call comes, the alarms are
  whole in the save file or in the new one, and but for a crash between the
  unlink of the one and the rename of the other a restart finds them; every
  alarm goes off in the end;
* message delivery: one process of an application at a time; messages in
  order, once, none dropped unless a process dies with it; none overlooked
  while the application starts; no question about an application that is gone;
* address book: nothing in memory is lost in a crash; the cache agrees with
  the list; what counts as unchanged is what was loaded or saved last, except
  after a save whose rename failed and after `clear()`; a save does not take away
  what others saved (it does: `contacts_others`);
* child processes: an exit is recorded once and noticed, a child of somebody
  else is left to him, no zombie stays;
* `opiealarm`: the device does not sleep before the clock is armed, and then
  with the clock armed; it is suspended again only after its alarm; a suspend
  ends; a child that waits can be killed, and a resume ends it, unless an earlier
  one handled its signal late (`opiealarm_late`);
* change log: a peer is told of every record it has an old version of, for
  every order of the statements of others; nothing is kept for nobody;
* process table: a living application is in the table under its name and runs
  once; a quicklauncher that counts as ready has had its channel; there is one,
  or its end is on its way to the launcher, or the next one is due, unless its
  `vfork` or `exec` failed or `OProcess` waited for it, which tells nobody.

### Not modelled

| part | state and operations | why not |
|---|---|---|
| screen saver and suspend vetoes (`core/launcher/screensaver.cpp`, `suspendmonitor.cpp`) | level, backlight, per-process vetoes | one level after the other by a timer; the vetoes are a set of names. Of what is left it comes first |
| `Config`, `FileManager` (`library`) | groups in memory, a cache, `.new` and rename | the scheme is that of the address book without a journal |
| other PIM backends: todo, datebook, memo in XML and SQL; vCard, vCal | lists, journals | each repeats the address book's scheme with differences in its fields; the log of the SQL ones is that of `ChangeLog` |
| recurrence of events (`opimrecurrence.cpp`) | none, an algorithm over dates | would be an operator of its own; nothing runs concurrently in it |
| synchronisation (`transferserver.cpp`, `qcopbridge.cpp`) | FTP sessions | mostly the protocol's text over sockets and dialogs |
| launcher window, applets, settings, PIM user interfaces, mail and network front ends, games, players | widgets | user interface; what they do to the services above are actions of the models |
| decoders, Qt build tools, translations, packaging | | vendored or not part of the running system. The translations under `i18n` (files with the suffix `ts`) are by far the most lines of the repository; they are tables of texts without behaviour, so no definition can stand for them |

## 2. Modules

| module | what it is |
|---|---|
| `AlarmBook` | abstract specification: a book of alarms that outlives the launcher |
| `AlarmServer` | the alarm server |
| `AlarmServerProofs` | theorems about it; that it implements `AlarmBook` |
| `MCAlarmServer` | values of its constants for TLC (crash points, symmetry) |
| `QCopMailbox` | abstract specification: the delivery of messages to one application is one queue |
| `QCopMailboxProofs` | its invariant, proved |
| `QCopDelivery` | senders, launcher, SIGCHLD handler and processes of one application |
| `QCopDeliveryProofs` | theorems about it; that it implements `QCopMailbox` |
| `MCQCopDelivery` | for TLC |
| `ContactStore` | the applications that have the address book open, and its files |
| `ContactStoreProofs` | theorems about it |
| `MCContactStore` | symmetry for TLC |
| `ProcessLife` | abstract specification: the life of an `OProcess` object, as the program sees it |
| `ProcessControl`, `ProcessControlProofs`, `MCProcessControl` | `OProcess` objects, their controller, and children |
| `OpieAlarm`, `OpieAlarmProofs` | instances of `opiealarm`, the hardware clock, the sleep of the device |
| `ChangeLog`, `ChangeLogProofs`, `MCChangeLog` | the change log of the SQL address book and those who use it |
| `LauncherTable`, `LauncherTableProofs` | the launcher's children: applications, quicklauncher, `apm`; both SIGCHLD handlers |

A definition whose comment begins with "mutant" is not part of a
specification: it is the code with a plausible bug (a dropped guard, a missing
reset), with which the property named in `PROJECT.json` is violated. That shows
that the property depends on the code.

### AlarmServer and AlarmBook

`list` is `timerEventList` as a function from the position an item was appended
at; positions only grow, so they are the order of the list and the identity of
an item. `nearest` is a position, as the pointer is. `timers` holds the times at
which the Qt timers go off. An alarm is a time and a `key`, which stands for
channel, message and data.

A handler is one action, with the restart of the timer that
`setNearestTimerEvent` does at its end: `AddAlarm`, `DeleteAlarm`,
`TimerEvent`. Each change ends in `saveState`, whose system calls are actions
of their own (`SaveEmpty`, `SaveOpen`, `SaveFails`, `SaveUnlink`,
`SaveRename`, `SaveRenameFails`), because a crash may come between any two;
nothing else runs in between, the launcher has one thread. `Crash` takes the memory away,
`Initialize` reads the save file. `Tick` and `SetClockBack` are the clock: Qt
moves its timers with it when it is set back.

`DeleteAlarm` translates the loop as it is, with an iterator that a removal
moves on and `++it` moves on once more (`LoopRemoves`): after a match the next
item is not compared. It also keeps the timers that the loop starts on its way.

`AlarmBook` says what clients get from all this. A request or an alarm that is
due begins a change of the book, and the change takes effect as a whole
(`Commit`) or not at all (`Abort`). Mapped to it, the book is what a restart
would find in the save file, `next` what the list will leave there, and a change
is under way while the save has yet to unlink the old file. `sent`, a history
variable, is the message of the handler under way, so that the book sends the
earliest alarm and nothing that is not due. A cancellation takes at least one of
the matches and nothing else: the loop promises no more.

Abstracted: the contents of messages, the format of the file, `atd` (the build
without `USE_ATD` is modelled), a write of the new file that is cut short (of
the calls of a save, `open` and `rename` may fail).

### QCopDelivery and QCopMailbox

One application X and at most `MaxPids` processes of it. A message is its place
in the order of the writes to the file. The file is locked while it is appended
to, or read and truncated: each is one step. What a process writes to the
launcher's socket (`link`: channel registered and unregistered, `appRaised`)
and the launcher to it (`inbox`: `QPEProcessQCop`, `newChannel`) arrives later,
in order; a request of a sender (`requests`) comes at any time.

`pc` follows a process: `starting`, `reading` (the channel is being
registered, then `initApp` looks into the file), `ready`, `draining`
(`sendQCopQ` of `exec`), `events` (the `processEvents` in which it looks once
more), `loop`, `lastEvents` (a window was closed, `tryQuit`), `leaving`,
`zombie` and `reaped`. `Deliver` takes the head of the queue wherever the
process serves events, nested loops included.

The launcher's handlers are `ProcessQCop`, `Execute`, `Raise` and
`RaiseExecute`, `HeartbeatTimeout`, `AnswerYes`, `AnswerNo`, `ReadLink` and
`SigStopped`. `Raise` is two steps because it unlocks the file before it calls
`execute`, and X may read it in between; `Idle` keeps the other handlers out
of the middle of it. `SignalHandler` interrupts the launcher anywhere.
A vfork that fails leaves an entry `-1` in `runningApps` (`NoPid`).

Left out: the document that `execute()` hands to a running application
(`setDocument(QString)`, `applauncher.cpp:510`, a second message written to the
spool file behind the caller's; all calls here are without one), the
quicklauncher, built-in applications, windows, the style, the "closing" notification, `QProcess`, a launcher that restarts (the window
server and with it every application ends), and a spool file that cannot be
opened.

### ContactStore

Each application has a front end with a cache, a list, `m_changed`, and a
journal of its own; `file` is the address book all of them share and `newFile`
its `.new`. The calls of one application come one after the other. `save()` is
four steps (`SaveWrite` or `SaveFails`; `SaveRename` or `SaveRenameFails`;
`SaveEnd`), between which other applications run and the application itself may
die. The destructor's save is the same with `closing`.

`LoadDatabase` is `load()` as it is: `applyAction` calls `add()`, so what was
loaded counts as changed; the journal is read after the file, and because
`loadXml` does not know the attribute that `updateJournal` writes the action
into, each record of it adds its contact (`Replayed`). So a uid may be in the
list twice; `Found` is the one the dictionary gives, the later.

Three history variables say what an application knows of the file: `base` is
what the file held when it last read it, or its own list once its rename has put
that there; `missed` is set when its last save ended without its list in the
file; `cleared` when it called `clear()` since it last read or saved. `Add` takes
a uid that is listed already, as the code does.

Abstracted: fields other than the uid are one value; the custom field `action`
that stays on replayed contacts; the eviction of the cache (100 entries), which
only makes `find()` ask the backend; applications without a name, which keep no
journal; two applications in the middle of *writing* one `.new` (the file is
written in one step, so torn contents do not occur); access objects that are
used without `load()`; queries and sorting, which change nothing.

### ProcessControl and ProcessLife

`created` are the objects there are, `list` the controller's `processList`;
`runs`, `pid` and `mode` are the members of each. `pc` and `cur` say where the
main thread is inside `start()`: before the fork, between `fork()` and the
assignment of `pid_`, after a fork that failed, reading the byte that tells of a
failed exec, and blocking. A child is `forked`, `failing` (its exec did),
`running`, a `zombie` or `reaped`; `others` are children of `popen()`, which
waits for them itself (`Pclose`).

`SigCHLDHandler` may run at any of these points. It waits for the pid of each
object that runs; with a `pid_` of 0, in the window after `fork()`, that is any
child of the process group (`AnyDead`; `away` are those that left the group).
Its records are a set, since the pipe holds each pid once and pids do not come
back in the model; the record `{0, 0}` is `delayed`. A blocking `start()` reads
the pipe itself (`ReadsPipe`) but serves no timer.

`ProcessLife` has none of this: an object is idle, starting, running, its child
has ended, or it is idle again because the program was told (`Noticed`, which is
`processHasExited`). That comes once for each start, after the end, and inside
no `start()` but one that waits for it. Mapped to it, an object is starting until
`start()` knows whether the exec succeeded, whatever the handler has found by
then; an object that was detached is watched no more, so nothing is told of it.

Abstracted: data to and from the children, `kill()`, privileges, the order of
records, pids that are used again, an older handler to call (`LauncherTable`
has one).

### OpieAlarm

`apmd` runs one instance at a suspend and one at a resume and waits for it:
`script` is the event, `pc` the parent's place in `main()`, `kpc` that of each
child, with `job` for its mode. System calls that matter to the other processes
are steps of their own; `Goes` keeps a child from moving while the device is
asleep. `sig` is a pending SIGUSR2; SIGUSR1 to the parent is part of the step
that sends it. `SigHandlerChild` removes the pid file whosever it is, as the
code does.

It meets the alarm server in `resumeat` (`SetAlarm` is `writeResumeAt`, with the
guard that `WakeUpCoversAlarm` of `AlarmServer` gives: a time that is not over)
and the launcher in `SuspendRequest` (`apm --suspend`).

A call on the clock that fails is `RtcFails` before the sleep (the alarm may have
been set by the first of two calls), and `ReadRtcFails` or `SwitchOffFails` in
the child that waits for the clock. The parent installs the handler of
SIGUSR1 after the fork (line 87): a signal before that ends it as well, only with
another status, so the step is the same.

Abstracted: the option `-f`, which corrects the system clock; what `apmd` makes
of the script's status (it is taken to go on); pids that are used again; `late`
and `fails` are history that the properties use to name what they exclude.

### ChangeLog

Every SQL statement is a step, for nothing opens a transaction. `db` has a
version of each record; `log` and `rows` are the tables; `synced` is
`m_peersSynced`, which each application reads once. `pc` is the statement of a
change an application comes to next, `phase` the one of the synchronisation.
`copy` is what a peer has, `got` what it has read in the synchronisation under
way. A statement on the log that finds the database busy, an `entryExists()`
that does (`FindFails`), and a peer's new row or the purge after it that does
(`SyncBusy`) are modelled. `hole` are the pairs of a peer and a record the code itself gives up on,
collected where it happens: a change before anybody synchronised, `clear()`, a
statement that failed, two applications that change one record at once, a uid
that is used again, what others change between a peer's read and its new number.
`ChangesAreTold` says that these are all.

Abstracted: one application synchronises, one peer at a time, which reads before
it writes; its list of uids and the records are read in one step; what `find()`
returns as the type of a change; `clear()` and the reload after it are one step.
Of the statements that fail, left out are those on the data, the SELECT of
`peersSynced()`, both of `purge()`, and the DELETE of a peer's row in
`syncDone()`, after which the INSERT leaves the peer with two rows. A SELECT of
the peer's number that fails is a slow synchronisation, which is modelled.

### LauncherTable

`runningApps` is a function on the keys, `-1` among them, which is what a
`vfork()` that failed leaves. `life` and `what` are what the kernel knows of each
child; `Dies` may come at any time. `regs` are channels the window server has
opened and the launcher has yet to hear of, `events` the posted
`AppStoppedEvent`s, `timers` the single shots of `createQuickLauncher()`.
`execute()` is `ExecuteQuick` or `ExecuteFork`, each with the entry that
`isRunning()` drops before (`Dropped`).

Before the first suspend the launcher's handler is called directly, afterwards
by `OProcessHandler` when that has found no child of its own. `suspend` is where
`apmSuspend()` is: before `pid_` is assigned (`fork`), or in the loop that serves
events until `apm` has ended (`wait`). `DelayedChildrenCleanup` waits for every
child, and tells nobody but `OProcess`.

Four history variables name what the code cannot recover from: `stolen` are the
children `OProcess` waited for, whose end the launcher never hears of; `unmade`
says that the last `vfork()` of a quicklauncher failed; `mistaken` that an event
without a process (pid 0) was taken for the end of a quicklauncher; `taken` that
the launcher's handler waited for the child of `apmSuspend()`.

It complements `QCopDelivery`, which has one application with its messages and
no other children. Abstracted: the launcher's own entry, built-in applications,
messages to and raising of applications, equal events (a set), one suspend at a
time, pids that are used again.

## 3. What TLC checks

All runs have at least 100 distinct states. "pass" means the whole state space
was searched. "type" is the module's type invariant. All of them are
proved, and only that of `LauncherTable` is also in a run.

| run | bounds | shows |
|---|---|---|
| `alarm_list` | 3 seconds, 2 keys, 3 alarms, timers of 1 s, one clock change, one crash anywhere, open and rename may fail | nearest pointer, one alarm per parameters, alarm timed, no timer without alarm, wake-up time, the alarms stay on the disk, a named deletion deletes |
| `alarm_live` | 3 seconds, 2 keys, 2 alarms, one clock change, two crashes, none between unlink and rename, no failing call | refinement of the book; every alarm goes off or is deleted |
| `alarm_crash` | 2 alarms, one crash anywhere | **violated**: after a crash between unlink and rename a restart finds no alarm |
| `qcop` | 2 messages, 2 processes, 1 command, one crash or failing vfork | one process, order, kill box; refinement of the mailbox; no message is overlooked |
| `qcop_lost` | 2 messages, 2 processes | **violated**: a message for an application on its way out stays in the file |
| `contacts` | 2 applications, 1 uid, 2 values, 2 changes, a clear, a failing rename, a crash | cache, kept through crash, unchanged is saved |
| `contacts_others` | 2 applications, 2 uids | **violated**: another application's contact is overwritten |
| `proc_control` | 2 objects, 2 children (of objects or of `popen`), a failing fork or exec, all modes | no exit lost, stopped is dead, the handler spares others; refinement of the life of an object; every exit noticed, no zombie stays |
| `opiealarm` | 1 second, 3 children, one failing call, lead 0, resuspend time 1 | asleep when safe, children can be killed, the sleep is armed, resuspend after an alarm; a suspend ends, a resume ends the children |
| `opiealarm_late` | 3 children, no failing call | **violated**: a child that handles SIGUSR2 late unlinks the pid file of the next one, which nobody can kill then |
| `changelog` | 2 applications, 2 peers, 2 uids, 2 changes, 2 synchronisations, a clear or purge, a crash or failing statement | changes are told, the next number is new, only needed entries are kept, a synchronisation gives what the database has |
| `launcher_table` | 2 applications, one of them a plugin, 3 children, a failing call, a suspend | type, one process, a ready quicklauncher has had its channel; a quicklauncher is there, or its end on its way, or the next one due, but for the named failures; no zombie and no suspend stays |

Why the bounds are enough to be interesting. Alarms: three alarms are needed for
an iterator to skip one and still remove others, two times and a third second
for an alarm in the past, one due and one beyond the reach of a timer (`MaxSecs`
is below `MaxTime`). Messages: two, so that one can be read and one still be in
the file; two processes, so that one can be leaving while the next starts; one
crash. One command is a `raise` or an `execute`; two, so that a `raise` meets
another (a million states), and three processes (for `NotOverlooked`) were
checked once. Contacts: two applications overlap their saves, and one uid is
there twice after a replay; one application with two uids, three changes and two
crashes, whose journal holds an addition, a replacement and a removal and is
replayed twice, was checked once. Child processes: two, so that the handler can
meet one while it looks for the other. `opiealarm`: three children are a
suspend's, the resuspend child of its resume, and that of the next suspend,
which may find the earlier ones alive; a resume for which no child is left goes
no further. With two seconds and a lead of one, so that an alarm may be nearer
than the lead, all six properties were checked once without a failing call, and
the invariants with one (1.4 million states). Change log: two peers, one of
which is ahead of the other; two changes, so that one record is added and
removed, or two differ; larger bounds (3 changes and 2 synchronisations with a
clear, or with a failure) were checked once, with the same result. Process
table: three children are an application, `apm` and a quicklauncher; four
children (12 million states) were checked once for the invariants: only then
does a handler that found nobody leave a second quicklauncher, so `mistaken` in
`OneQuickLauncher` is needed from there on. The theorems below say that for most
of the properties the bounds do not matter.

Bounds are guards on counters (`adds`, `commands`, `changes`, `clears`,
`failures`, `crashes`, ...); reading, loading, saving and delivering are not
bounded. Symmetry is used for keys, applications, uids and values, only in runs
that check invariants: the specifications treat them alike, and `CHOOSE` is
only applied where there is one candidate.

Deadlock is not checked in the runs of `QCopDelivery`, `ProcessControl`,
`ChangeLog` and `LauncherTable`: when nobody sends, changes or starts anything
more and every process has ended there is nothing left to do. In the other
modules it is checked: a server that is up always accepts a deletion, an open
address book a reload, and mains can always be plugged.

### Fairness

`AlarmServer`: the event loop serves an expired timer that stays expired
between handlers (strong fairness of `TimerEvent`, since handlers come in
between and disable it for a moment), a handler that has begun ends, time
passes, and the launcher is started again after it dies, as the session does.
Nobody has to add or delete an alarm.

`QCopDelivery`: the launcher reads its sockets and posted events, a process of
X that serves its event loop goes on. Nobody has to send, close, crash or
answer a question; a process that hangs is outside the model, the kill box is
there for it but nobody has to answer it.

`ContactStore` and `ChangeLog` have no liveness property: nobody has to save or
to synchronise.

`ProcessControl`: `start()` goes on, a signal is delivered, the event loop
serves the pipe and the timer, which other records start anew (strong fairness
of the timer and of each record). The two properties speak of programs that keep
coming back to the event loop. No child has to end.

`OpieAlarm`: processes run while the device is awake, and `apmd` goes on when its
instance has ended. A signal is delivered in the end although the device may
sleep now and then (strong fairness). Nobody has to press a button, and the
clock need not tick.

`LauncherTable`: signals are delivered, and the event loop serves what it has.
One weak fairness for the whole loop is enough, because every step of it uses
an event, a record or a timer up. Nobody has to start an application or to
suspend, and no child has to end.

## 4. What is proved

TLAPS checks 7711 obligations. The constants are arbitrary, within the named
assumption of each module (bounds are naturals, `None` is not a list).

**AlarmServerProofs.** `TypeCorrect`; `NearestAlwaysEarliest`, from the lemma
that adding an alarm moves the first one only if the new one is strictly
sooner, and that a scan gives the first one; `AlarmAlwaysTimed`,
`TimerAlwaysHasAlarm` and `WakeUpAlwaysCovers` together, since each leans on
the others (`Timed`) and on `NearestIsEarliest`; `AlwaysOneAlarm`, whose
invariant has to cover the two files as well, because a restart reads one of
them; from it `AlwaysDeletesWhatIsNamed`: the item the loop skips would have to
be a second match; `AlarmsAlwaysOnDisk`, for every crash and failing call: the
invariant (`DiskInv`) says where the alarms are at each step of a save. It does
not say that a restart finds them: `initialize` never looks into the new file,
which is what `alarm_crash` shows.

`ServerImplementsBook`, under the assumptions that no crash comes between unlink
and rename and that the calls of a save do not fail: every step of the server is
one of the book or a stutter. It takes all the earlier invariants (`BookInv`):
types, so that an appended item is a new one; `NearestIsEarliest`, so that what
is sent is the earliest; one alarm per parameters, in list and files, so that a
removed item is gone from the set; and where the files are in a save. The unlink
is the commit point: before it a crash leaves the old book, after it the new one.

**QCopMailboxProofs, QCopDeliveryProofs.** `TypeCorrect`; `AlwaysOneProcess`
from `Lives`: an entry of `runningApps` is dropped only when its process is
reaped, so the process of X is in the table as long as there is one, and what
was read is in the memory of a living process. `AlwaysAsksAboutRunning` from
`Asking`. `DeliveryImplementsMailbox`: with the refinement mapping "what the
living process holds, then the file", every step is a write, a delivery, a loss
from the head, or leaves the mailbox alone; `AlwaysInOrderOnce` follows from
the proof of the abstract module.

**ContactStoreProofs.** `TypeCorrect`; `CacheAlwaysAgrees`, from lemmas on
which contact is found after an append or a removal; `AlwaysKeptThroughCrash`
from `Kept`: what is in memory is in what the application knows of the file or
in its journal, and when the journal goes, it is in what the file was replaced
by. `UnchangedAlwaysSaved`, for any number of applications, crashes, failing
renames and calls of `clear()`: with `m_changed` reset the list is what was loaded
or saved last, or one of the two cases in which the code breaks this has
happened, and the property names them.

**ProcessControlProofs.** `TypeCorrect`, `StoppedAlwaysDead`, `ExitNeverLost`,
`HandlerAlwaysSparesOthers` and `ControlImplementsLife`. The invariant says of each point of `start()` what
is known of `pid_`, `runs` and the child, and that a child that was reaped and
whose object still runs has its record in the pipe. For the refinement it adds
`Apart`: no two objects have one child, so the end of a child, and the record of
it, is a step of one object at most. The refinement does not say that an end is
noticed at all; `ExitNeverLost` and, for a program that comes back to its event
loop, TLC's `ExitNoticed` do.

**OpieAlarmProofs.** `TypeCorrect`, `AlwaysAsleepWhenSafe`,
`WaitingAlwaysKillable`, `SleepAlwaysArmed`, `ResuspendAlwaysAfterAlarm`, from
`Structure` (where parent and child may be together, whose pid the file has), on
which the invariants about the armed clock and about the one living child lean.

**LauncherTableProofs.** `TypeCorrect`, `AlwaysOneProcess`,
`ReadyAlwaysListening`, `AlwaysOneQuickLauncher`, proved together with
`Structure`: the quicklauncher's pid is that of a child which is no application,
channels and events are those of children that have had or ended their life, so
late news is never about a new child. `AlwaysOneQuickLauncher` says of a pid in
`qlPid` that its process lives, or is a zombie, or its end is an event, or
`OProcess` waited for it. Steps of the children and of the handlers
share one lemma (`TableKept`): whatever they do to children, the table they leave
alone still fits.

**ChangeLogProofs.** `TypeCorrect`, `ChangesAlwaysTold`, `NextAlwaysNew`,
`OnlyNeededKept` and `SyncedAlwaysRight`, for any number of applications, peers
and records. The properties are proved together, since none is inductive alone;
the invariant adds

* `Numbers`: an entry's number and the changes under way are at most the changes
  made, so the next number is within its type;
* `RowHasEntry`: the entry a peer's number was taken from is still there, unless
  the peer's records are all holes. Numbers are those of the largest entry plus
  one, so this is what keeps a new entry above every peer;
* `TellingInv`: for a record the code does not give up on, at most one
  application changes it at a time; an addition logged after a peer's number, or
  under way, is of a record the peer has no copy of, so that dropping the entries
  of a record added and removed in between leaves the peer right; a removal under
  way finds the record gone; and what a peer has read is the database still,
  unless somebody else has been at the record (`missed`) in the meantime;
* `Alone`: where the application that synchronises may be.

The largest number is the maximum of a finite set; that it exists is proved by
well-foundedness (`Smallest`, `MaxIsMaximum`). Each action has its lemma; those
that enter, drop or look for entries share `EnteredKeeps` and `DroppedKeeps`, and
`RowRemoved` says that a peer has no row between the two statements of
`syncDone()`.

**Only model-checked.** Liveness (`AlarmsGoOff`, `NotOverlooked`, `ExitNoticed`,
`ZombiesReaped`, `ZombiesEnd`, both `SuspendEnds`, `ResumeEndsChildren`): TLAPS
does not handle `ENABLED` and fairness. Every other property of a passing run is
a theorem. The properties of the four violated runs are false, so TLC's traces are
all there is to them.

## 5. Where code and documentation disagree

The runs marked violated end in a trace; `PROJECT.json` quotes the text the
code disagrees with:

* `alarm_crash`: a crash between `unlink` and `rename` in `saveState`, or a
  rename that fails, leaves the alarms in `saveFile.new`, which `initialize` never
  reads (`library/alarmserver.cpp:121`).
* `qcop_lost`: a message for an application on its way out stays in the spool file
  until something else starts it (`applauncher.cpp:521`, `400`).
* `contacts_others`: a save writes over what another application has saved since
  (`ocontactaccess.cpp:116`).
* `opiealarm_late`: a child that handles SIGUSR2 only after the next instance has
  written the pid file removes that file (`opiealarm.c:52`); nobody can kill the
  next child then, which keeps the clock busy for the suspends to come.

The models have these as well; no run is spent on them, and the properties
exclude them by name or by a bound:

* `AlarmServer`: a wildcard deletion leaves a match that stands
  right behind one it removed, because the iterator moves twice (line 458).
* `ContactStore`: the journal's attribute `action` is not known to the loader
  (`ocontactaccessbackend_xml.cpp:594`, `458`), so after a crash removed contacts
  are back and replaced ones are there twice. A rename that fails is followed by the
  removal of the journal and a return value of true (line 110), although a save
  "is more a commit" (`opimaccesstemplate.h:289`): the changes are in no file.
  `clear()` resets `m_changed`, so a `save()` after it writes nothing (line 242).
  `UnchangedIsSaved` names both (`missed`, `cleared`). On first use, with no file
  yet, `reload()` drops what was added.
* `ProcessControl`: a child of a blocking `start()` that ends before `pid_` is
  assigned, while another zombie is there for `waitpid(0)`, is found by nobody:
  `start()` reads the pipe in a loop and the clean-up timer never fires
  (`oprocess.cpp:315`, `410`).
* `OpieAlarm`: an alarm that is set after the child has read `resumeat`, or less
  than five seconds ahead, finds the device asleep (`opiealarm.c:265`); a child
  that cannot write the pid file leaves its parent waiting, and the device never
  suspends (line 119).
* `ChangeLog`: what another application logs between a peer's read and
  `syncDone()` is never told (`opimchangelog_sql.cpp:230`), nor what an
  application changes that was open before the first synchronisation (line 80), nor
  a change whose entry a crash, a busy database, `clear()` or `purge()` keeps out of
  the log, nor some of what two applications do to one record at once, or to a uid
  that is used again (line 268). `ChangesAreTold` and `SyncedIsRight` exempt the
  records this happened to (`hole`, `missed`) and no others.
* `LauncherTable`: the launcher's chained handler may take the child of
  `apmSuspend()`, whose loop then runs for ever (`oprocctrl.cpp:173`); before the
  first suspend two children that end together leave a zombie, which
  `isRunning()` takes for a running application (`applauncher.cpp:238`, `428`);
  the answer 0 of `waitpid` counts as the end of a quicklauncher while there is
  none, and two come (line 314, `mistaken`). A quicklauncher `OProcess` waited for
  (`oprocctrl.cpp:163`, `253`) leaves its pid in `qlPid`: no event comes, no timer
  starts, and there is none for good (`stolen`).

Smaller hazards, seen while reading and in no property: a fork that fails
leaves `pid_` at -1, which a later `kill()` signals (`oprocess.cpp:359`); the
handler writes to a blocking pipe (`oprocctrl.cpp:166`); a message whose spool
file cannot be opened overtakes those waiting (`qcopenvelope_qws.cpp:127`), and a
launcher that starts again removes the spool (`launcher/main.cpp:58`);
`Global::invoke` sends `raise()` without the lock (`global.cpp:541`); a failed
rename in `Config::write` leaves the file as it was (`config.cpp:720`); `clear()`
of the SQL backend logs nothing (`ocontactaccessbackend_sql.cpp:349`), a crash between data and log leaves a
change nobody is told of (line 390), and `find()`
of the change log takes any row of a join (`opimsql.cpp:145`); a resuspend child
leaves its pid file behind (`opiealarm.c:410`).

## 6. Plan

Done: the core (alarm server, message delivery, address book) and its proofs;
child processes, `opiealarm`, the change log and the process table, each with
proofs of its safety properties; the mailbox, the book of
alarms and the life of a child process as abstract specifications.

1. An abstract store that the backends of the PIM library all should implement,
   with `ContactStore` as one of them.
2. Screen saver and suspend vetoes; `Config` and its cache; recurrence of events
   against a reference definition.

## 7. Running

    tlasany M.tla
    tlc -config X.cfg MCM.tla
    tlapm MProofs.tla

Each run of TLC takes between a second and two minutes on two cores.
