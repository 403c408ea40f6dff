--------------------------- MODULE ProcessControl ---------------------------
(***************************************************************************)
(* OProcess and OProcessController (libopie2/opiecore/oprocess.cpp and     *)
(* oprocctrl.cpp): how a program learns that its children have ended.      *)
(*                                                                         *)
(* The SIGCHLD handler waits for the children of the OProcess objects in   *)
(* its list and writes what it got into a pipe, which the event loop       *)
(* reads.  Children of others (popen) are left alone for a second and then *)
(* waited for by a timer.  The handler interrupts the main thread anywhere *)
(* but in the additions to the list and the removals from it, in           *)
(* particular between fork() and the assignment of its result to pid_.     *)
(***************************************************************************)
EXTENDS Integers, FiniteSets

CONSTANTS
  Objs,      \* OProcess objects a program has at a time
  Nobody,    \* no object
  MaxForks,  \* bound on the children
  MaxFails,  \* bound on the calls of fork() that fail
  Modes      \* the run modes the program uses

RunModes == {"DontCare", "NotifyOnExit", "Block"}

ASSUME ConstantsAssumption ==
  /\ {MaxForks, MaxFails} \subseteq Nat
  /\ Nobody \notin Objs
  /\ Modes \subseteq RunModes

(* The n-th child has pid n: no pid comes back within a behaviour. *)
Pids == 1 .. MaxForks

VARIABLES
  created,  \* the objects that exist
  list,     \* processList
  runs, pid, mode,  \* OProcess::runs, pid_ and run_mode
  pc,       \* where the main thread is
  cur,      \* the object whose start() the main thread is in, or Nobody
  forks,    \* children made so far
  life,     \* of each child: one of Lives
  others,   \* the children of popen()
  away,     \* the children in a process group of their own
  execFail, \* the byte that says so is in the pipe of start()
  sigchld,  \* a SIGCHLD is pending
  records,  \* pids whose records are in the pipe
  delayed,  \* a record {0, 0} is in the pipe
  timer,    \* delayedChildrenCleanupTimer runs
  fails

objects  == <<created, list, runs, pid, mode>>
thread   == <<pc, cur>>
children == <<forks, life, others, away, execFail>>
control  == <<sigchld, records, delayed, timer>>
vars == <<objects, thread, children, control, fails>>

Points == {"loop", "fork", "assign", "failed", "exec", "block"}

(* "forked": before its exec; "failing": after an exec that failed *)
Lives == {"none", "forked", "failing", "running", "zombie", "reaped"}

Zombies == {c \in Pids : life[c] = "zombie"}

Alive(c) == life[c] \in {"forked", "failing", "running"}

Dead(c) == life[c] \in {"zombie", "reaped"}

Init ==
  /\ created = {} /\ list = {}
  /\ runs = [o \in Objs |-> FALSE]
  /\ pid = [o \in Objs |-> 0]
  /\ mode = [o \in Objs |-> "NotifyOnExit"]
  /\ pc = "loop" /\ cur = Nobody
  /\ forks = 0
  /\ life = [c \in Pids |-> "none"]
  /\ others = {} /\ away = {} /\ execFail = FALSE
  /\ sigchld = FALSE /\ records = {} /\ delayed = FALSE /\ timer = FALSE
  /\ fails = 0

(***************************************************************************)
(* The program, between events                                             *)
(***************************************************************************)
(* init(), with addOProcess *)
New(o) ==
  /\ pc = "loop" /\ o \notin created
  /\ created' = created \cup {o}
  /\ list' = list \cup {o}
  /\ UNCHANGED <<runs, pid, mode, thread, children, control, fails>>

(* What is left of an object: a later one in its place begins with init() *)
Forgotten(o) ==
  /\ list' = list \ {o}
  /\ runs' = [runs EXCEPT ![o] = FALSE]
  /\ pid' = [pid EXCEPT ![o] = 0]

(* ~OProcess, with removeOProcess: it kills the child unless nobody cares *)
Delete(o) ==
  /\ pc = "loop" /\ o \in created
  /\ created' = created \ {o}
  /\ Forgotten(o)
  /\ mode' = [mode EXCEPT ![o] = "NotifyOnExit"]
  /\ LET killed == {c \in Pids : /\ runs[o] /\ mode[o] # "DontCare"
                                 /\ c = pid[o] /\ Alive(c)}
     IN /\ life' = [c \in Pids |-> IF c \in killed THEN "zombie" ELSE life[c]]
        /\ sigchld' = (sigchld \/ killed # {})
  /\ UNCHANGED <<thread, forks, others, away, execFail, records, delayed, timer,
                 fails>>

(* The child goes on, the object stays out of the list for good *)
Detach(o) ==
  /\ pc = "loop" /\ o \in created
  /\ Forgotten(o)
  /\ UNCHANGED <<created, mode, thread, children, control, fails>>

Forked(as) ==
  /\ forks < MaxForks
  /\ forks' = forks + 1
  /\ life' = [life EXCEPT ![forks + 1] = as]
  /\ UNCHANGED <<away, execFail>>

Popen ==
  /\ pc = "loop"
  /\ Forked("running")
  /\ others' = others \cup {forks + 1}
  /\ UNCHANGED <<objects, thread, control, fails>>

(* pclose(): waits for its own child *)
Pclose(c) ==
  /\ pc = "loop" /\ c \in others /\ life[c] = "zombie"
  /\ life' = [life EXCEPT ![c] = "reaped"]
  /\ UNCHANGED <<objects, thread, forks, others, away, execFail, control, fails>>

(***************************************************************************)
(* OProcess::start                                                         *)
(***************************************************************************)
Start(o, m) ==
  /\ pc = "loop" /\ o \in created /\ ~ runs[o]
  /\ forks < MaxForks
  /\ runs' = [runs EXCEPT ![o] = TRUE]
  /\ mode' = [mode EXCEPT ![o] = m]
  /\ pc' = "fork" /\ cur' = o
  /\ UNCHANGED <<created, list, pid, children, control, fails>>

Fork ==
  /\ pc = "fork"
  /\ Forked("forked")
  /\ pc' = "assign"
  /\ UNCHANGED <<objects, cur, others, control, fails>>

ForkFails ==
  /\ pc = "fork" /\ fails < MaxFails
  /\ fails' = fails + 1
  /\ pid' = [pid EXCEPT ![cur] = -1]
  /\ pc' = "failed"
  /\ UNCHANGED <<created, list, runs, mode, cur, children, control>>

(* start() is over *)
Returns == pc' = "loop" /\ cur' = Nobody

ForkFailed ==
  /\ pc = "failed"
  /\ runs' = [runs EXCEPT ![cur] = FALSE]
  /\ Returns
  /\ UNCHANGED <<created, list, pid, mode, children, control, fails>>

Assign ==
  /\ pc = "assign"
  /\ pid' = [pid EXCEPT ![cur] = forks]
  /\ pc' = "exec"
  /\ UNCHANGED <<created, list, runs, mode, cur, children, control, fails>>

(* mutant: pid_ is left as it is when exec has failed *)
ExecReadFailsKeepsPid ==
  /\ pc = "exec" /\ execFail
  /\ execFail' = FALSE
  /\ runs' = [runs EXCEPT ![cur] = FALSE]
  /\ Returns
  /\ UNCHANGED <<created, list, pid, mode, forks, life, others, away, control,
                 fails>>

(* The byte in the pipe says that exec failed *)
ExecReadFails ==
  /\ pc = "exec" /\ execFail
  /\ execFail' = FALSE
  /\ runs' = [runs EXCEPT ![cur] = FALSE]
  /\ pid' = [pid EXCEPT ![cur] = 0]
  /\ Returns
  /\ UNCHANGED <<created, list, mode, forks, life, others, away, control, fails>>

(* The pipe is closed without one, by exec or by the child's end *)
ExecReadEnd ==
  /\ pc = "exec" /\ ~ execFail
  /\ life[pid[cur]] \in {"running", "zombie", "reaped"}
  /\ IF mode[cur] = "Block" THEN pc' = "block" /\ UNCHANGED cur ELSE Returns
  /\ UNCHANGED <<objects, children, control, fails>>

(* The end of while ( runs ) in a blocking start *)
BlockReturns ==
  /\ pc = "block" /\ ~ runs[cur]
  /\ Returns
  /\ UNCHANGED <<objects, children, control, fails>>

(***************************************************************************)
(* The children                                                            *)
(***************************************************************************)
Exec(c) ==
  /\ life[c] = "forked"
  /\ \/ life' = [life EXCEPT ![c] = "running"] /\ UNCHANGED execFail
     \/ life' = [life EXCEPT ![c] = "failing"] /\ execFail' = TRUE
  /\ away' = IF mode[cur] = "DontCare" THEN away \cup {c} ELSE away
  /\ UNCHANGED <<objects, thread, forks, others, control, fails>>

ChildEnds(c) ==
  /\ Alive(c)
  /\ life' = [life EXCEPT ![c] = "zombie"]
  /\ sigchld' = TRUE
  /\ UNCHANGED <<objects, thread, forks, others, away, execFail, records,
                 delayed, timer, fails>>

(***************************************************************************)
(* The controller                                                          *)
(***************************************************************************)
Watched(o) == o \in list /\ runs[o]

(* The child waitpid( pid() ) of a running object asks for *)
OwnDead == {c \in Zombies : \E o \in Objs : Watched(o) /\ pid[o] = c}

(* Before pid_ is assigned it may be 0, for waitpid any child of the       *)
(* process group, or -1, any child                                         *)
AnyDead == {c \in Zombies : \E o \in Objs :
              Watched(o) /\ (pid[o] = -1 \/ (pid[o] = 0 /\ c \notin away))}

Reaped(R) == [c \in Pids |-> IF c \in R THEN "reaped" ELSE life[c]]

(* mutant: the handler waits for every child *)
TakenByHandlerAll(R) == R = Zombies

(* What one round over the list gets: each object's own child, and one     *)
(* more where an object asks for any                                       *)
TakenByHandler(R) ==
  \E T \in SUBSET AnyDead :
    /\ Cardinality(T) <= 1
    /\ T = {} => AnyDead \subseteq OwnDead
    /\ R = OwnDead \cup T

(* mutant: the children nobody watches are not left to the timer *)
SigCHLDHandlerOwnOnly ==
  /\ sigchld
  /\ sigchld' = FALSE
  /\ \E R \in SUBSET Zombies :
       /\ TakenByHandler(R)
       /\ life' = Reaped(R)
       /\ records' = records \cup R
       /\ delayed' = (delayed \/ R # {})
  /\ UNCHANGED <<objects, thread, forks, others, away, execFail, timer, fails>>

SigCHLDHandler ==
  /\ sigchld
  /\ sigchld' = FALSE
  /\ \E R \in SUBSET Zombies :
       /\ TakenByHandler(R)
       /\ life' = Reaped(R)
       /\ records' = records \cup R
  /\ delayed' = TRUE
  /\ UNCHANGED <<objects, thread, forks, others, away, execFail, timer, fails>>

(* mutant: start() serves the pipe while it waits for the exec *)
ReadsPipeInStart == pc \in {"loop", "exec"} \/ (pc = "block" /\ runs[cur])

(* Where slotDoHousekeeping is called: by the notifier in the event loop,  *)
(* and by a blocking start                                                 *)
ReadsPipe == pc = "loop" \/ (pc = "block" /\ runs[cur])

ReadDelayed ==
  /\ ReadsPipe /\ delayed
  /\ delayed' = FALSE
  /\ timer' = TRUE
  /\ UNCHANGED <<objects, thread, children, sigchld, records, fails>>

(* processHasExited, or the same by hand for a blocking start *)
ReadRecord(c) ==
  /\ ReadsPipe /\ c \in records
  /\ records' = records \ {c}
  /\ runs' = [o \in Objs |-> IF o \in list /\ pid[o] = c THEN FALSE ELSE runs[o]]
  /\ UNCHANGED <<created, list, pid, mode, thread, children, sigchld, delayed,
                 timer, fails>>

(* mutant: a child that is found here is not written to the pipe *)
DelayedChildrenCleanupSilent ==
  /\ pc = "loop" /\ timer
  /\ timer' = FALSE
  /\ life' = Reaped(Zombies)
  /\ UNCHANGED <<objects, thread, forks, others, away, execFail, records, sigchld,
                 delayed, fails>>

DelayedChildrenCleanup ==
  /\ pc = "loop" /\ timer
  /\ timer' = FALSE
  /\ life' = Reaped(Zombies)
  /\ records' = records \cup OwnDead
  /\ UNCHANGED <<objects, thread, forks, others, away, execFail, sigchld, delayed,
                 fails>>

Program ==
  \/ \E o \in Objs : New(o) \/ Delete(o) \/ Detach(o)
  \/ \E o \in Objs, m \in Modes : Start(o, m)
  \/ Popen
  \/ \E c \in Pids : Pclose(c)

Starting ==
  Fork \/ ForkFails \/ ForkFailed \/ Assign \/ ExecReadFails \/ ExecReadEnd
  \/ BlockReturns

Housekeeping ==
  ReadDelayed \/ (\E c \in Pids : ReadRecord(c)) \/ DelayedChildrenCleanup

Next ==
  \/ Program
  \/ Starting
  \/ \E c \in Pids : Exec(c) \/ ChildEnds(c)
  \/ SigCHLDHandler
  \/ Housekeeping

(***************************************************************************)
(* The main thread goes on, a signal is delivered, and the event loop      *)
(* serves the pipe and the timer.  A child execs; it need not end.         *)
(***************************************************************************)
Fairness ==
  /\ WF_vars(Starting)
  /\ WF_vars(SigCHLDHandler)
  /\ WF_vars(ReadDelayed)
  /\ \A c \in Pids : WF_vars(Exec(c)) /\ SF_vars(ReadRecord(c))
  /\ SF_vars(DelayedChildrenCleanup)

Spec == Init /\ [][Next]_vars /\ Fairness

(***************************************************************************)
(* Properties                                                              *)
(***************************************************************************)
(* The type of every variable (the members of OProcess and of its          *)
(* controller, and the children as the kernel knows them).                 *)
TypeOK ==
  /\ created \subseteq Objs /\ list \subseteq created
  /\ runs \in [Objs -> BOOLEAN]
  /\ pid \in [Objs -> {-1, 0} \cup 1 .. forks]
  /\ mode \in [Objs -> RunModes]
  /\ pc \in Points
  /\ IF pc = "loop" THEN cur = Nobody ELSE cur \in created
  /\ forks \in 0 .. MaxForks
  /\ life \in [Pids -> Lives]
  /\ others \subseteq Pids /\ away \subseteq Pids
  /\ {execFail, sigchld, delayed, timer} \subseteq BOOLEAN
  /\ records \subseteq Pids
  /\ fails \in 0 .. MaxFails

(* c is the child of o's last start, which may not be in pid_ yet *)
IsChildOf(c, o) ==
  IF o = cur /\ pc \in {"fork", "assign", "failed"}
  THEN pc = "assign" /\ c = forks
  ELSE c = pid[o]

(* No exit is lost: the child of an object in the list that counts as      *)
(* running is there to be waited for, or its record is in the pipe. The    *)
(* handler, the delayed clean-up and the window before pid_ is assigned    *)
(* all take part in it (oprocctrl.cpp theSigCHLDHandler).                  *)
ExitNotLost ==
  \A o \in list, c \in Pids :
    runs[o] /\ IsChildOf(c, o) /\ life[c] = "reaped" => c \in records

(* isRunning() turns false only when the child has ended: an object whose  *)
(* start succeeded, that is still in the list and does not run any more    *)
(* has no living child (oprocess.h isRunning).                             *)
StoppedIsDead ==
  \A o \in list, c \in Pids : ~ runs[o] /\ pid[o] = c => Dead(c)

(* "if we did waitpid() directly in the SIGCHLD handler, popen()'s         *)
(* waitpid() call would fail": the handler waits for the child of somebody *)
(* else only while an object that is being started has no pid_ yet.        *)
HandlerSparesOthers ==
  [][\A c \in Pids :
       SigCHLDHandler /\ life[c] = "zombie" /\ life'[c] = "reaped"
         => \/ \E o \in list : pid[o] = c
            \/ pc \in {"fork", "assign", "failed"} /\ pid[cur] \in {0, -1}]_vars

(* What an object looks like to the program: the first of these that applies *)
StateOf(o) ==
  IF o \notin created THEN "none"
  ELSE IF o = cur /\ pc # "block" THEN "starting"
  ELSE IF ~ runs[o] THEN "idle"
  ELSE IF \E c \in Pids : pid[o] = c /\ Dead(c) THEN "ended" ELSE "running"

Life == INSTANCE ProcessLife WITH
  state <- [o \in Objs |-> StateOf(o)], watched <- list, caller <- cur,
  waits <- cur # Nobody /\ mode[cur] = "Block"

(* processExited is emitted once for each start(), after the child's end   *)
(* and never inside a start() that does not wait for it, wherever the      *)
(* handler, the pipe and the delayed clean-up interrupt the program.       *)
ImplementsLife == Life!Spec

(* Every exit is noticed: when the child of an object in the list is dead  *)
(* the object stops running, or leaves the list, as long as the program    *)
(* keeps coming back to its event loop.                                    *)
ExitNoticed ==
  []<>(pc = "loop") =>
    \A o \in Objs : (Watched(o) /\ pid[o] \in Pids /\ pc = "loop"
                     /\ \E c \in Pids : pid[o] = c /\ Dead(c))
                      ~> ~ Watched(o)

(* No zombie stays, whoever started it: children of objects that were      *)
(* deleted or detached, and those whose exec failed, are waited for by the *)
(* timer (oprocctrl.cpp delayedChildrenCleanup).                           *)
ZombiesReaped ==
  []<>(pc = "loop") =>
    \A c \in Pids : (life[c] = "zombie") ~> (life[c] = "reaped")
=============================================================================
