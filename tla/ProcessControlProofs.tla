------------------------ MODULE ProcessControlProofs ------------------------
(* No exit is lost and no living child counts as ended: ProcessControl, for *)
(* any number of objects, children and failing forks.                       *)
EXTENDS ProcessControl, TLAPS

LEMMA PidsType ==
  /\ MaxForks \in Nat /\ MaxFails \in Nat
  /\ Pids = 1 .. MaxForks /\ Nobody \notin Objs
  /\ Modes \subseteq RunModes
BY ConstantsAssumption DEF Pids

-----------------------------------------------------------------------------
(* Types                                                                   *)

LEMMA TypeInit == Init => TypeOK
<1> SUFFICES ASSUME Init PROVE TypeOK
  OBVIOUS
<1> USE PidsType DEF Init
<1>1. runs \in [Objs -> BOOLEAN] /\ mode \in [Objs -> RunModes]
  BY DEF RunModes
<1>2. pid \in [Objs -> {-1, 0} \cup 1 .. forks]
  OBVIOUS
<1>3. life \in [Pids -> Lives] /\ pc \in Points
  BY DEF Lives, Points
<1>4. {execFail, sigchld, delayed, timer} \subseteq BOOLEAN
  OBVIOUS
<1>5. /\ created \subseteq Objs /\ list \subseteq created
      /\ pc = "loop" /\ cur = Nobody
      /\ forks \in 0 .. MaxForks /\ fails \in 0 .. MaxFails
      /\ others \subseteq Pids /\ away \subseteq Pids /\ records \subseteq Pids
  OBVIOUS
<1> QED BY <1>1, <1>2, <1>3, <1>4, <1>5 DEF TypeOK

LEMMA ProgramType ==
  ASSUME TypeOK, Program
  PROVE  TypeOK'
<1> USE PidsType DEF TypeOK, Points, Lives
<1>1. ASSUME NEW o \in Objs, New(o) PROVE TypeOK'
  BY <1>1 DEF New, thread, children, control
<1>2. ASSUME NEW o \in Objs, Delete(o) PROVE TypeOK'
  <2>1. /\ life' \in [Pids -> Lives] /\ sigchld' \in BOOLEAN
        /\ list' \subseteq created'
    BY <1>2 DEF Delete, Forgotten
  <2> QED BY <1>2, <2>1 DEF Delete, Forgotten, thread, RunModes
<1>3. ASSUME NEW o \in Objs, Detach(o) PROVE TypeOK'
  BY <1>3 DEF Detach, Forgotten, thread, children, control
<1>4. ASSUME NEW o \in Objs, NEW m \in Modes, Start(o, m) PROVE TypeOK'
  BY <1>4 DEF Start, children, control
<1>5. ASSUME Popen PROVE TypeOK'
  BY <1>5 DEF Popen, Forked, objects, thread, control
<1>6. ASSUME NEW c \in Pids, Pclose(c) PROVE TypeOK'
  BY <1>6 DEF Pclose, objects, thread, control
<1> QED BY <1>1, <1>2, <1>3, <1>4, <1>5, <1>6 DEF Program

LEMMA StartingType ==
  ASSUME TypeOK, Starting
  PROVE  TypeOK'
<1> USE PidsType DEF TypeOK, Points, Lives, Returns
<1>1. CASE Fork
  BY <1>1 DEF Fork, Forked, objects, control
<1>2. CASE ForkFails
  BY <1>2 DEF ForkFails, children, control
<1>3. CASE ForkFailed
  BY <1>3 DEF ForkFailed, children, control
<1>4. CASE Assign
  <2>1. forks \in {-1, 0} \cup 1 .. forks
    OBVIOUS
  <2> QED BY <1>4, <2>1 DEF Assign, children, control
<1>5. CASE ExecReadFails
  BY <1>5 DEF ExecReadFails, control
<1>6. CASE ExecReadEnd
  BY <1>6 DEF ExecReadEnd, objects, children, control
<1>7. CASE BlockReturns
  BY <1>7 DEF BlockReturns, objects, children, control
<1> QED BY <1>1, <1>2, <1>3, <1>4, <1>5, <1>6, <1>7 DEF Starting

LEMMA ReapedType ==
  ASSUME TypeOK, NEW R
  PROVE  Reaped(R) \in [Pids -> Lives]
BY DEF Reaped, TypeOK, Lives

LEMMA EventType ==
  ASSUME TypeOK,
         (\E c \in Pids : Exec(c) \/ ChildEnds(c)) \/ SigCHLDHandler \/ Housekeeping
  PROVE  TypeOK'
<1> USE PidsType DEF TypeOK, Points, Lives
<1>1. ASSUME NEW c \in Pids, Exec(c) PROVE TypeOK'
  BY <1>1 DEF Exec, objects, thread, control
<1>2. ASSUME NEW c \in Pids, ChildEnds(c) PROVE TypeOK'
  BY <1>2 DEF ChildEnds, objects, thread
<1>3. ASSUME SigCHLDHandler PROVE TypeOK'
  <2>1. PICK R \in SUBSET Zombies : life' = Reaped(R) /\ records' = records \cup R
    BY <1>3 DEF SigCHLDHandler
  <2>2. life' \in [Pids -> Lives] /\ records' \subseteq Pids
    BY <2>1, ReapedType DEF Zombies
  <2> QED BY <1>3, <2>2 DEF SigCHLDHandler, objects, thread
<1>4. ASSUME ReadDelayed PROVE TypeOK'
  BY <1>4 DEF ReadDelayed, objects, thread, children
<1>5. ASSUME NEW c \in Pids, ReadRecord(c) PROVE TypeOK'
  BY <1>5 DEF ReadRecord, thread, children
<1>6. ASSUME DelayedChildrenCleanup PROVE TypeOK'
  <2>1. life' \in [Pids -> Lives] /\ records' \subseteq Pids
    BY <1>6, ReapedType DEF DelayedChildrenCleanup, OwnDead, Zombies
  <2> QED BY <1>6, <2>1 DEF DelayedChildrenCleanup, objects, thread
<1> QED BY <1>1, <1>2, <1>3, <1>4, <1>5, <1>6 DEF Housekeeping

LEMMA TypeStep == TypeOK /\ [Next]_vars => TypeOK'
<1> SUFFICES ASSUME TypeOK, [Next]_vars PROVE TypeOK'
  OBVIOUS
<1>1. CASE Next
  BY <1>1, ProgramType, StartingType, EventType DEF Next
<1>2. CASE UNCHANGED vars
  BY <1>2 DEF vars, objects, thread, children, control, TypeOK
<1> QED BY <1>1, <1>2

(* Every variable of OProcess and its controller keeps its type, and start() *)
(* is always about an object that exists.                                    *)
THEOREM TypeCorrect == Spec => []TypeOK
<1> QED BY TypeInit, TypeStep, PTL DEF Spec

-----------------------------------------------------------------------------
(* What the properties rest on                                             *)

(* start() is between fork() and what it does with the result *)
InFork == pc \in {"fork", "assign", "failed"}

(* init() runs before an object can be used: a place without one is idle *)
UnusedIdle == \A o \in Objs : o \notin created => ~ runs[o] /\ pid[o] = 0

(* Children that are not made yet *)
NotYet == \A c \in Pids : c > forks => life[c] = "none"

(* The children of popen() are nobody else's *)
OthersApart ==
  /\ others \subseteq 1 .. forks
  /\ \A o \in Objs : pid[o] \notin others
  /\ pc = "assign" => forks \notin others /\ forks # 0

(* An object runs from before fork() on, and has a pid when start() is over *)
RunsHasPid ==
  /\ InFork => runs[cur]
  /\ pc = "failed" => pid[cur] = -1
  /\ \A o \in Objs : runs[o] /\ pid[o] \in {-1, 0} => InFork /\ o = cur

(* A record is written after its child was waited for *)
RecordIsReaped == \A c \in records : life[c] = "reaped"

Structure ==
  TypeOK /\ UnusedIdle /\ NotYet /\ OthersApart /\ RunsHasPid /\ RecordIsReaped

LEMMA StructureInit == Init => Structure
<1> SUFFICES ASSUME Init PROVE Structure
  OBVIOUS
<1>1. TypeOK
  BY TypeInit
<1>2. UnusedIdle /\ NotYet /\ OthersApart /\ RunsHasPid /\ RecordIsReaped
  BY PidsType DEF Init, UnusedIdle, NotYet, OthersApart, RunsHasPid, InFork,
                  RecordIsReaped
<1> QED BY <1>1, <1>2 DEF Structure

(* What a step may do to the children *)
LifeGoesOn ==
  /\ forks' \in {forks, forks + 1}
  /\ \A c \in Pids : life[c] = "reaped" => life'[c] = "reaped"
  /\ \A c \in Pids : life[c] = "zombie" => life'[c] \in {"zombie", "reaped"}
  /\ \A c \in Pids : c > forks' /\ life[c] = "none" => life'[c] = "none"

LEMMA LifeStep ==
  ASSUME TypeOK, NotYet, [Next]_vars
  PROVE  LifeGoesOn
<1> USE PidsType DEF TypeOK, NotYet, LifeGoesOn
<1>1. ASSUME NEW o \in Objs, Delete(o) PROVE LifeGoesOn
  BY <1>1 DEF Delete, Alive
<1>2. ASSUME Popen \/ Fork PROVE LifeGoesOn
  BY <1>2 DEF Popen, Fork, Forked
<1>3. ASSUME NEW c \in Pids, Pclose(c) \/ Exec(c) \/ ChildEnds(c)
      PROVE  LifeGoesOn
  BY <1>3 DEF Pclose, Exec, ChildEnds, Alive
<1>4. ASSUME SigCHLDHandler \/ DelayedChildrenCleanup PROVE LifeGoesOn
  BY <1>4 DEF SigCHLDHandler, DelayedChildrenCleanup, Reaped, Zombies
<1>5. ASSUME UNCHANGED <<forks, life>> PROVE LifeGoesOn
  BY <1>5
<1>6. CASE Program
  <2>1. ASSUME NEW o \in Objs, New(o) \/ Detach(o) PROVE LifeGoesOn
    BY <2>1, <1>5 DEF New, Detach, children
  <2>2. ASSUME NEW o \in Objs, NEW m \in Modes, Start(o, m) PROVE LifeGoesOn
    BY <2>2, <1>5 DEF Start, children
  <2> QED BY <1>6, <1>1, <1>2, <1>3, <2>1, <2>2 DEF Program
<1>7. CASE Starting
  <2>1. UNCHANGED <<forks, life>> \/ Fork
    BY <1>7 DEF Starting, ForkFails, ForkFailed, Assign, ExecReadFails,
                ExecReadEnd, BlockReturns, children
  <2> QED BY <2>1, <1>2, <1>5
<1>8. CASE Housekeeping
  <2>1. UNCHANGED <<forks, life>> \/ DelayedChildrenCleanup
    BY <1>8 DEF Housekeeping, ReadDelayed, ReadRecord, children
  <2> QED BY <2>1, <1>4, <1>5
<1>9. CASE UNCHANGED vars
  BY <1>9, <1>5 DEF vars, children
<1> QED BY <1>3, <1>4, <1>6, <1>7, <1>8, <1>9 DEF Next

(* The children of popen(), the objects and start() *)
Family == OthersApart /\ RunsHasPid /\ UnusedIdle

LEMMA FamilyStep ==
  ASSUME TypeOK, Family, [Next]_vars
  PROVE  Family'
<1> USE PidsType DEF TypeOK, Family, OthersApart, RunsHasPid, UnusedIdle, InFork
<1>1. ASSUME NEW o \in Objs, New(o) PROVE Family'
  BY <1>1 DEF New, thread, children
<1>2. ASSUME NEW o \in Objs, Delete(o) PROVE Family'
  BY <1>2 DEF Delete, Forgotten, thread
<1>3. ASSUME NEW o \in Objs, Detach(o) PROVE Family'
  BY <1>3 DEF Detach, Forgotten, thread, children
<1>4. ASSUME NEW o \in Objs, NEW m \in Modes, Start(o, m) PROVE Family'
  BY <1>4 DEF Start, children
<1>5. ASSUME Popen PROVE Family'
  BY <1>5 DEF Popen, Forked, objects, thread
<1>6. CASE Fork
  BY <1>6 DEF Fork, Forked, objects
<1>7. CASE ForkFails
  BY <1>7 DEF ForkFails, children
<1>8. CASE ForkFailed
  BY <1>8 DEF ForkFailed, Returns, children
<1>9. CASE Assign
  BY <1>9 DEF Assign, children
<1>10. CASE ExecReadFails
  BY <1>10 DEF ExecReadFails, Returns
<1>11. CASE ExecReadEnd
  BY <1>11 DEF ExecReadEnd, Returns, objects, children
<1>12. CASE BlockReturns
  BY <1>12 DEF BlockReturns, Returns, objects, children
<1>13. ASSUME NEW c \in Pids, ReadRecord(c) PROVE Family'
  <2>1. /\ \A o \in Objs : runs'[o] => runs[o]
        /\ ~ InFork /\ pc' = pc /\ cur' = cur
        /\ pid' = pid /\ created' = created /\ others' = others /\ forks' = forks
    BY <1>13 DEF ReadRecord, ReadsPipe, thread, children
  <2> QED BY <2>1
<1>14. ASSUME UNCHANGED <<objects, thread, forks, others>> PROVE Family'
  BY <1>14 DEF objects, thread
<1>15. CASE Program
  <2>1. ASSUME NEW c \in Pids, Pclose(c) PROVE Family'
    BY <2>1, <1>14 DEF Pclose
  <2> QED BY <1>15, <2>1, <1>1, <1>2, <1>3, <1>4, <1>5 DEF Program
<1>16. ASSUME NEW c \in Pids, Exec(c) \/ ChildEnds(c) PROVE Family'
  BY <1>16, <1>14 DEF Exec, ChildEnds
<1>17. CASE SigCHLDHandler \/ DelayedChildrenCleanup \/ ReadDelayed
  BY <1>17, <1>14 DEF SigCHLDHandler, DelayedChildrenCleanup, ReadDelayed, children
<1>18. CASE UNCHANGED vars
  BY <1>18, <1>14 DEF vars, children
<1> QED BY <1>6, <1>7, <1>8, <1>9, <1>10, <1>11, <1>12, <1>13, <1>15, <1>16,
           <1>17, <1>18 DEF Next, Starting, Housekeeping

LEMMA RecordsStep ==
  ASSUME TypeOK, LifeGoesOn, RecordIsReaped, [Next]_vars
  PROVE  RecordIsReaped'
<1> USE PidsType DEF TypeOK, LifeGoesOn, RecordIsReaped
<1>1. ASSUME records' \subseteq records PROVE RecordIsReaped'
  BY <1>1
<1>2. CASE SigCHLDHandler
  BY <1>2 DEF SigCHLDHandler, Reaped, Zombies
<1>3. CASE DelayedChildrenCleanup
  BY <1>3 DEF DelayedChildrenCleanup, OwnDead, Reaped, Zombies
<1>4. CASE Program
  BY <1>4, <1>1 DEF Program, New, Delete, Detach, Start, Popen, Pclose, control
<1>5. CASE Starting
  BY <1>5, <1>1 DEF Starting, Fork, ForkFails, ForkFailed, Assign, ExecReadFails,
                    ExecReadEnd, BlockReturns, control
<1>6. ASSUME NEW c \in Pids, Exec(c) \/ ChildEnds(c) \/ ReadRecord(c)
      PROVE  RecordIsReaped'
  BY <1>6, <1>1 DEF Exec, ChildEnds, ReadRecord, control
<1>7. CASE ReadDelayed \/ UNCHANGED vars
  BY <1>7, <1>1 DEF ReadDelayed, vars, control
<1> QED BY <1>2, <1>3, <1>4, <1>5, <1>6, <1>7 DEF Next, Housekeeping

LEMMA StructureStep == Structure /\ [Next]_vars => Structure'
<1> SUFFICES ASSUME Structure, [Next]_vars PROVE Structure'
  OBVIOUS
<1>1. TypeOK' /\ LifeGoesOn
  BY TypeStep, LifeStep DEF Structure
<1>2. NotYet'
  BY <1>1, PidsType DEF Structure, NotYet, LifeGoesOn, TypeOK
<1>3. Family'
  BY FamilyStep DEF Structure, Family
<1>4. RecordIsReaped'
  BY <1>1, RecordsStep DEF Structure
<1> QED BY <1>1, <1>2, <1>3, <1>4 DEF Structure, Family

LEMMA StructureAlways == Spec => []Structure
<1> QED BY StructureInit, StructureStep, PTL DEF Spec

-----------------------------------------------------------------------------
(* Living children and exits                                               *)

LEMMA StoppedStep ==
  ASSUME Structure, Structure', StoppedIsDead, [Next]_vars
  PROVE  StoppedIsDead'
<1> SUFFICES ASSUME NEW o \in list', NEW c \in Pids, ~ runs'[o], pid'[o] = c
             PROVE  life'[c] \in {"zombie", "reaped"}
  BY DEF StoppedIsDead, Dead
<1> USE PidsType
<1>t. TypeOK /\ TypeOK' /\ LifeGoesOn /\ Family
  BY LifeStep DEF Structure, Family
<1>o. o \in Objs /\ c # -1 /\ c # 0
  BY <1>t DEF TypeOK
<1>1. CASE o \in list /\ ~ runs[o] /\ pid[o] = c
  BY <1>1, <1>t DEF StoppedIsDead, Dead, LifeGoesOn
<1>2. CASE ~ (o \in list /\ ~ runs[o] /\ pid[o] = c)
  <2>1. ASSUME NEW x \in Objs, New(x) \/ Delete(x) \/ Detach(x) PROVE FALSE
    BY <2>1, <1>2, <1>t, <1>o
       DEF New, Delete, Detach, Forgotten, Family, UnusedIdle, TypeOK
  <2>2. ASSUME NEW x \in Objs, NEW m \in Modes, Start(x, m) PROVE FALSE
    BY <2>2, <1>2, <1>t, <1>o DEF Start, TypeOK
  <2>3. ASSUME ForkFails \/ ForkFailed \/ Assign \/ ExecReadFails PROVE FALSE
    BY <2>3, <1>2, <1>t, <1>o
       DEF ForkFails, ForkFailed, Assign, ExecReadFails, Family, RunsHasPid,
           InFork, TypeOK
  <2>4. ASSUME NEW x \in Pids, ReadRecord(x) PROVE life'[c] = "reaped"
    BY <2>4, <1>2, <1>t, <1>o
       DEF ReadRecord, children, TypeOK, Structure, RecordIsReaped
  <2>5. ASSUME UNCHANGED objects PROVE FALSE
    BY <2>5, <1>2 DEF objects
  <2>6. CASE Program
    <3>1. ASSUME NEW x \in Pids, Popen \/ Pclose(x) PROVE FALSE
      BY <3>1, <2>5 DEF Popen, Pclose
    <3> QED BY <2>6, <3>1, <2>1, <2>2, <2>5 DEF Program, Popen
  <2>7. CASE Starting
    BY <2>7, <2>3, <2>5 DEF Starting, Fork, ExecReadEnd, BlockReturns
  <2>8. ASSUME NEW x \in Pids, Exec(x) \/ ChildEnds(x) PROVE FALSE
    BY <2>8, <2>5 DEF Exec, ChildEnds
  <2>9. CASE SigCHLDHandler
    BY <2>9, <2>5 DEF SigCHLDHandler
  <2>10. CASE Housekeeping
    BY <2>10, <2>4, <2>5 DEF Housekeeping, ReadDelayed, DelayedChildrenCleanup
  <2>11. CASE UNCHANGED vars
    BY <2>11, <2>5 DEF vars
  <2> QED BY <2>6, <2>7, <2>8, <2>9, <2>10, <2>11 DEF Next
<1> QED BY <1>1, <1>2

(* isRunning() of an object in the list turns false only when its child has *)
(* ended, or has none (oprocess.h isRunning).                               *)
THEOREM StoppedAlwaysDead == Spec => []StoppedIsDead
<1>1. Init => StoppedIsDead
  BY DEF Init, StoppedIsDead
<1>s. Structure /\ StoppedIsDead /\ [Next]_vars => (Structure /\ StoppedIsDead)'
  BY StructureStep, StoppedStep
<1> QED BY <1>1, <1>s, StructureInit, PTL DEF Spec

LEMMA ExitStep ==
  ASSUME Structure, Structure', ExitNotLost, [Next]_vars
  PROVE  ExitNotLost'
<1> SUFFICES ASSUME NEW o \in list', NEW c \in Pids, runs'[o], IsChildOf(c, o)',
                    life'[c] = "reaped"
             PROVE  c \in records'
  BY DEF ExitNotLost
<1> USE PidsType
<1>t. TypeOK /\ TypeOK' /\ LifeGoesOn /\ Family /\ NotYet
  BY LifeStep DEF Structure, Family
<1>o. o \in Objs /\ c # 0 /\ c # -1
  BY <1>t DEF TypeOK
<1> DEFINE Was == o \in list /\ runs[o] /\ IsChildOf(c, o)
<1>l. c \in records \/ ~ Was \/ life[c] # "reaped"
  BY <1>o DEF ExitNotLost
(* A step that leaves the objects and start() where they are *)
<1>5. ASSUME UNCHANGED <<objects, thread, forks>> PROVE Was
  BY <1>5 DEF objects, thread, IsChildOf
<1>6. ASSUME Was, life'[c] = life[c], records \subseteq records'
      PROVE  c \in records'
  BY <1>6, <1>l
<1>7. ASSUME Program PROVE c \in records'
  <2>1. ASSUME NEW x \in Objs, New(x) PROVE c \in records'
    <3>1. Was
      BY <2>1, <1>t, <1>o
         DEF New, thread, children, IsChildOf, Family, UnusedIdle, TypeOK
    <3> QED BY <3>1, <1>6, <2>1 DEF New, children, control
  <2>2. ASSUME NEW x \in Objs, Delete(x) PROVE c \in records'
    <3>1. o # x /\ Was
      BY <2>2, <1>t, <1>o DEF Delete, Forgotten, thread, IsChildOf, TypeOK
    <3>2. life'[c] = life[c]
      BY <2>2, <1>t DEF Delete, TypeOK
    <3> QED BY <3>1, <3>2, <1>6, <2>2 DEF Delete
  <2>3. ASSUME NEW x \in Objs, Detach(x) PROVE c \in records'
    <3>1. Was
      BY <2>3, <1>t, <1>o DEF Detach, Forgotten, thread, children, IsChildOf, TypeOK
    <3> QED BY <3>1, <1>6, <2>3 DEF Detach, children, control
  <2>4. ASSUME NEW x \in Objs, NEW m \in Modes, Start(x, m) PROVE c \in records'
    <3>1. Was
      BY <2>4, <1>t, <1>o DEF Start, children, IsChildOf, TypeOK
    <3> QED BY <3>1, <1>6, <2>4 DEF Start, children, control
  <2>5. ASSUME Popen PROVE c \in records'
    <3>1. Was
      BY <2>5, <1>t DEF Popen, Forked, objects, thread, IsChildOf, TypeOK
    <3>2. life'[c] = life[c]
      BY <2>5, <1>t DEF Popen, Forked, TypeOK
    <3> QED BY <3>1, <3>2, <1>6, <2>5 DEF Popen, control
  <2>6. ASSUME NEW x \in Pids, Pclose(x) PROVE c \in records'
    <3>1. Was
      BY <2>6, <1>5 DEF Pclose
    <3>2. c # x
      BY <2>6, <3>1, <1>t, <1>o
         DEF Pclose, IsChildOf, Family, OthersApart
    <3>3. life'[c] = life[c]
      BY <2>6, <3>2, <1>t DEF Pclose, TypeOK
    <3> QED BY <3>1, <3>3, <1>6, <2>6 DEF Pclose, control
  <2> QED BY <1>7, <2>1, <2>2, <2>3, <2>4, <2>5, <2>6 DEF Program
<1>8. ASSUME Starting PROVE c \in records'
  <2>1. CASE Fork
    <3>1. life'[c] = life[c] /\ ~ (o = cur /\ c = forks + 1)
      BY <2>1, <1>t DEF Fork, Forked, TypeOK
    <3>2. Was
      BY <2>1, <3>1, <1>t DEF Fork, Forked, objects, IsChildOf, TypeOK
    <3> QED BY <3>1, <3>2, <1>6, <2>1 DEF Fork, control
  <2>2. CASE ForkFails \/ ForkFailed
    <3>1. Was
      BY <2>2, <1>t, <1>o
         DEF ForkFails, ForkFailed, Returns, children, IsChildOf, TypeOK
    <3> QED BY <3>1, <1>6, <2>2 DEF ForkFails, ForkFailed, children, control
  <2>3. CASE Assign
    <3>1. Was
      BY <2>3, <1>t, <1>o DEF Assign, children, IsChildOf, TypeOK
    <3> QED BY <3>1, <1>6, <2>3 DEF Assign, children, control
  <2>4. CASE ExecReadFails
    <3>1. Was
      BY <2>4, <1>t, <1>o DEF ExecReadFails, Returns, IsChildOf, TypeOK
    <3> QED BY <3>1, <1>6, <2>4 DEF ExecReadFails, control
  <2>5. CASE ExecReadEnd \/ BlockReturns
    <3>1. Was
      BY <2>5, <1>t, <1>o
         DEF ExecReadEnd, BlockReturns, Returns, objects, children, IsChildOf, TypeOK
    <3> QED BY <3>1, <1>6, <2>5 DEF ExecReadEnd, BlockReturns, children, control
  <2> QED BY <1>8, <2>1, <2>2, <2>3, <2>4, <2>5 DEF Starting
<1>9. ASSUME NEW x \in Pids, Exec(x) \/ ChildEnds(x) PROVE c \in records'
  <2>1. Was
    BY <1>9, <1>5 DEF Exec, ChildEnds
  <2>2. life'[c] = life[c]
    BY <1>9, <1>t DEF Exec, ChildEnds, TypeOK
  <2> QED BY <2>1, <2>2, <1>6, <1>9 DEF Exec, ChildEnds, control
<1>10. ASSUME SigCHLDHandler PROVE c \in records'
  <2>1. Was
    BY <1>10, <1>5 DEF SigCHLDHandler
  <2>2. c \in records' \/ life'[c] = life[c]
    BY <1>10, <1>t DEF SigCHLDHandler, Reaped
  <2>3. records \subseteq records'
    BY <1>10 DEF SigCHLDHandler
  <2> QED BY <2>1, <2>2, <2>3, <1>6
<1>11. ASSUME Housekeeping PROVE c \in records'
  <2>1. CASE ReadDelayed
    BY <2>1, <1>5, <1>6 DEF ReadDelayed, children
  <2>2. ASSUME NEW x \in Pids, ReadRecord(x) PROVE c \in records'
    <3>1. Was /\ c # x
      BY <2>2, <1>t, <1>o
         DEF ReadRecord, ReadsPipe, thread, children, IsChildOf, TypeOK
    <3> QED BY <3>1, <1>l, <2>2 DEF ReadRecord, children
  <2>3. CASE DelayedChildrenCleanup
    <3>1. Was /\ pid[o] = c
      BY <2>3, <1>5, <1>t DEF DelayedChildrenCleanup, IsChildOf, TypeOK
    <3>2. c \in OwnDead \/ life'[c] = life[c]
      BY <2>3, <3>1, <1>o, <1>t
         DEF DelayedChildrenCleanup, OwnDead, Watched, Reaped
    <3> QED BY <2>3, <3>1, <3>2, <1>6 DEF DelayedChildrenCleanup
  <2> QED BY <1>11, <2>1, <2>2, <2>3 DEF Housekeeping
<1>12. ASSUME UNCHANGED vars PROVE c \in records'
  BY <1>12, <1>5, <1>6 DEF vars, children, control
<1> QED BY <1>7, <1>8, <1>9, <1>10, <1>11, <1>12 DEF Next

(* A child of a listed, running object that was waited for has its record   *)
(* in the pipe, whoever waited for it and wherever start() was then         *)
(* (oprocctrl.cpp theSigCHLDHandler, delayedChildrenCleanup).               *)
THEOREM ExitNeverLost == Spec => []ExitNotLost
<1>1. Init => ExitNotLost
  BY DEF Init, ExitNotLost
<1>s. Structure /\ ExitNotLost /\ [Next]_vars => (Structure /\ ExitNotLost)'
  BY StructureStep, ExitStep
<1> QED BY <1>1, <1>s, StructureInit, PTL DEF Spec

(* The handler waits for a child of popen() only in the window of start()   *)
(* in which pid_ is not assigned (oprocctrl.cpp:163).                       *)
THEOREM HandlerAlwaysSparesOthers == Spec => HandlerSparesOthers
<1> DEFINE Spares ==
      \A c \in Pids :
        SigCHLDHandler /\ life[c] = "zombie" /\ life'[c] = "reaped"
          => \/ \E o \in list : pid[o] = c
             \/ pc \in {"fork", "assign", "failed"} /\ pid[cur] \in {0, -1}
<1>1. Structure => Spares
  <2> SUFFICES ASSUME Structure, NEW c \in Pids, SigCHLDHandler,
                      life[c] = "zombie", life'[c] = "reaped"
               PROVE  \/ \E o \in list : pid[o] = c
                      \/ pc \in {"fork", "assign", "failed"} /\ pid[cur] \in {0, -1}
    OBVIOUS
  <2>1. c \in OwnDead \/ c \in AnyDead
    <3>1. PICK R \in SUBSET Zombies : TakenByHandler(R) /\ life' = Reaped(R)
      BY DEF SigCHLDHandler
    <3>2. c \in R
      BY <3>1 DEF Reaped
    <3> QED BY <3>1, <3>2 DEF TakenByHandler
  <2>2. CASE c \in OwnDead
    BY <2>2 DEF OwnDead, Watched
  <2>3. CASE c \in AnyDead
    BY <2>3 DEF AnyDead, Watched, Structure, RunsHasPid, InFork
  <2> QED BY <2>1, <2>2, <2>3
<1>2. Structure => [Spares]_vars
  BY <1>1
<1>3. []Structure => [][Spares]_vars
  BY <1>2, PTL
<1> QED BY <1>3, StructureAlways DEF HandlerSparesOthers

-----------------------------------------------------------------------------
(* The life of an object                                                   *)

(* No two objects have one child, and start() is about an object that runs *)
Apart ==
  /\ \A o, x \in Objs : pid[o] = pid[x] /\ pid[o] > 0 => o = x
  /\ pc = "assign" => \A o \in Objs : pid[o] < forks
  /\ pc = "exec" => runs[cur]

LEMMA ApartStep ==
  ASSUME Structure, Apart, [Next]_vars
  PROVE  Apart'
<1> USE PidsType DEF Structure, TypeOK, Apart
<1>1. ASSUME NEW o \in Objs, New(o) \/ Delete(o) \/ Detach(o) PROVE Apart'
  BY <1>1 DEF New, Delete, Detach, Forgotten, thread, children
<1>2. ASSUME NEW o \in Objs, NEW m \in Modes, Start(o, m) PROVE Apart'
  BY <1>2 DEF Start, children
<1>3. CASE Fork
  BY <1>3 DEF Fork, Forked, objects
<1>4. CASE ForkFails \/ ForkFailed \/ ExecReadFails
  BY <1>4 DEF ForkFails, ForkFailed, ExecReadFails, Returns, children
<1>5. CASE Assign
  BY <1>5 DEF Assign, children, RunsHasPid, InFork
<1>6. CASE ExecReadEnd \/ BlockReturns
  BY <1>6 DEF ExecReadEnd, BlockReturns, Returns, objects, children
<1>7. ASSUME NEW c \in Pids, ReadRecord(c) PROVE Apart'
  BY <1>7 DEF ReadRecord, ReadsPipe, thread, children
<1>8. CASE Popen
  BY <1>8 DEF Popen, Forked, objects, thread
<1>9. ASSUME UNCHANGED <<objects, thread, forks>> PROVE Apart'
  BY <1>9 DEF objects, thread
<1>10. ASSUME NEW c \in Pids, Pclose(c) \/ Exec(c) \/ ChildEnds(c) PROVE Apart'
  BY <1>10, <1>9 DEF Pclose, Exec, ChildEnds
<1>11. CASE SigCHLDHandler \/ DelayedChildrenCleanup \/ ReadDelayed \/ UNCHANGED vars
  BY <1>11, <1>9 DEF SigCHLDHandler, DelayedChildrenCleanup, ReadDelayed, children, vars
<1> QED BY <1>1, <1>2, <1>3, <1>4, <1>5, <1>6, <1>7, <1>8, <1>10, <1>11
        DEF Next, Program, Starting, Housekeeping

LifeInv == Structure /\ Apart

LEMMA LifeInvAlways == Spec => []LifeInv
<1>1. Init => Apart
  BY DEF Init, Apart
<1> QED BY <1>1, StructureInit, StructureStep, ApartStep, PTL DEF Spec, LifeInv

(* A step that only one object notices, and one that none does *)
LEMMA OneBecomes ==
  ASSUME NEW o \in Objs, NEW s, StateOf(o)' = s,
         \A x \in Objs \ {o} : StateOf(x)' = StateOf(x)
  PROVE  Life!Becomes(o, s)
BY DEF Life!Becomes

LEMMA NoneBecomes ==
  ASSUME \A x \in Objs : StateOf(x)' = StateOf(x)
  PROVE  UNCHANGED [x \in Objs |-> StateOf(x)]
OBVIOUS

(* What an object looks like depends on what is its own, and its child *)
Ended(o) == \E c \in Pids : pid[o] = c /\ Dead(c)

LEMMA SameState ==
  ASSUME LifeInv, NEW x \in Objs,
         (x \in created') = (x \in created),
         (x = cur /\ pc # "block")' = (x = cur /\ pc # "block"),
         runs'[x] = runs[x],
         x \in created /\ runs[x] /\ ~ (x = cur /\ pc # "block") => Ended(x)' = Ended(x)
  PROVE  StateOf(x)' = StateOf(x)
BY DEF StateOf, Ended

(* Children that are made, waited for or execute a program: nobody notices *)
LEMMA QuietSteps ==
  ASSUME LifeInv, UNCHANGED objects, cur' = cur, (pc' = pc \/ cur = Nobody \/ (pc # "block" /\ pc' # "block")),
         \A c \in Pids : c <= forks => Dead(c)' = Dead(c)
  PROVE  UNCHANGED Life!vars
<1>1. ASSUME NEW x \in Objs PROVE StateOf(x)' = StateOf(x)
  <2>1. pid[x] \in {-1, 0} \cup 1 .. forks
    BY DEF LifeInv, Structure, TypeOK
  <2>2. Ended(x)' = Ended(x)
    BY <2>1, PidsType DEF Ended, objects, LifeInv, Structure, TypeOK
  <2>3. (x = cur /\ pc # "block")' = (x = cur /\ pc # "block")
    BY PidsType
  <2> QED BY <2>2, <2>3, SameState DEF objects
<1> QED BY <1>1, NoneBecomes DEF Life!vars, objects

LEMMA LifeOfProgram ==
  ASSUME LifeInv, Program
  PROVE  Life!Next \/ UNCHANGED Life!vars
<1> USE PidsType
<1>t. TypeOK /\ UnusedIdle /\ NotYet
  BY DEF LifeInv, Structure
<1>1. ASSUME NEW o \in Objs, New(o) PROVE Life!New(o)
  <2>1. cur = Nobody /\ StateOf(o) = "none"
    BY <1>1, <1>t DEF New, TypeOK, StateOf
  <2>2. StateOf(o)' = "idle"
    BY <1>1, <1>t, <2>1 DEF New, thread, StateOf, UnusedIdle
  <2>3. \A x \in Objs \ {o} : StateOf(x)' = StateOf(x)
    BY <1>1 DEF New, thread, children, StateOf, Dead
  <2>4. Life!Becomes(o, "idle")
    BY <2>2, <2>3, OneBecomes
  <2> QED BY <1>1, <2>1, <2>4 DEF New, thread, Life!New
<1>2. ASSUME NEW o \in Objs, Delete(o) PROVE Life!Delete(o)
  <2>1. cur = Nobody /\ StateOf(o) # "none" /\ pc' = pc /\ cur' = cur
    BY <1>2, <1>t DEF Delete, TypeOK, StateOf, thread
  <2>2. StateOf(o)' = "none"
    BY <1>2 DEF Delete, StateOf
  <2>3. ASSUME NEW x \in Objs \ {o} PROVE StateOf(x)' = StateOf(x)
    <3>1. pid'[x] = pid[x] /\ runs'[x] = runs[x]
      BY <1>2, <1>t DEF Delete, Forgotten, TypeOK
    <3>2. Ended(x)' = Ended(x)
      BY <1>2, <1>t, <3>1 DEF Delete, Ended, Dead, LifeInv, Apart, TypeOK
    <3> QED BY <1>2, <2>1, <3>1, <3>2, SameState DEF Delete
  <2>4. Life!Becomes(o, "none")
    BY <2>2, <2>3, OneBecomes
  <2> QED BY <1>2, <2>1, <2>4 DEF Delete, Forgotten, thread, Life!Delete
<1>3. ASSUME NEW o \in Objs, Detach(o) PROVE Life!Detach(o)
  <2>1. cur = Nobody /\ StateOf(o) # "none" /\ pc' = pc /\ cur' = cur
    BY <1>3, <1>t DEF Detach, TypeOK, StateOf, thread
  <2>2. StateOf(o)' = "idle"
    BY <1>3, <1>t, <2>1 DEF Detach, Forgotten, StateOf, TypeOK
  <2>3. \A x \in Objs \ {o} : StateOf(x)' = StateOf(x)
    BY <1>3, <1>t DEF Detach, Forgotten, thread, children, StateOf, Dead, TypeOK
  <2>4. Life!Becomes(o, "idle")
    BY <2>2, <2>3, OneBecomes
  <2> QED BY <1>3, <2>1, <2>4 DEF Detach, Forgotten, Life!Detach
<1>4. ASSUME NEW o \in Objs, NEW m \in Modes, Start(o, m)
      PROVE  Life!Start(o, m = "Block")
  <2>1. cur = Nobody /\ pc = "loop" /\ cur' = o /\ pc' = "fork" /\ mode'[o] = m
    BY <1>4, <1>t DEF Start, TypeOK
  <2>2. StateOf(o) = "idle" /\ StateOf(o)' = "starting"
    BY <1>4, <2>1 DEF Start, StateOf
  <2>3. \A x \in Objs \ {o} : StateOf(x)' = StateOf(x)
    BY <1>4, <1>t, <2>1 DEF Start, children, StateOf, Dead, TypeOK
  <2>4. Life!Becomes(o, "starting")
    BY <2>2, <2>3, OneBecomes
  <2> QED BY <1>4, <2>1, <2>2, <2>4 DEF Start, Life!Start
<1>5. CASE Popen
  BY <1>5, <1>t, QuietSteps DEF Popen, Forked, thread, Dead, TypeOK
<1>6. ASSUME NEW c \in Pids, Pclose(c) PROVE UNCHANGED Life!vars
  BY <1>6, <1>t, QuietSteps DEF Pclose, thread, Dead, TypeOK
<1>7. ASSUME NEW o \in Objs, New(o) \/ Delete(o) \/ Detach(o) PROVE Life!Next
  BY <1>7, <1>1, <1>2, <1>3 DEF Life!Next
<1>8. ASSUME NEW o \in Objs, NEW m \in Modes, Start(o, m) PROVE Life!Next
  BY <1>8, <1>4 DEF Life!Next
<1> QED BY <1>5, <1>6, <1>7, <1>8 DEF Program

(* start(): fork and the assignment of pid_ show nothing; the byte in the   *)
(* pipe, or its end, decides                                               *)
LEMMA LifeOfStart ==
  ASSUME LifeInv, Starting
  PROVE  Life!Next \/ UNCHANGED Life!vars
<1> USE PidsType
<1>t. TypeOK /\ UnusedIdle /\ NotYet /\ RunsHasPid
  BY DEF LifeInv, Structure
<1>1. CASE Fork
  BY <1>1, <1>t, QuietSteps DEF Fork, Forked, Dead, TypeOK
<1>2. CASE ForkFails \/ Assign
  <2>1. /\ cur \in Objs /\ cur' = cur /\ pc # "block" /\ pc' # "block"
        /\ \A x \in Objs \ {cur} : pid'[x] = pid[x]
        /\ UNCHANGED <<created, list, runs, mode, life>>
    BY <1>2, <1>t DEF ForkFails, Assign, TypeOK, children
  <2>2. ASSUME NEW x \in Objs PROVE StateOf(x)' = StateOf(x)
    BY <2>1 DEF StateOf, Dead
  <2> QED BY <2>1, <2>2, NoneBecomes DEF Life!vars
<1>3. ASSUME ForkFailed \/ ExecReadFails, NEW o \in Objs, o = cur PROVE Life!Fails
  <2>1. /\ o \in created /\ o # Nobody /\ pc # "block"
        /\ cur' = Nobody /\ pc' = "loop" /\ runs'[o] = FALSE
        /\ \A x \in Objs \ {o} : pid'[x] = pid[x] /\ runs'[x] = runs[x]
        /\ UNCHANGED <<created, list, life>>
    BY <1>3, <1>t DEF ForkFailed, ExecReadFails, Returns, TypeOK, children
  <2>2. StateOf(o) = "starting" /\ StateOf(o)' = "idle"
    BY <1>3, <2>1 DEF StateOf
  <2>3. \A x \in Objs \ {o} : StateOf(x)' = StateOf(x)
    BY <1>3, <2>1 DEF StateOf, Dead
  <2>4. Life!Becomes(o, "idle")
    BY <2>2, <2>3, OneBecomes
  <2> QED BY <1>3, <2>1, <2>2, <2>4 DEF Life!Fails, Life!InStart, Life!Returns
<1>4. ASSUME ExecReadEnd, NEW o \in Objs, o = cur PROVE Life!Succeeds
  <2>1. /\ pc = "exec" /\ o \in created /\ o # Nobody /\ runs[o]
        /\ UNCHANGED <<created, list, runs, pid, mode, life>>
        /\ IF mode[o] = "Block" THEN pc' = "block" /\ cur' = cur
           ELSE pc' = "loop" /\ cur' = Nobody
    BY <1>4, <1>t DEF ExecReadEnd, Returns, TypeOK, objects, children, LifeInv, Apart
  <2>2. StateOf(o) = "starting" /\ StateOf(o)' \in {"running", "ended"}
    BY <1>4, <2>1 DEF StateOf
  <2>3. \A x \in Objs \ {o} : StateOf(x)' = StateOf(x)
    BY <1>4, <2>1 DEF StateOf, Dead
  <2>4. Life!Becomes(o, StateOf(o)')
    BY <2>3, OneBecomes
  <2> QED BY <1>4, <2>1, <2>2, <2>4 DEF Life!Succeeds, Life!InStart, Life!Returns
<1>5. ASSUME BlockReturns, NEW o \in Objs, o = cur PROVE Life!WaitIsOver
  <2>1. StateOf(o) = "idle" /\ o # Nobody /\ pc = "block" /\ pc' = "loop"
    BY <1>5, <1>t DEF BlockReturns, Returns, TypeOK, StateOf
  <2>2. \A x \in Objs : StateOf(x)' = StateOf(x)
    BY <1>5, <2>1 DEF BlockReturns, Returns, objects, children, StateOf, Dead
  <2>3. UNCHANGED [x \in Objs |-> StateOf(x)]
    BY <2>2, NoneBecomes
  <2> QED BY <1>5, <2>1, <2>3
          DEF BlockReturns, Returns, objects, Life!WaitIsOver, Life!Returns
<1>6. pc # "loop" => \E o \in Objs : o = cur
  BY <1>t DEF TypeOK
<1> QED BY <1>1, <1>2, <1>3, <1>4, <1>5, <1>6
        DEF Starting, Life!Next, ForkFailed, ExecReadFails, ExecReadEnd, BlockReturns

(* The end of a child is that of one object at most *)
LEMMA LifeOfChildren ==
  ASSUME LifeInv, NEW c \in Pids, ChildEnds(c)
  PROVE  Life!Next \/ UNCHANGED Life!vars
<1> USE PidsType
<1>1. /\ UNCHANGED <<created, list, runs, pid, mode, pc, cur>>
      /\ Alive(c) /\ Dead(c)' /\ \A d \in Pids \ {c} : Dead(d)' = Dead(d)
  BY DEF ChildEnds, objects, thread, Dead, LifeInv, Structure, TypeOK
<1>2. ASSUME NEW x \in Objs, pid[x] # c PROVE StateOf(x)' = StateOf(x)
  <2>1. Ended(x)' = Ended(x)
    BY <1>1, <1>2 DEF Ended
  <2> QED BY <1>1, <2>1, SameState
<1>3. ASSUME NEW o \in Objs, pid[o] = c, StateOf(o)' # StateOf(o)
      PROVE  Life!Ends(o)
  <2>1. StateOf(o) = "running" /\ StateOf(o)' = "ended"
    BY <1>1, <1>3 DEF StateOf, Alive, Dead
  <2>2. \A x \in Objs \ {o} : StateOf(x)' = StateOf(x)
    BY <1>2, <1>3 DEF LifeInv, Apart
  <2>3. Life!Becomes(o, "ended")
    BY <2>1, <2>2, OneBecomes
  <2> QED BY <1>1, <2>1, <2>3 DEF Life!Ends
<1>4. CASE \A x \in Objs : StateOf(x)' = StateOf(x)
  BY <1>1, <1>4, NoneBecomes DEF Life!vars
<1> QED BY <1>2, <1>3, <1>4 DEF Life!Next

(* A record is read for one object at most, whose child was waited for *)
LEMMA LifeOfRecords ==
  ASSUME LifeInv, NEW c \in Pids, ReadRecord(c)
  PROVE  Life!Next \/ UNCHANGED Life!vars
<1> USE PidsType
<1>1. /\ UNCHANGED <<created, list, pid, mode, pc, cur, life>>
      /\ c \in records /\ Dead(c) /\ (pc = "loop" \/ pc = "block")
      /\ \A x \in Objs : runs'[x] = IF x \in list /\ pid[x] = c THEN FALSE ELSE runs[x]
  BY DEF ReadRecord, ReadsPipe, thread, children, Dead, LifeInv, Structure, RecordIsReaped
<1>t. TypeOK
  BY DEF LifeInv, Structure
<1>2. ASSUME NEW x \in Objs, x \notin list \/ pid[x] # c \/ ~ runs[x]
      PROVE  StateOf(x)' = StateOf(x)
  <2>1. runs'[x] = runs[x]
    BY <1>1, <1>2, <1>t DEF TypeOK
  <2> QED BY <1>1, <2>1 DEF StateOf, Dead
<1>3. ASSUME NEW o \in list, pid[o] = c, runs[o] PROVE Life!Noticed(o)
  <2>1. o \in Objs /\ o \in created
    BY <1>t DEF TypeOK
  <2>2. StateOf(o) = "ended" /\ StateOf(o)' = "idle"
    BY <1>1, <1>3, <1>t, <2>1 DEF StateOf, TypeOK
  <2>3. \A x \in Objs \ {o} : StateOf(x)' = StateOf(x)
    BY <1>2, <1>3, <2>1 DEF LifeInv, Apart
  <2>4. Life!Becomes(o, "idle")
    BY <2>1, <2>2, <2>3, OneBecomes
  <2>5. cur \in Objs => StateOf(cur) # "starting"
    BY <1>1, <1>t DEF StateOf, TypeOK
  <2>6. cur = Nobody \/ cur \in Objs
    BY <1>t DEF TypeOK
  <2> QED BY <1>1, <2>1, <2>2, <2>4, <2>5, <2>6 DEF Life!Noticed, Life!InStart
<1>4. CASE \A x \in Objs : StateOf(x)' = StateOf(x)
  BY <1>1, <1>4, NoneBecomes DEF Life!vars
<1> QED BY <1>2, <1>3, <1>4, <1>t DEF Life!Next, TypeOK

LEMMA LifeStepMaps ==
  ASSUME LifeInv, [Next]_vars
  PROVE  [Life!Next]_(Life!vars)
<1> USE PidsType
<1>t. TypeOK
  BY DEF LifeInv, Structure
<1>1. ASSUME NEW c \in Pids, Exec(c) PROVE UNCHANGED Life!vars
  BY <1>1, <1>t, QuietSteps DEF Exec, thread, Dead, TypeOK
<1>2. ASSUME SigCHLDHandler \/ DelayedChildrenCleanup PROVE UNCHANGED Life!vars
  <2>1. \A c \in Pids : Dead(c)' = Dead(c)
    BY <1>2, <1>t DEF SigCHLDHandler, DelayedChildrenCleanup, Reaped, Zombies, Dead, TypeOK
  <2> QED BY <1>2, <2>1, QuietSteps DEF SigCHLDHandler, DelayedChildrenCleanup, thread
<1>3. ASSUME ReadDelayed \/ UNCHANGED vars PROVE UNCHANGED Life!vars
  <2>1. UNCHANGED <<objects, thread, children>>
    BY <1>3 DEF ReadDelayed, vars
  <2>2. \A c \in Pids : Dead(c)' = Dead(c)
    BY <2>1 DEF children, Dead
  <2> QED BY <2>1, <2>2, QuietSteps DEF thread
<1> QED BY <1>1, <1>2, <1>3, LifeOfProgram, LifeOfStart, LifeOfChildren, LifeOfRecords
        DEF Next, Housekeeping

(* OProcess and its controller give each object a life of its own: the end  *)
(* of a child is told once for each start(), after it, and not inside a     *)
(* start() but one that waits for it (oprocess.h processExited).            *)
THEOREM ControlImplementsLife == Spec => ImplementsLife
<1>1. Init => Life!Init
  BY DEF Init, Life!Init, StateOf
<1>2. LifeInv /\ [Next]_vars => [Life!Next]_(Life!vars)
  BY LifeStepMaps
<1> QED BY <1>1, <1>2, LifeInvAlways, PTL DEF Spec, ImplementsLife, Life!Spec
=============================================================================
