------------------------- MODULE QCopDeliveryProofs ------------------------
(* One application, one process, one queue: QCopDelivery, for any number   *)
(* of messages, processes, commands and crashes.                           *)
EXTENDS QCopDelivery, SequenceTheorems, TLAPS

-----------------------------------------------------------------------------
(* Sequences                                                               *)

LEMMA SeqGrows ==
  ASSUME NEW n \in Nat, NEW s \in Seq(1 .. n)
  PROVE  s \in Seq(1 .. n + 1)
<1>1. s \in [1 .. Len(s) -> 1 .. n + 1] /\ Len(s) \in Nat
  OBVIOUS
<1> QED BY <1>1

LEMMA ConcatAppend ==
  ASSUME NEW s \in Seq(Nat), NEW t \in Seq(Nat), NEW x \in Nat
  PROVE  s \o Append(t, x) = Append(s \o t, x)
<1>1. s \o t \in Seq(Nat) /\ <<x>> \in Seq(Nat)
  BY ConcatProperties
<1>2. Append(t, x) = t \o <<x>> /\ Append(s \o t, x) = (s \o t) \o <<x>>
  BY <1>1, AppendIsConcat
<1> QED BY <1>1, <1>2, ConcatAssociative

LEMMA HeadOfConcat ==
  ASSUME NEW s \in Seq(Nat), NEW t \in Seq(Nat), s # <<>>
  PROVE  /\ s \o t # <<>>
         /\ Head(s \o t) = Head(s)
         /\ Tail(s \o t) = Tail(s) \o t
<1>1. /\ s \o t \in Seq(Nat) /\ Len(s \o t) = Len(s) + Len(t)
      /\ \A i \in 1 .. Len(s) + Len(t) :
           (s \o t)[i] = IF i <= Len(s) THEN s[i] ELSE t[i - Len(s)]
  BY ConcatProperties
<1>n. Len(s) \in Nat \ {0} /\ Len(t) \in Nat
  OBVIOUS
<1>2. s \o t # <<>> /\ Head(s \o t) = Head(s)
  BY <1>1, <1>n
<1>3. /\ Tail(s) \in Seq(Nat) /\ Len(Tail(s)) = Len(s) - 1
      /\ \A i \in 1 .. Len(s) - 1 : Tail(s)[i] = s[i + 1]
  BY HeadTailProperties
<1>4. /\ Tail(s \o t) \in Seq(Nat) /\ Len(Tail(s \o t)) = Len(s) + Len(t) - 1
      /\ \A i \in 1 .. Len(s) + Len(t) - 1 : Tail(s \o t)[i] = (s \o t)[i + 1]
  BY <1>1, <1>2, HeadTailProperties
<1>5. /\ Tail(s) \o t \in Seq(Nat)
      /\ Len(Tail(s) \o t) = Len(s) - 1 + Len(t)
      /\ \A i \in 1 .. Len(s) - 1 + Len(t) : (Tail(s) \o t)[i]
           = IF i <= Len(s) - 1 THEN Tail(s)[i] ELSE t[i - (Len(s) - 1)]
  BY <1>3, ConcatProperties
<1>6. ASSUME NEW i \in 1 .. Len(s) + Len(t) - 1
      PROVE  Tail(s \o t)[i] = (Tail(s) \o t)[i]
  <2>1. i + 1 \in 1 .. Len(s) + Len(t) /\ i \in 1 .. Len(s) - 1 + Len(t)
    BY <1>n
  <2>2. CASE i <= Len(s) - 1
    BY <2>1, <2>2, <1>n, <1>1, <1>3, <1>4, <1>5
  <2>3. CASE i > Len(s) - 1
    <3>1. i + 1 - Len(s) = i - (Len(s) - 1) /\ ~ (i + 1 <= Len(s))
          /\ ~ (i <= Len(s) - 1)
      BY <2>3, <1>n
    <3> QED BY <3>1, <2>1, <1>1, <1>4, <1>5
  <2> QED BY <1>n, <2>2, <2>3
<1> QED BY <1>2, <1>4, <1>5, <1>6, <1>n, SeqEqual

LEMMA RestOfConcat ==
  ASSUME NEW s \in Seq(Nat), NEW t \in Seq(Nat)
  PROVE  /\ Len(s \o t) \in Nat /\ Len(s) \in 0 .. Len(s \o t)
         /\ \A i \in 1 .. Len(s) : (s \o t)[i] = s[i]
         /\ SubSeq(s \o t, Len(s) + 1, Len(s \o t)) = t
<1>1. /\ s \o t \in Seq(Nat) /\ Len(s \o t) = Len(s) + Len(t)
      /\ \A i \in 1 .. Len(s) + Len(t) :
           (s \o t)[i] = IF i <= Len(s) THEN s[i] ELSE t[i - Len(s)]
  BY ConcatProperties
<1>n. Len(s) \in Nat /\ Len(t) \in Nat
  OBVIOUS
<1> DEFINE r == SubSeq(s \o t, Len(s) + 1, Len(s \o t))
<1>2. /\ r \in Seq(Nat) /\ Len(r) = Len(t)
      /\ \A i \in 1 .. Len(t) : r[i] = (s \o t)[Len(s) + i]
  BY <1>1, <1>n
<1> HIDE DEF r
<1>3. ASSUME NEW i \in 1 .. Len(t) PROVE r[i] = t[i]
  <2>1. Len(s) + i \in 1 .. Len(s) + Len(t) /\ ~ (Len(s) + i <= Len(s))
        /\ Len(s) + i - Len(s) = i
    BY <1>n
  <2> QED BY <2>1, <1>1, <1>2
<1>4. r = t
  BY <1>2, <1>3, SeqEqual
<1> QED BY <1>1, <1>4, <1>n DEF r

LEMMA ElemsType ==
  ASSUME NEW S, NEW s \in Seq(S)
  PROVE  Elems(s) \subseteq S
BY DEF Elems

(* The type of what the operations leave in a queue *)
LEMMA QueueTypes ==
  ASSUME NEW S, NEW s \in Seq(S), NEW t \in Seq(S)
  PROVE  /\ s \o t \in Seq(S)
         /\ s # <<>> => Head(s) \in S /\ Tail(s) \in Seq(S)
BY ConcatProperties, HeadTailProperties

-----------------------------------------------------------------------------
(* The parts of a step                                                     *)

(* A message that is written is the only one that is new *)
LEMMA WriteType ==
  ASSUME MessagesOK, NEW kind \in Kinds, Write(kind), UNCHANGED queue
  PROVE  MessagesOK'
<1> USE DEF MessagesOK, Write
<1>1. /\ sent' \in Seq(Kinds) /\ Len(sent) \in Nat
      /\ Len(sent') = Len(sent) + 1
  OBVIOUS
<1>2. delivered' \in Seq(1 .. Len(sent'))
  BY <1>1, SeqGrows
<1>3. lost' \subseteq 1 .. Len(sent')
  BY <1>1
<1>4. Append(file, Len(sent) + 1) \in Seq(1 .. Len(sent) + 1)
  <2>1. file \in Seq(1 .. Len(sent) + 1) /\ Len(sent) + 1 \in 1 .. Len(sent) + 1
    BY <1>1, SeqGrows
  <2> QED BY <2>1, AppendProperties
<1>5. \A p \in Pids : queue[p] \in Seq(1 .. Len(sent) + 1)
  BY <1>1, SeqGrows
<1>6. file' \in Seq(1 .. Len(sent')) /\ queue' \in [Pids -> Seq(1 .. Len(sent'))]
  BY <1>1, <1>4, <1>5
<1> QED BY <1>1, <1>2, <1>3, <1>6

LEMMA SameMessages ==
  ASSUME MessagesOK, UNCHANGED <<history, file, queue>>
  PROVE  MessagesOK'
BY DEF MessagesOK, history

LEMMA ProcessQCopFileType ==
  ASSUME MessagesOK, NEW p \in Pids, ProcessQCopFile(p), UNCHANGED history
  PROVE  MessagesOK'
<1>1. queue[p] \o file \in Seq(1 .. Len(sent))
  BY QueueTypes DEF MessagesOK
<1> QED BY <1>1, EmptySeq DEF MessagesOK, ProcessQCopFile, history

LEMMA NotifyType ==
  ASSUME ProcessesOK, Notify, UNCHANGED <<pc, link, keep>>
  PROVE  ProcessesOK'
<1>1. \A p \in Pids : Append(inbox[p], "process") \in Seq({"process", "newChannel"})
  BY DEF ProcessesOK
<1> QED BY <1>1 DEF ProcessesOK, Notify

LEMMA ForkType ==
  ASSUME TypeOK, Fork \/ ForkFails
  PROVE  /\ pc' \in [Pids -> Statuses]
         /\ running' \subseteq Pids \cup {NoPid}
         /\ crashes' \in 0 .. MaxCrashes
<1> USE ConstantsAssumption DEF TypeOK, LauncherOK, ProcessesOK, StillThere,
        Statuses, Alive
<1>1. CASE Fork
  BY <1>1 DEF Fork
<1>2. CASE ForkFails
  BY <1>2 DEF ForkFails
<1> QED BY <1>1, <1>2

LEMMA DieType ==
  ASSUME TypeOK, NEW p \in Pids, Die(p)
  PROVE  MessagesOK' /\ ProcessesOK'
<1>1. Elems(queue[p]) \subseteq 1 .. Len(sent)
  BY ElemsType DEF TypeOK, MessagesOK
<1>2. MessagesOK'
  BY <1>1, EmptySeq DEF TypeOK, MessagesOK, Die
<1>3. Append(link[p], "unregister") \in Seq({"register", "unregister", "appRaised"})
  BY DEF TypeOK, ProcessesOK
<1>4. ProcessesOK'
  BY <1>3, EmptySeq DEF TypeOK, ProcessesOK, Die, Statuses
<1> QED BY <1>2, <1>4

(* Moving on in its life leaves a process with a known status *)
LEMMA GoesType ==
  ASSUME ProcessesOK, NEW p \in Pids, NEW from, NEW to \in Statuses,
         Goes(p, from, to)
  PROVE  pc' \in [Pids -> Statuses]
BY DEF ProcessesOK, Goes

-----------------------------------------------------------------------------
LEMMA InitType == Init => TypeOK
<1> SUFFICES ASSUME Init PROVE TypeOK
  OBVIOUS
<1>1. MessagesOK
  BY EmptySeq DEF Init, MessagesOK
<1>2. LauncherOK
  <2>1. MaxCommands \in Nat /\ MaxCrashes \in Nat
    BY ConstantsAssumption
  <2>2. requests = 0 /\ commands = 0 /\ crashes = 0
        /\ running = {} /\ registered = {} /\ stopped = {}
    BY DEF Init
  <2>3. waiting \in BOOLEAN /\ asking \in BOOLEAN /\ raising \in BOOLEAN
    BY DEF Init
  <2>4. commands \in 0 .. MaxCommands /\ crashes \in 0 .. MaxCrashes
        /\ requests \in Nat
    BY <2>1, <2>2
  <2> QED BY <2>2, <2>3, <2>4, Zenon DEF LauncherOK
<1>3. ProcessesOK
  BY EmptySeq DEF Init, ProcessesOK, Statuses
<1> QED BY <1>1, <1>2, <1>3 DEF TypeOK

LEMMA ProcessQCopType == TypeOK /\ ProcessQCop => TypeOK'
<1> SUFFICES ASSUME TypeOK, ProcessQCop PROVE TypeOK'
  OBVIOUS
<1>1. MessagesOK'
  BY SameMessages DEF TypeOK, ProcessQCop
<1>2. CASE IsRunning /\ Notify /\ UNCHANGED <<pc, running, crashes>>
  <2>1. LauncherOK'
    BY <1>2 DEF TypeOK, LauncherOK, ProcessQCop
  <2>2. ProcessesOK'
    BY <1>2, NotifyType DEF TypeOK, ProcessQCop
  <2> QED BY <1>1, <2>1, <2>2 DEF TypeOK
<1>3. CASE StartApplication
  <2>1. LauncherOK'
    BY <1>3, ForkType DEF TypeOK, LauncherOK, ProcessQCop, StartApplication
  <2>2. ProcessesOK'
    BY <1>3, ForkType DEF TypeOK, ProcessesOK, ProcessQCop, StartApplication
  <2> QED BY <1>1, <2>1, <2>2 DEF TypeOK
<1> QED BY <1>2, <1>3 DEF ProcessQCop

(* Both branches of execute(), which raise(QString) calls too *)
LEMMA ExecuteType ==
  ASSUME TypeOK, RaiseRunning \/ StartQuietly,
         UNCHANGED <<requests, registered, stopped, asking, link, queue, keep>>,
         waiting' \in BOOLEAN, raising' \in BOOLEAN,
         commands' \in 0 .. MaxCommands
  PROVE  TypeOK'
<1>1. CASE RaiseRunning
  <2>1. MessagesOK'
    BY <1>1, WriteType, SameMessages DEF TypeOK, RaiseRunning, Kinds, history
  <2>2. LauncherOK'
    BY <1>1 DEF TypeOK, LauncherOK, RaiseRunning
  <2>3. ProcessesOK'
    BY <1>1, NotifyType DEF TypeOK, RaiseRunning
  <2> QED BY <2>1, <2>2, <2>3 DEF TypeOK
<1>2. CASE StartQuietly
  <2>1. MessagesOK'
    BY <1>2, SameMessages DEF TypeOK, StartQuietly
  <2>2. LauncherOK'
    BY <1>2, ForkType DEF TypeOK, LauncherOK, StartQuietly, StartApplication
  <2>3. ProcessesOK'
    BY <1>2, ForkType DEF TypeOK, ProcessesOK, StartQuietly, StartApplication
  <2> QED BY <2>1, <2>2, <2>3 DEF TypeOK
<1> QED BY <1>1, <1>2

LEMMA ReadLinkType ==
  ASSUME TypeOK, NEW p \in Pids, ReadLink(p)
  PROVE  TypeOK'
<1>1. MessagesOK'
  BY SameMessages DEF TypeOK, ReadLink
<1>2. LauncherOK'
  BY DEF TypeOK, LauncherOK, ReadLink, Registered, Unregistered, AppRaised,
         counts
<1>3. Tail(link[p]) \in Seq({"register", "unregister", "appRaised"})
      /\ Append(inbox[p], "newChannel") \in Seq({"process", "newChannel"})
  <2>1. link[p] \in Seq({"register", "unregister", "appRaised"})
        /\ inbox[p] \in Seq({"process", "newChannel"})
    BY DEF TypeOK, ProcessesOK
  <2> QED BY <2>1, QueueTypes, AppendProperties DEF ReadLink
<1>4. ProcessesOK'
  BY <1>3 DEF TypeOK, ProcessesOK, ReadLink, Registered, Unregistered, AppRaised
<1> QED BY <1>1, <1>2, <1>4 DEF TypeOK

(* The steps of a process leave the launcher alone *)
LEMMA AppStepType ==
  ASSUME TypeOK, NEW p \in Pids, AppStep(p)
  PROVE  TypeOK'
<1> USE DEF TypeOK
<1>a. Alive \subseteq Statuses
  BY DEF Statuses
<1>1. CASE AppRegister(p)
  <2>1. MessagesOK' /\ LauncherOK'
    BY <1>1, SameMessages DEF AppRegister, LauncherOK, launcher, counts
  <2>2. pc' \in [Pids -> Statuses]
    BY <1>1, <1>a, GoesType DEF AppRegister, Alive
  <2>3. Append(link[p], "register") \in Seq({"register", "unregister", "appRaised"})
    BY DEF ProcessesOK
  <2>4. ProcessesOK'
    BY <1>1, <2>2, <2>3 DEF AppRegister, ProcessesOK
  <2> QED BY <2>1, <2>4
<1>2. CASE AppReadFile(p)
  <2>1. MessagesOK' /\ LauncherOK'
    BY <1>2, ProcessQCopFileType DEF AppReadFile, LauncherOK, launcher, counts
  <2>2. pc' \in [Pids -> Statuses]
    BY <1>2, <1>a, GoesType DEF AppReadFile, Alive
  <2>3. (file = <<>>) \in BOOLEAN
    OBVIOUS
  <2>4. ProcessesOK'
    BY <1>2, <2>2, <2>3 DEF AppReadFile, ProcessesOK
  <2> QED BY <2>1, <2>4
<1>3. CASE AppExec(p)
  <2>1. MessagesOK' /\ LauncherOK'
    BY <1>3, SameMessages DEF AppExec, LauncherOK, launcher, counts
  <2>2. pc' \in [Pids -> Statuses]
    BY <1>3, <1>a, GoesType DEF AppExec, Alive
  <2> QED BY <1>3, <2>1, <2>2 DEF AppExec, ProcessesOK
<1>4. CASE Deliver(p)
  <2>1. LauncherOK'
    BY <1>4 DEF Deliver, LauncherOK, launcher, counts
  <2>2. Head(queue[p]) \in 1 .. Len(sent)
        /\ Tail(queue[p]) \in Seq(1 .. Len(sent))
    BY <1>4, QueueTypes DEF MessagesOK, Deliver, TakeNext
  <2>3. Append(delivered, Head(queue[p])) \in Seq(1 .. Len(sent))
    BY <2>2, AppendProperties DEF MessagesOK
  <2>4. MessagesOK'
    BY <1>4, <2>2, <2>3 DEF MessagesOK, Deliver, TakeNext
  <2>5. Append(link[p], "appRaised") \in Seq({"register", "unregister", "appRaised"})
    BY DEF ProcessesOK
  <2>6. link' \in [Pids -> Seq({"register", "unregister", "appRaised"})]
    BY <1>4, <2>5 DEF ProcessesOK, Deliver
  <2>7. keep' \in [Pids -> BOOLEAN]
    <3>1. PICK k \in {keep[p], TRUE} : keep' = [keep EXCEPT ![p] = k]
      BY <1>4 DEF Deliver
    <3>2. k \in BOOLEAN
      BY DEF ProcessesOK
    <3> QED BY <3>1, <3>2 DEF ProcessesOK
  <2>8. ProcessesOK'
    BY <1>4, <2>6, <2>7 DEF ProcessesOK, Deliver
  <2> QED BY <2>1, <2>4, <2>8
<1>5. CASE AppEvent(p)
  <2>1. MessagesOK' /\ LauncherOK'
    BY <1>5, ProcessQCopFileType DEF AppEvent, LauncherOK, launcher, counts
  <2>2. Tail(inbox[p]) \in Seq({"process", "newChannel"})
    BY <1>5, QueueTypes DEF AppEvent, ProcessesOK
  <2> QED BY <1>5, <2>1, <2>2 DEF AppEvent, ProcessesOK
<1>6. CASE AppDrained(p)
  <2>1. MessagesOK' /\ LauncherOK'
    BY <1>6, SameMessages DEF AppDrained, LauncherOK, launcher, counts
  <2>2. pc' \in [Pids -> Statuses]
    BY <1>6, <1>a, GoesType DEF AppDrained, Alive
  <2> QED BY <1>6, <2>1, <2>2 DEF AppDrained, ProcessesOK
<1>7. CASE AppLooked(p)
  <2>1. MessagesOK' /\ LauncherOK'
    BY <1>7, SameMessages DEF AppLooked, LauncherOK, launcher, counts
  <2>2. pc' \in [Pids -> Statuses]
    BY <1>7, <1>a, GoesType DEF AppLooked, Alive
  <2> QED BY <1>7, <2>1, <2>2 DEF AppLooked, ProcessesOK
<1>8. CASE AppLeave(p)
  <2>1. MessagesOK' /\ LauncherOK'
    BY <1>8, SameMessages DEF AppLeave, LauncherOK, launcher, counts
  <2>2. pc' \in [Pids -> Statuses]
    BY <1>8, <1>a, GoesType DEF AppLeave, Alive
  <2> QED BY <1>8, <2>1, <2>2 DEF AppLeave, ProcessesOK
<1>9. CASE AppExit(p)
  BY <1>9, DieType DEF AppExit, LauncherOK, launcher, counts
<1> QED BY <1>1, <1>2, <1>3, <1>4, <1>5, <1>6, <1>7, <1>8, <1>9 DEF AppStep

LEMMA NextType == TypeOK /\ [Next]_vars => TypeOK'
<1> SUFFICES ASSUME TypeOK, [Next]_vars PROVE TypeOK'
  OBVIOUS
<1> USE ConstantsAssumption DEF TypeOK
<1>1. CASE Send
  <2>1. MessagesOK'
    BY <1>1, WriteType DEF Send, Kinds, process
  <2>2. LauncherOK' /\ ProcessesOK'
    BY <1>1 DEF Send, LauncherOK, ProcessesOK, launcher, process
  <2> QED BY <2>1, <2>2
<1>2. CASE ProcessQCop
  BY <1>2, ProcessQCopType
<1>3. CASE Execute
  BY <1>3, ExecuteType DEF Execute, LauncherOK
<1>4. CASE Raise
  <2>1. MessagesOK'
    BY <1>4, WriteType DEF Raise, Kinds, process
  <2> QED BY <1>4, <2>1 DEF Raise, LauncherOK, ProcessesOK, process
<1>5. CASE RaiseExecute
  BY <1>5, ExecuteType DEF RaiseExecute, LauncherOK
<1>6. CASE HeartbeatTimeout \/ AnswerNo
  <2>1. MessagesOK'
    BY <1>6, SameMessages DEF HeartbeatTimeout, AnswerNo, process
  <2> QED
    BY <1>6, <2>1 DEF HeartbeatTimeout, AnswerNo, LauncherOK, ProcessesOK,
                      process, counts
<1>7. CASE AnswerYes
  <2>1. LauncherOK'
    BY <1>7 DEF AnswerYes, LauncherOK, counts
  <2>2. MessagesOK' /\ ProcessesOK'
    <3>1. CASE \E p \in Pids : Die(p)
      BY <3>1, DieType
    <3>2. CASE UNCHANGED <<history, file, process>>
      BY <3>2, SameMessages DEF ProcessesOK, process
    <3> QED BY <1>7, <3>1, <3>2 DEF AnswerYes, LauncherOK
  <2> QED BY <2>1, <2>2
<1>8. CASE \E p \in Pids : ReadLink(p)
  BY <1>8, ReadLinkType
<1>9. CASE \E p \in Pids : SignalHandler(p) \/ SigStopped(p)
  <2>1. PICK p \in Pids : SignalHandler(p) \/ SigStopped(p)
    BY <1>9
  <2>2. MessagesOK'
    BY <2>1, SameMessages DEF SignalHandler, SigStopped, process
  <2>3. LauncherOK'
    BY <2>1 DEF SignalHandler, SigStopped, LauncherOK, counts
  <2>4. ProcessesOK'
    BY <2>1 DEF SignalHandler, SigStopped, ProcessesOK, process, Statuses
  <2> QED BY <2>2, <2>3, <2>4
<1>10. CASE \E p \in Pids : AppStep(p)
  BY <1>10, AppStepType
<1>11. CASE \E p \in Pids : UserClose(p)
  <2>1. PICK p \in Pids : UserClose(p)
    BY <1>11
  <2>2. MessagesOK' /\ LauncherOK'
    BY <2>1, SameMessages DEF UserClose, LauncherOK, launcher, counts
  <2>3. pc' \in [Pids -> Statuses]
    BY <2>1, GoesType DEF UserClose, Alive, Statuses
  <2> QED BY <2>1, <2>2, <2>3 DEF UserClose, ProcessesOK
<1>12. CASE \E p \in Pids : AppCrash(p)
  <2>1. PICK p \in Pids : AppCrash(p)
    BY <1>12
  <2>2. MessagesOK' /\ ProcessesOK'
    BY <2>1, DieType DEF AppCrash
  <2>3. LauncherOK'
    BY <2>1 DEF AppCrash, LauncherOK, launcher
  <2> QED BY <2>2, <2>3
<1>13. CASE UNCHANGED vars
  <2>1. MessagesOK'
    BY <1>13, SameMessages DEF vars, process
  <2> QED BY <1>13, <2>1 DEF vars, LauncherOK, ProcessesOK, launcher, process,
                             counts
<1> QED
  BY <1>1, <1>2, <1>3, <1>4, <1>5, <1>6, <1>7, <1>8, <1>9, <1>10, <1>11,
     <1>12, <1>13 DEF Next, Launcher, User

(* Every variable keeps its type; in particular the launcher never acts on *)
(* a request nobody made, and X never reads what was not written.          *)
THEOREM TypeCorrect == Spec => []TypeOK
BY InitType, NextType, PTL DEF Spec

-----------------------------------------------------------------------------
(* One process                                                             *)

(* Processes that have not been reaped *)
Exists(p) == pc[p] \in Alive \cup {"zombie"}

(***************************************************************************)
(* runningApps has one entry for X at most, and the process of X is it as  *)
(* long as there is one: an entry is dropped only when its process is      *)
(* reaped.  Messages that were read are in the memory of a process.        *)
(***************************************************************************)
Lives ==
  /\ \A p \in Pids : Exists(p) => p \in running
  /\ \A p, q \in running : p = q
  /\ \A p \in stopped : pc[p] = "reaped"
  /\ \A p \in Pids : queue[p] # <<>> => IsAlive(p)

(* The launcher waits for, or asks about, an application it started *)
Asking ==
  /\ waiting \/ asking => running # {}
  /\ ~ (waiting /\ asking)
  /\ raising => ~ waiting /\ ~ asking

LEMMA InitLives == Init => Lives /\ Asking
BY DEF Init, Lives, Asking, Exists, IsAlive, Alive

(* When the launcher starts X, nothing is left of an earlier process *)
LEMMA NobodyThere ==
  ASSUME TypeOK, Lives, ~ IsRunning
  PROVE  StillThere = {} /\ \A p \in Pids : ~ Exists(p)
<1>1. StillThere = {}
  BY DEF IsRunning, StillThere
<1>2. \A p \in Pids : p # NoPid
  BY ConstantsAssumption DEF Pids, NoPid
<1>3. \A p \in Pids : ~ Exists(p)
  <2> SUFFICES ASSUME NEW p \in Pids, Exists(p) PROVE FALSE
    OBVIOUS
  <2>1. p \in running \ {NoPid} /\ pc[p] # "reaped"
    BY <1>2 DEF Lives, Exists, Alive
  <2> QED BY <2>1 DEF IsRunning
<1> QED BY <1>1, <1>3

LEMMA StartLives ==
  ASSUME TypeOK, Lives, ~ IsRunning, Fork \/ ForkFails,
         UNCHANGED <<stopped, queue>>
  PROVE  Lives' /\ running' # {}
<1>0. StillThere = {} /\ \A p \in Pids : ~ Exists(p)
  BY NobodyThere
<1>a. /\ \A p \in stopped : pc[p] = "reaped"
      /\ \A p \in Pids : queue[p] # <<>> => IsAlive(p)
      /\ pc \in [Pids -> Statuses] /\ stopped \subseteq Pids
  BY DEF Lives, TypeOK, LauncherOK, ProcessesOK
<1>b. \A p \in Pids : queue[p] = <<>>
  BY <1>0, <1>a DEF Exists, IsAlive
<1>1. CASE Fork
  <2>1. PICK p \in Pids : /\ \A q \in Pids : pc[q] = "none" <=> q >= p
                          /\ pc' = [pc EXCEPT ![p] = "starting"]
                          /\ running' = {p}
    BY <1>0, <1>1 DEF Fork
  <2>2. pc[p] = "none"
    BY <2>1, ConstantsAssumption DEF Pids
  <2>3. \A q \in Pids : Exists(q)' => q = p
    BY <2>1, <1>0, <1>a DEF Exists
  <2>4. \A q \in stopped' : pc'[q] = "reaped"
    BY <2>1, <2>2, <1>a
  <2>5. \A q \in Pids : queue'[q] = <<>>
    BY <1>b
  <2> QED BY <2>1, <2>3, <2>4, <2>5 DEF Lives
<1>2. CASE ForkFails
  <2>1. pc' = pc /\ running' = {NoPid}
    BY <1>0, <1>2 DEF ForkFails
  <2>2. \A q \in Pids : ~ Exists(q)'
    BY <2>1, <1>0 DEF Exists
  <2>3. \A q \in Pids : queue'[q] = <<>>
    BY <1>b
  <2> QED BY <2>1, <2>2, <2>3, <1>a DEF Lives
<1> QED BY <1>1, <1>2

(* Where no process ends or begins, its entry stays *)
LEMMA SameLives ==
  ASSUME Lives, UNCHANGED <<running, stopped, pc, queue>>
  PROVE  Lives'
BY DEF Lives, Exists, IsAlive

(* A process that lives on may read messages *)
LEMMA AliveLives ==
  ASSUME TypeOK, Lives, NEW p \in Pids, IsAlive(p),
         NEW to \in Alive, pc' = [pc EXCEPT ![p] = to],
         \A q \in Pids : q # p => queue'[q] = queue[q],
         UNCHANGED <<running, stopped>>
  PROVE  Lives'
<1>1. pc \in [Pids -> Statuses]
  BY DEF TypeOK, ProcessesOK
<1>2. \A q \in Pids : Exists(q)' <=> Exists(q)
  BY <1>1 DEF Exists, IsAlive
<1>3. \A q \in Pids : q # p => pc'[q] = pc[q]
  BY <1>1
<1>4. IsAlive(p)'
  BY <1>1 DEF IsAlive
<1>5. \A q \in Pids : queue'[q] # <<>> => IsAlive(q)'
  <2> SUFFICES ASSUME NEW q \in Pids, queue'[q] # <<>> PROVE IsAlive(q)'
    OBVIOUS
  <2>1. CASE q = p
    BY <2>1, <1>4
  <2>2. CASE q # p
    BY <2>2, <1>3 DEF Lives, IsAlive
  <2> QED BY <2>1, <2>2
<1>6. \A q \in stopped : q # p /\ q \in Pids
  BY DEF Lives, IsAlive, Alive, TypeOK, LauncherOK
<1> QED BY <1>2, <1>3, <1>5, <1>6 DEF Lives

LEMMA DieLives ==
  ASSUME TypeOK, Lives, NEW p \in Pids, IsAlive(p), Die(p),
         UNCHANGED <<running, stopped>>
  PROVE  Lives'
<1>1. pc \in [Pids -> Statuses] /\ DOMAIN queue = Pids
  BY DEF TypeOK, ProcessesOK, MessagesOK
<1>2. \A q \in Pids : Exists(q)' <=> Exists(q)
  BY <1>1 DEF Exists, IsAlive, Die
<1>3. \A q \in Pids : q # p => pc'[q] = pc[q] /\ queue'[q] = queue[q]
  BY <1>1 DEF Die
<1>4. queue'[p] = <<>>
  BY <1>1 DEF Die
<1>5. \A q \in stopped : q # p /\ q \in Pids
  BY DEF Lives, IsAlive, Alive, TypeOK, LauncherOK
<1> QED BY <1>2, <1>3, <1>4, <1>5 DEF Lives, IsAlive

LEMMA AppStepLives ==
  ASSUME TypeOK, Lives, NEW p \in Pids, AppStep(p)
  PROVE  Lives'
<1>t. pc \in [Pids -> Statuses] /\ DOMAIN queue = Pids
  BY DEF TypeOK, ProcessesOK, MessagesOK
<1>s. pc = [pc EXCEPT ![p] = pc[p]]
  BY <1>t
<1>1. CASE AppRegister(p)
  BY <1>1, AliveLives DEF AppRegister, Goes, IsAlive, Alive, launcher
<1>2. CASE AppReadFile(p)
  <2>1. \A q \in Pids : q # p => queue'[q] = queue[q]
    BY <1>2, <1>t DEF AppReadFile, ProcessQCopFile
  <2> QED
    BY <1>2, <2>1, AliveLives DEF AppReadFile, Goes, IsAlive, Alive, launcher
<1>3. CASE AppExec(p)
  BY <1>3, AliveLives DEF AppExec, Goes, IsAlive, Alive, launcher
<1>4. CASE Deliver(p) \/ AppEvent(p)
  <2>1. \A q \in Pids : q # p => queue'[q] = queue[q]
    BY <1>4, <1>t DEF Deliver, TakeNext, AppEvent, ProcessQCopFile
  <2>2. pc[p] \in Alive /\ IsAlive(p)
    BY <1>4 DEF Deliver, AppEvent, Serving, IsAlive, Alive
  <2>3. pc' = [pc EXCEPT ![p] = pc[p]] /\ UNCHANGED <<running, stopped>>
    BY <1>4, <1>s DEF Deliver, AppEvent, launcher
  <2> QED BY <2>1, <2>2, <2>3, AliveLives
<1>5. CASE AppDrained(p)
  BY <1>5, AliveLives DEF AppDrained, Goes, IsAlive, Alive, launcher
<1>6. CASE AppLooked(p)
  BY <1>6, AliveLives DEF AppLooked, Goes, IsAlive, Alive, launcher
<1>7. CASE AppLeave(p)
  BY <1>7, AliveLives DEF AppLeave, Goes, IsAlive, Alive, launcher
<1>8. CASE AppExit(p)
  BY <1>8, DieLives DEF AppExit, IsAlive, Alive, launcher
<1> QED BY <1>1, <1>2, <1>3, <1>4, <1>5, <1>6, <1>7, <1>8 DEF AppStep

(* Whoever is reaped stays in runningApps until its event is handled *)
LEMMA ReapLives ==
  ASSUME TypeOK, Lives, NEW p \in Pids, SignalHandler(p) \/ SigStopped(p)
  PROVE  Lives'
<1>t. pc \in [Pids -> Statuses] /\ DOMAIN queue = Pids /\ stopped \subseteq Pids
  BY DEF TypeOK, ProcessesOK, MessagesOK, LauncherOK
<1>1. CASE SignalHandler(p)
  <2>1. \A q \in Pids : Exists(q)' => Exists(q)
    BY <1>1, <1>t DEF SignalHandler, Exists
  <2>2. \A q \in stopped' : pc'[q] = "reaped"
    BY <1>1, <1>t DEF SignalHandler, Lives
  <2>3. \A q \in Pids : IsAlive(q)' <=> IsAlive(q)
    BY <1>1, <1>t DEF SignalHandler, IsAlive, Alive
  <2> QED BY <1>1, <2>1, <2>2, <2>3 DEF SignalHandler, Lives
<1>2. CASE SigStopped(p)
  <2>1. ~ Exists(p)
    BY <1>2 DEF SigStopped, Lives, Exists, Alive
  <2> QED BY <1>2, <2>1 DEF SigStopped, Lives, Exists, IsAlive, process
<1> QED BY <1>1, <1>2

LEMMA NextLives == TypeOK /\ Lives /\ [Next]_vars => Lives'
<1> SUFFICES ASSUME TypeOK, Lives, [Next]_vars PROVE Lives'
  OBVIOUS
<1>1. CASE Send \/ Raise \/ HeartbeatTimeout \/ AnswerNo
  BY <1>1, SameLives DEF Send, Raise, HeartbeatTimeout, AnswerNo, launcher,
                         process
<1>2. CASE ProcessQCop
  BY <1>2, SameLives, StartLives DEF ProcessQCop, StartApplication
<1>3. CASE Execute
  BY <1>3, SameLives, StartLives
     DEF Execute, RaiseRunning, StartQuietly, StartApplication
<1>4. CASE RaiseExecute
  BY <1>4, SameLives, StartLives
     DEF RaiseExecute, RaiseRunning, StartQuietly, StartApplication
<1>5. CASE AnswerYes
  <2>1. UNCHANGED <<running, stopped>>
    BY <1>5 DEF AnswerYes
  <2>2. CASE \E p \in Pids : IsAlive(p) /\ Die(p)
    BY <2>1, <2>2, DieLives
  <2>3. CASE UNCHANGED process
    BY <2>1, <2>3, SameLives DEF process
  <2> QED BY <1>5, <2>2, <2>3 DEF AnswerYes, TypeOK, LauncherOK
<1>6. CASE \E p \in Pids : ReadLink(p)
  BY <1>6, SameLives DEF ReadLink
<1>7. CASE \E p \in Pids : SignalHandler(p) \/ SigStopped(p)
  BY <1>7, ReapLives
<1>8. CASE \E p \in Pids : AppStep(p)
  BY <1>8, AppStepLives
<1>9. CASE \E p \in Pids : UserClose(p)
  BY <1>9, AliveLives DEF UserClose, Goes, IsAlive, Alive, launcher
<1>10. CASE \E p \in Pids : AppCrash(p)
  BY <1>10, DieLives DEF AppCrash, launcher
<1>11. CASE UNCHANGED vars
  BY <1>11, SameLives DEF vars, launcher, process
<1> QED
  BY <1>1, <1>2, <1>3, <1>4, <1>5, <1>6, <1>7, <1>8, <1>9, <1>10, <1>11
  DEF Next, Launcher, User

LEMMA AlwaysLives == Spec => [](TypeOK /\ Lives)
<1>1. Init => TypeOK /\ Lives
  BY InitType, InitLives
<1>2. TypeOK /\ Lives /\ [Next]_vars => (TypeOK /\ Lives)'
  BY NextType, NextLives
<1> QED BY <1>1, <1>2, PTL DEF Spec

(* However the launcher, the SIGCHLD handler and the processes interleave, *)
(* two processes of one application never run at once.                     *)
THEOREM AlwaysOneProcess == Spec => []OneProcess
<1>1. TypeOK /\ Lives => OneProcess
  BY DEF Lives, OneProcess, IsAlive, Exists
<1> QED BY <1>1, AlwaysLives, PTL

-----------------------------------------------------------------------------
(* The heartbeat                                                           *)

LEMMA NextAsking == TypeOK /\ Lives /\ Asking /\ [Next]_vars => Asking'
<1> SUFFICES ASSUME TypeOK, Lives, Asking, [Next]_vars PROVE Asking'
  OBVIOUS
<1>a. StartApplication /\ UNCHANGED <<stopped, queue>> => running' # {}
  BY StartLives DEF StartApplication
<1>b. IsRunning => running # {}
  BY DEF IsRunning
<1>1. CASE Send \/ Raise \/ HeartbeatTimeout \/ AnswerYes \/ AnswerNo
  BY <1>1 DEF Send, Raise, HeartbeatTimeout, AnswerYes, AnswerNo, Idle,
              launcher, Asking
<1>2. CASE ProcessQCop
  <2>1. running # {} => running' # {}
    BY <1>2, <1>a DEF ProcessQCop
  <2> QED BY <1>2, <2>1 DEF ProcessQCop, Asking
<1>3. CASE Execute
  <2>1. running' # {} /\ UNCHANGED <<asking, raising>> /\ Idle
    BY <1>3, <1>a, <1>b DEF Execute, RaiseRunning, StartQuietly
  <2>2. waiting' => waiting \/ ~ asking
    BY <1>3 DEF Execute
  <2> QED BY <2>1, <2>2 DEF Asking, Idle
<1>4. CASE RaiseExecute
  <2>1. running' # {}
    BY <1>4, <1>a, <1>b DEF RaiseExecute, RaiseRunning, StartQuietly
  <2> QED BY <1>4, <2>1 DEF RaiseExecute, Asking
<1>5. CASE \E p \in Pids : ReadLink(p)
  BY <1>5 DEF ReadLink, Registered, Unregistered, AppRaised, Asking
<1>6. CASE \E p \in Pids : SignalHandler(p)
  BY <1>6 DEF SignalHandler, Asking
<1>7. CASE \E p \in Pids : SigStopped(p)
  <2>1. PICK p \in Pids : SigStopped(p)
    BY <1>7
  <2>2. CASE p \in running
    BY <2>1, <2>2 DEF SigStopped, Asking
  <2>3. CASE p \notin running
    <3>1. running' = running
      BY <2>1, <2>3 DEF SigStopped
    <3> QED BY <2>1, <2>3, <3>1 DEF SigStopped, Asking
  <2> QED BY <2>2, <2>3
<1>8. CASE \E p \in Pids : AppStep(p) \/ UserClose(p) \/ AppCrash(p)
  <2>1. UNCHANGED launcher
    BY <1>8 DEF AppStep, AppRegister, AppReadFile, AppExec, Deliver, AppEvent,
                AppDrained, AppLooked, AppLeave, AppExit, UserClose, AppCrash
  <2> QED BY <2>1 DEF launcher, Asking
<1>9. CASE UNCHANGED vars
  BY <1>9 DEF vars, launcher, Asking
<1> QED BY <1>1, <1>2, <1>3, <1>4, <1>5, <1>6, <1>7, <1>8, <1>9
        DEF Next, Launcher, User

(* The user is asked whether to kill X only while the launcher has an      *)
(* entry for X, and not while it awaits a heartbeat.                       *)
THEOREM AlwaysAsksAboutRunning == Spec => []AsksAboutRunning
<1>1. Init => TypeOK /\ Lives /\ Asking
  BY InitType, InitLives
<1>2. TypeOK /\ Lives /\ Asking /\ [Next]_vars => (TypeOK /\ Lives /\ Asking)'
  BY NextType, NextLives, NextAsking
<1>3. TypeOK /\ Lives /\ Asking => AsksAboutRunning
  BY DEF Asking, AsksAboutRunning
<1> QED BY <1>1, <1>2, <1>3, PTL DEF Spec

-----------------------------------------------------------------------------
(* One queue                                                               *)

(* X holds what it has read; the rest is in the file *)
Holds == \A p \in Pids : IsAlive(p) => UnderWay = queue[p] \o file

LEMMA AliveUnderWay == TypeOK /\ Lives => Holds
<1> SUFFICES ASSUME NEW p \in Pids, TypeOK, Lives, IsAlive(p)
             PROVE  UnderWay = queue[p] \o file
  BY DEF Holds
<1>1. \A q \in Owner : q = p
  BY DEF Owner, Lives, Exists, IsAlive
<1>2. CASE queue[p] = <<>>
  <2>1. Owner = {}
    BY <1>1, <1>2 DEF Owner
  <2>2. <<>> \o file = file
    BY ConcatEmptySeq DEF TypeOK, MessagesOK
  <2> QED BY <1>2, <2>1, <2>2 DEF UnderWay
<1>3. CASE queue[p] # <<>>
  <2>1. p \in Owner
    BY <1>3 DEF Owner
  <2>2. (CHOOSE q \in Owner : TRUE) = p
    BY <1>1, <2>1
  <2> QED BY <2>1, <2>2 DEF UnderWay
<1> QED BY <1>2, <1>3

LEMMA AliveUnderWayNext == (TypeOK /\ Lives => Holds)'
BY AliveUnderWay, PTL

LEMMA SameUnderWay ==
  ASSUME UNCHANGED <<file, queue>>
  PROVE  UnderWay' = UnderWay
BY DEF UnderWay, Owner

(* Writing to the file appends to the mailbox *)
LEMMA WriteStep ==
  ASSUME TypeOK, NEW kind \in Kinds, Write(kind), UNCHANGED queue
  PROVE  Mailbox!Write
<1>1. Owner' = Owner
  BY DEF Owner
<1>2. file' = Append(file, Len(sent) + 1) /\ file \in Seq(Nat)
      /\ Len(sent) + 1 \in Nat
  BY DEF Write, TypeOK, MessagesOK
<1>3. UnderWay' = Append(UnderWay, Len(sent) + 1)
  <2>1. CASE Owner = {}
    BY <1>1, <1>2, <2>1 DEF UnderWay
  <2>2. CASE Owner # {}
    <3> DEFINE o == CHOOSE p \in Owner : TRUE
    <3>1. o \in Pids
      BY <2>2 DEF Owner
    <3>2. queue[o] \in Seq(Nat)
      BY <3>1 DEF TypeOK, MessagesOK
    <3>3. UnderWay = queue[o] \o file /\ UnderWay' = queue[o] \o file'
      BY <1>1, <2>2 DEF UnderWay
    <3> HIDE DEF o
    <3>4. queue[o] \o Append(file, Len(sent) + 1)
            = Append(queue[o] \o file, Len(sent) + 1)
      BY <1>2, <3>2, ConcatAppend
    <3> QED BY <1>2, <3>3, <3>4
  <2> QED BY <2>1, <2>2
<1> QED BY <1>3 DEF Mailbox!Write, Write

(* Reading the file moves messages within the mailbox *)
LEMMA ReadStep ==
  ASSUME TypeOK, Lives, TypeOK', Lives', NEW p \in Pids,
         IsAlive(p), IsAlive(p)', ProcessQCopFile(p)
  PROVE  UnderWay' = UnderWay
<1>2. UnderWay' = queue'[p] \o file'
  BY AliveUnderWayNext DEF Holds
<1>3. UnderWay = queue[p] \o file
  BY AliveUnderWay DEF Holds
<1>4. queue'[p] = queue[p] \o file /\ file' = <<>>
  BY DEF ProcessQCopFile, TypeOK, MessagesOK
<1>5. queue[p] \o file \in Seq(1 .. Len(sent))
  BY QueueTypes DEF TypeOK, MessagesOK
<1>6. (queue[p] \o file) \o <<>> = queue[p] \o file
  BY <1>5, ConcatEmptySeq
<1> QED BY <1>2, <1>3, <1>4, <1>6

LEMMA DeliverStep ==
  ASSUME TypeOK, Lives, TypeOK', Lives', NEW p \in Pids, Deliver(p)
  PROVE  Mailbox!Deliver
<1>1. IsAlive(p) /\ IsAlive(p)'
  BY DEF Deliver, IsAlive, Serving, Alive
<1>2. UnderWay = queue[p] \o file /\ UnderWay' = queue'[p] \o file'
  BY <1>1, AliveUnderWay, AliveUnderWayNext DEF Holds
<1>3. /\ queue[p] \in Seq(Nat) /\ queue[p] # <<>> /\ file \in Seq(Nat)
      /\ queue'[p] = Tail(queue[p]) /\ file' = file
  BY DEF Deliver, TakeNext, TypeOK, MessagesOK
<1>4. /\ UnderWay # <<>> /\ Head(UnderWay) = Head(queue[p])
      /\ Tail(UnderWay) = UnderWay'
  BY <1>2, <1>3, HeadOfConcat
<1> QED BY <1>4 DEF Mailbox!Deliver, Deliver, TakeNext

(* What dies with a process is at the head of the mailbox *)
LEMMA DieStep ==
  ASSUME TypeOK, Lives, Lives', NEW p \in Pids, IsAlive(p), Die(p)
  PROVE  [Mailbox!Next]_(Mailbox!vars)
<1>1. UnderWay = queue[p] \o file
  BY AliveUnderWay DEF Holds
<1>2. UnderWay' = file
  <2>1. \A q \in Pids : queue'[q] = <<>>
    BY DEF Lives, Die, IsAlive, Exists, TypeOK, MessagesOK
  <2> QED BY <2>1 DEF UnderWay, Owner, Die
<1>3. queue[p] \in Seq(Nat) /\ file \in Seq(Nat)
  BY DEF TypeOK, MessagesOK
<1> DEFINE n == Len(queue[p])
<1>4. /\ n \in 0 .. Len(UnderWay) /\ Len(UnderWay) \in Nat
      /\ \A i \in 1 .. n : UnderWay[i] = queue[p][i]
      /\ SubSeq(UnderWay, n + 1, Len(UnderWay)) = file
  BY <1>1, <1>3, RestOfConcat
<1>5. /\ lost' = lost \cup Elems(queue[p]) /\ DOMAIN queue[p] = 1 .. n
      /\ UNCHANGED <<sent, delivered>>
  BY <1>3 DEF Die
<1>6. Elems(queue[p]) = {UnderWay[i] : i \in 1 .. n}
  BY <1>4, <1>5 DEF Elems
<1> HIDE DEF n
<1>7. CASE n = 0
  <2>1. Elems(queue[p]) = {}
    BY <1>6, <1>7
  <2>2. queue[p] = <<>>
    BY <1>3, <1>7 DEF n
  <2>3. UnderWay = file
    BY <1>1, <1>3, <2>2, ConcatEmptySeq
  <2> QED BY <1>2, <1>5, <2>1, <2>3 DEF Mailbox!vars
<1>8. CASE n # 0
  <2>1. n \in 1 .. Len(UnderWay)
    BY <1>4, <1>8
  <2>2. Mailbox!Lose
    BY <2>1, <1>2, <1>4, <1>5, <1>6 DEF Mailbox!Lose
  <2> QED BY <2>2 DEF Mailbox!Next
<1> QED BY <1>7, <1>8

LEMMA MailboxStep ==
  TypeOK /\ Lives /\ TypeOK' /\ Lives' /\ [Next]_vars
    => [Mailbox!Next]_(Mailbox!vars)
<1> SUFFICES ASSUME TypeOK, Lives, TypeOK', Lives', [Next]_vars
             PROVE  [Mailbox!Next]_(Mailbox!vars)
  OBVIOUS
<1>s. ASSUME UNCHANGED <<history, file, queue>>
      PROVE  UNCHANGED Mailbox!vars
  BY <1>s, SameUnderWay DEF history, Mailbox!vars
<1>w. ASSUME Write("raise") \/ Write("other"), UNCHANGED queue
      PROVE  Mailbox!Next
  BY <1>w, WriteStep DEF Kinds, Mailbox!Next
<1>x. ASSUME RaiseRunning \/ StartQuietly, UNCHANGED queue
      PROVE  [Mailbox!Next]_(Mailbox!vars)
  BY <1>x, <1>s, <1>w DEF RaiseRunning, StartQuietly
<1>1. CASE Send \/ Raise
  BY <1>1, <1>w DEF Send, Raise, process
<1>2. CASE Execute \/ RaiseExecute
  BY <1>2, <1>x DEF Execute, RaiseExecute
<1>3. CASE ProcessQCop \/ HeartbeatTimeout \/ AnswerNo
  BY <1>3, <1>s DEF ProcessQCop, HeartbeatTimeout, AnswerNo, process
<1>4. CASE AnswerYes
  <2>1. CASE \E p \in Pids : IsAlive(p) /\ Die(p)
    BY <2>1, DieStep
  <2>2. CASE UNCHANGED <<history, file, process>>
    BY <2>2, <1>s DEF process
  <2> QED BY <1>4, <2>1, <2>2 DEF AnswerYes, TypeOK, LauncherOK
<1>5. CASE \E p \in Pids : ReadLink(p) \/ SignalHandler(p) \/ SigStopped(p)
  BY <1>5, <1>s DEF ReadLink, SignalHandler, SigStopped, process
<1>6. CASE \E p \in Pids : AppReadFile(p)
  <2>1. PICK p \in Pids : AppReadFile(p)
    BY <1>6
  <2>2. IsAlive(p) /\ IsAlive(p)'
    BY <2>1 DEF AppReadFile, Goes, IsAlive, Alive, TypeOK, ProcessesOK
  <2> QED BY <2>1, <2>2, ReadStep DEF AppReadFile, history, Mailbox!vars
<1>7. CASE \E p \in Pids : AppEvent(p)
  <2>1. PICK p \in Pids : AppEvent(p)
    BY <1>7
  <2>2. IsAlive(p) /\ IsAlive(p)'
    BY <2>1 DEF AppEvent, Serving, IsAlive, Alive
  <2> QED BY <2>1, <2>2, ReadStep DEF AppEvent, history, Mailbox!vars
<1>8. CASE \E p \in Pids : Deliver(p)
  BY <1>8, DeliverStep DEF Mailbox!Next
<1>9. CASE \E p \in Pids : AppExit(p) \/ AppCrash(p)
  BY <1>9, DieStep DEF AppExit, AppCrash, IsAlive, Alive
<1>10. CASE \E p \in Pids : \/ AppRegister(p) \/ AppExec(p) \/ AppDrained(p)
                            \/ AppLooked(p) \/ AppLeave(p) \/ UserClose(p)
  BY <1>10, <1>s DEF AppRegister, AppExec, AppDrained, AppLooked, AppLeave,
                     UserClose
<1>11. CASE UNCHANGED vars
  BY <1>11, <1>s DEF vars, process
<1> QED BY <1>1, <1>2, <1>3, <1>4, <1>5, <1>6, <1>7, <1>8, <1>9, <1>10, <1>11
        DEF Next, Launcher, User, AppStep

(* Senders, file, launcher and processes together are one queue that is    *)
(* served from its head.                                                   *)
THEOREM DeliveryImplementsMailbox == Spec => ImplementsMailbox
<1>1. Init => Mailbox!Init
  BY DEF Init, Mailbox!Init, UnderWay, Owner
<1> QED BY <1>1, AlwaysLives, MailboxStep, PTL
        DEF Spec, ImplementsMailbox, Mailbox!Spec

-----------------------------------------------------------------------------
Promise == INSTANCE QCopMailboxProofs WITH underWay <- UnderWay

(* Messages reach X in the order they were written, none twice, and none   *)
(* is dropped but those that die with a process that had read them.        *)
THEOREM AlwaysInOrderOnce == Spec => []InOrderOnce
<1>1. Mailbox!Init => Promise!IInv
  BY Promise!InitIInv DEF Mailbox!Init, Promise!Init
<1>2. Promise!IInv /\ [Mailbox!Next]_(Mailbox!vars) => Promise!IInv'
  BY Promise!NextIInv
     DEF Mailbox!Next, Mailbox!Write, Mailbox!Deliver, Mailbox!Lose,
         Mailbox!vars, Promise!Next, Promise!Write, Promise!Deliver, Promise!Lose, Promise!vars
<1>3. Promise!IInv => InOrderOnce
  BY DEF Promise!IInv, Promise!InOrderOnce, Promise!Increasing, Promise!Elems,
         InOrderOnce, Mailbox!InOrderOnce, Mailbox!Increasing, Mailbox!Elems
<1> QED
  BY <1>1, <1>2, <1>3, DeliveryImplementsMailbox, PTL
  DEF ImplementsMailbox, Mailbox!Spec
=============================================================================
