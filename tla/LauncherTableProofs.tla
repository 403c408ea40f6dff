------------------------ MODULE LauncherTableProofs -------------------------
(* The table of the launcher and its quicklauncher: LauncherTable, for any  *)
(* applications and any number of children, failures and suspends.          *)
EXTENDS LauncherTable, TLAPS

(* What the launcher knows of its children is late, but never about the     *)
(* wrong one.                                                               *)
Structure ==
  /\ qlPid # 0 => life[qlPid] \in {"loading", "listening", "zombie", "reaped"}
  /\ \A p \in regs : life[p] \notin {"none", "loading", "apm"}
  /\ \A p \in events \cap Pids : life[p] = "reaped"
  /\ ~ mistaken /\ timers > 0 => timers = 1 /\ qlPid = 0
  /\ \A p \in Pids : runningApps[p] # NoApp => p # qlPid /\ life[p] # "none"

IInv == TypeOK /\ OneProcess /\ ReadyIsListening /\ OneQuickLauncher /\ Structure

LEMMA Constants ==
  /\ MaxForks \in Nat /\ MaxFails \in Nat /\ MaxSuspends \in Nat
  /\ Pids = 1 .. MaxForks /\ Keys = {-1} \cup Pids /\ Pids \subseteq Keys
  /\ 0 \notin Keys /\ -1 \notin Pids /\ -1 \in Keys
  /\ Plugins \subseteq Apps /\ NoApp \notin Apps
BY ConstantsAssumption DEF Pids, Keys

LEMMA InitHolds == Init => IInv
<1> SUFFICES ASSUME Init PROVE IInv
  OBVIOUS
<1> USE Constants DEF Init
<1>1. TypeOK
  <2>1. TableType
    BY DEF TableType
  <2>2. ChildrenType
    BY DEF ChildrenType, Lives
  <2>3. SignalsType
    BY DEF SignalsType
  <2>4. OProcessType
    <3>1. fails \in 0 .. MaxFails /\ suspends \in 0 .. MaxSuspends /\ apm \in {0} \cup Pids
      OBVIOUS
    <3>2. suspend \in {"no", "fork", "wait"} /\ records \subseteq Pids
      OBVIOUS
    <3>3. delayed \in BOOLEAN /\ cleanup \in BOOLEAN
      OBVIOUS
    <3> QED BY <3>1, <3>2, <3>3 DEF OProcessType
  <2> QED BY <2>1, <2>2, <2>3, <2>4 DEF TypeOK
<1>2. OneProcess /\ ReadyIsListening /\ OneQuickLauncher
  BY DEF OneProcess, ReadyIsListening, OneQuickLauncher, Applications
<1>3. Structure
  BY DEF Structure
<1> QED BY <1>1, <1>2, <1>3 DEF IInv

-----------------------------------------------------------------------------
(* Types                                                                    *)

LEMMA ForksType ==
  ASSUME ChildrenType, NEW l \in Lives \ {"none"}, NEW a \in Apps \cup {NoApp}, Forks(l, a)
  PROVE  /\ New \in Pids /\ life[New] = "none" /\ ChildrenType'
         /\ \A p \in Pids \ {New} : life'[p] = life[p] /\ what'[p] = what[p]
         /\ life'[New] = l /\ what'[New] = a /\ regs' = regs
<1>1. New \in Pids /\ life[New] = "none"
  BY Constants DEF Forks, New, ChildrenType
<1>2. /\ forks' \in 0 .. MaxForks /\ regs' = regs
      /\ life' \in [Pids -> Lives] /\ what' \in [Pids -> Apps \cup {NoApp}]
  BY Constants DEF Forks, New, ChildrenType
<1>3. \A p \in Pids \ {New} : life'[p] = life[p] /\ what'[p] = what[p]
  BY <1>1 DEF Forks, ChildrenType
<1>4. life'[New] = l /\ what'[New] = a
  BY <1>1 DEF Forks, ChildrenType
<1>5. \A p \in Pids : life'[p] = "none" <=> p > forks'
  BY <1>1, <1>3, <1>4, Constants DEF Forks, New, ChildrenType
<1> QED BY <1>1, <1>2, <1>3, <1>4, <1>5 DEF ChildrenType

LEMMA ReapedType ==
  ASSUME ChildrenType, NEW R, R \subseteq Zombies, Reaped(R),
         UNCHANGED <<what, regs, forks>>
  PROVE  /\ ChildrenType'
         /\ \A p \in R : life'[p] = "reaped" /\ life[p] = "zombie"
         /\ \A p \in Pids \ R : life'[p] = life[p]
BY DEF ChildrenType, Reaped, Lives, Zombies

LEMMA MovesType ==
  ASSUME ChildrenType, NEW p \in Pids, NEW l \in Lives \ {"none"}, life[p] # "none",
         life' = [life EXCEPT ![p] = l], regs' \subseteq Pids, UNCHANGED forks,
         what' \in [Pids -> Apps \cup {NoApp}]
  PROVE  /\ ChildrenType' /\ life'[p] = l
         /\ \A q \in Pids \ {p} : life'[q] = life[q]
BY DEF ChildrenType

LEMMA RaisesType ==
  ASSUME SignalsType, Raises \/ UNCHANGED <<sigchld, coalesced>>,
         UNCHANGED <<inHandler, events, mistaken, taken, stolen>>, unmade' \in BOOLEAN
  PROVE  SignalsType'
<1>1. CASE Raises
  BY <1>1 DEF Raises, SignalsType
<1>2. CASE UNCHANGED <<sigchld, coalesced>>
  BY <1>2 DEF SignalsType
<1> QED BY <1>1, <1>2

LEMMA FailsType ==
  ASSUME OProcessType, Fails
  PROVE  fails' \in 0 .. MaxFails /\ fails' > 0
BY Constants DEF Fails, OProcessType
-----------------------------------------------------------------------------
(* Steps that leave the table alone                                         *)

(* What a child may do meanwhile *)
ChildStep(p) ==
  \/ life'[p] = life[p] /\ what'[p] = what[p]
  \/ life[p] = "none" /\ life'[p] = "apm"
  \/ life[p] \in Alive /\ life'[p] = "zombie"
  \/ life[p] = "zombie" /\ life'[p] = "reaped"
  \/ life[p] = "loading" /\ life'[p] = "listening"
  \/ life[p] = "told" /\ life'[p] = "app" /\ what'[p] = what[p]

LEMMA TableKept ==
  ASSUME IInv, UNCHANGED <<table, mistaken, unmade>>, \A p \in Pids : ChildStep(p),
         regs' \subseteq regs \cup {p \in Pids : life'[p] = "listening"},
         events' \cap Pids \subseteq events \cup {p \in Pids : life'[p] = "reaped"},
         events \subseteq events', stolen \subseteq stolen',
         \A p \in Pids : life[p] = "zombie" /\ life'[p] # "zombie" =>
                         p \in events' \cup stolen'
  PROVE  OneProcess' /\ ReadyIsListening' /\ OneQuickLauncher' /\ Structure'
<1> USE Constants DEF IInv
<1>1. OneProcess'
  <2>1. \A p \in Applications' : p \in Applications /\ what'[p] = what[p]
    BY DEF Applications, ChildStep
  <2> QED BY <2>1 DEF OneProcess, table
<1>2. qlPid # 0 => qlPid \in Pids /\ life'[qlPid] \in {"loading", "listening", "zombie", "reaped"}
  BY DEF Structure, ChildStep, TypeOK, TableType
<1>3. ReadyIsListening'
  <2>1. qlReady => qlPid # 0 /\ life'[qlPid] \in {"listening", "zombie", "reaped"}
    BY <1>2 DEF ReadyIsListening, ChildStep
  <2> QED BY <2>1 DEF ReadyIsListening, table
<1>4. OneQuickLauncher'
  <2>1. \A p \in Pids : life'[p] \in {"loading", "listening"} =>
                        life[p] \in {"loading", "listening"}
    BY DEF ChildStep
  <2>2. qlPid # 0 => \/ life'[qlPid] \in {"loading", "listening", "zombie"}
                     \/ qlPid \in events'
                     \/ qlPid \in stolen'
    <3> SUFFICES ASSUME qlPid # 0, life'[qlPid] = "reaped"
                 PROVE  qlPid \in events' \cup stolen'
      BY <1>2
    <3>1. qlPid \in Pids
      BY <1>2
    <3>2. CASE life[qlPid] = "zombie"
      BY <3>1, <3>2
    <3>3. CASE life[qlPid] # "zombie"
      <4>1. life[qlPid] = "reaped"
        BY <3>1, <3>3 DEF ChildStep
      <4>2. qlPid \in events \/ qlPid \in stolen
        BY <4>1 DEF OneQuickLauncher
      <4> QED BY <4>2
    <3> QED BY <3>2, <3>3
  <2>3. UNCHANGED <<qlPid, timers, disabled, unmade, mistaken>>
    BY DEF table
  <2>4. qlPid' = 0 => timers' > 0 \/ disabled' \/ unmade'
    BY <2>3 DEF OneQuickLauncher
  <2>5. \A p \in Pids : life'[p] \in {"loading", "listening"} => p = qlPid' \/ mistaken'
    BY <2>1, <2>3 DEF OneQuickLauncher
  <2> QED BY <2>2, <2>3, <2>4, <2>5 DEF OneQuickLauncher
<1>5. Structure'
  <2>1. \A p \in regs' : life'[p] \notin {"none", "loading", "apm"}
    BY DEF Structure, ChildStep, TypeOK, ChildrenType
  <2>2. \A p \in events' \cap Pids : life'[p] = "reaped"
    BY DEF Structure, ChildStep, Alive
  <2>3. ~ mistaken' /\ timers > 0 => timers = 1 /\ qlPid = 0
    BY DEF Structure
  <2>4. \A p \in Pids : runningApps[p] # NoApp => p # qlPid /\ life'[p] # "none"
    BY DEF Structure, ChildStep
  <2> QED BY <1>2, <2>1, <2>2, <2>3, <2>4 DEF Structure, table
<1> QED BY <1>1, <1>3, <1>4, <1>5

LEMMA DiesKeeps == ASSUME IInv, NEW p \in Pids, Dies(p) PROVE IInv'
<1> USE DEF IInv, TypeOK
<1>1. /\ ChildrenType' /\ life'[p] = "zombie"
      /\ \A q \in Pids \ {p} : life'[q] = life[q] /\ what'[q] = what[q]
  <2>1. what' \in [Pids -> Apps \cup {NoApp}] /\ \A q \in Pids \ {p} : what'[q] = what[q]
    BY DEF Dies, ChildrenType
  <2> QED BY <2>1, MovesType DEF Dies, Alive, Lives, ChildrenType, bounds
<1>2. SignalsType' /\ UNCHANGED <<mistaken, unmade, taken, stolen>>
  BY RaisesType DEF Dies, tracked, SignalsType
<1>3. TableType' /\ OProcessType'
  BY DEF Dies, TableType, OProcessType, table, oprocess, bounds
<1>4. \A q \in Pids : ChildStep(q)
  BY <1>1 DEF ChildStep, Dies
<1>5. OneProcess' /\ ReadyIsListening' /\ OneQuickLauncher' /\ Structure'
  <2>1. \A q \in Pids : life[q] = "zombie" => life'[q] = "zombie"
    BY <1>1
  <2> QED BY <1>2, <1>4, <2>1, TableKept DEF Dies
<1> QED BY <1>1, <1>2, <1>3, <1>5

LEMMA QuickKeeps ==
  ASSUME IInv, NEW p \in Pids, Registers(p) \/ QuickExecutes(p)
  PROVE  IInv'
<1> USE DEF IInv, TypeOK
<1>1. /\ ChildrenType' /\ what' = what
      /\ \A q \in Pids \ {p} : life'[q] = life[q]
      /\ \/ life[p] = "loading" /\ life'[p] = "listening"
         \/ life[p] = "told" /\ life'[p] = "app"
  <2>1. what' = what /\ what' \in [Pids -> Apps \cup {NoApp}] /\ regs' \subseteq Pids
        /\ forks' = forks
    BY DEF Registers, QuickExecutes, ChildrenType, bounds
  <2>2. CASE Registers(p)
    BY <2>1, <2>2, MovesType DEF Registers, Alive, Lives
  <2>3. CASE QuickExecutes(p)
    BY <2>1, <2>3, MovesType DEF QuickExecutes, Alive, Lives
  <2> QED BY <2>2, <2>3
<1>2. SignalsType' /\ TableType' /\ OProcessType'
  BY DEF Registers, QuickExecutes, SignalsType, TableType, OProcessType,
         table, oprocess, signals, history, bounds
<1>3. \A q \in Pids : ChildStep(q)
  BY <1>1 DEF ChildStep
<1>4. OneProcess' /\ ReadyIsListening' /\ OneQuickLauncher' /\ Structure'
  <2>1. regs' \subseteq regs \cup {q \in Pids : life'[q] = "listening"}
    <3>1. CASE Registers(p)
      BY <3>1, <1>1 DEF Registers
    <3>2. CASE QuickExecutes(p)
      BY <3>2 DEF QuickExecutes
    <3> QED BY <3>1, <3>2
  <2>2. \A q \in Pids : life[q] = "zombie" => life'[q] = "zombie"
    BY <1>1
  <2> QED BY <1>3, <2>1, <2>2, TableKept DEF Registers, QuickExecutes, signals, history
<1> QED BY <1>1, <1>2, <1>4

(* A signal handler that waited for R *)
LEMMA WaitKeeps ==
  ASSUME IInv, NEW R, R \subseteq Zombies, Reaped(R),
         HandlerRest, SignalsType',
         records' \subseteq records \cup R, delayed' \in BOOLEAN,
         events' \cap Pids \subseteq events \cup R, events \subseteq events',
         stolen \subseteq stolen', R \subseteq events' \cup stolen'
  PROVE  IInv'
<1> USE DEF IInv, TypeOK, HandlerRest
<1>1. /\ ChildrenType' /\ \A p \in R : life'[p] = "reaped" /\ life[p] = "zombie"
      /\ \A p \in Pids \ R : life'[p] = life[p]
  BY ReapedType DEF bounds
<1>2. \A p \in Pids : ChildStep(p)
  BY <1>1 DEF ChildStep
<1>3. TableType' /\ OProcessType'
  BY DEF TableType, OProcessType, table, bounds, Zombies
<1>4. R \subseteq {p \in Pids : life'[p] = "reaped"}
  BY <1>1 DEF Zombies
<1>5. OneProcess' /\ ReadyIsListening' /\ OneQuickLauncher' /\ Structure'
  <2>1. events' \cap Pids \subseteq events \cup {p \in Pids : life'[p] = "reaped"}
    BY <1>4
  <2>2. regs' \subseteq regs \cup {p \in Pids : life'[p] = "listening"}
        /\ UNCHANGED <<table, mistaken, unmade>>
    OBVIOUS
  <2>3. \A p \in Pids : life[p] = "zombie" /\ life'[p] # "zombie" => p \in R
    BY <1>1
  <2> QED BY <1>2, <2>1, <2>2, <2>3, TableKept
<1> QED BY <1>1, <1>3, <1>5

LEMMA NothingReaped == ASSUME ChildrenType, life' = life PROVE Reaped({})
BY DEF ChildrenType, Reaped

LEMMA OProcessHandlerKeeps == ASSUME IInv, OProcessHandler PROVE IInv'
<1>1. HandlerRest /\ UNCHANGED <<events, coalesced, taken>> /\ sigchld' = FALSE
      /\ UNCHANGED <<mistaken, unmade>>
  BY DEF OProcessHandler, HandlerRest
<1>2. CASE \E q \in Watched : /\ Reaped({q}) /\ records' = records \cup {q}
                              /\ delayed' = TRUE /\ stolen' = stolen \cup {q}
                              /\ UNCHANGED inHandler
  <2>1. PICK q \in Watched : /\ Reaped({q}) /\ records' = records \cup {q}
                             /\ stolen' = stolen \cup {q}
    BY <1>2
  <2>2. {q} \subseteq Zombies
    BY DEF IInv, TypeOK, OProcessType, Watched
  <2>3. stolen' \subseteq Pids
    BY <2>1, <2>2 DEF Zombies, IInv, TypeOK, SignalsType
  <2>4. SignalsType' /\ delayed' = TRUE
    BY <1>1, <1>2, <2>3 DEF IInv, TypeOK, SignalsType
  <2> QED BY <1>1, <2>1, <2>2, <2>4, WaitKeeps
<1>3. CASE inHandler' = TRUE /\ UNCHANGED <<life, records, delayed, stolen>>
  <2>1. SignalsType' /\ delayed' \in BOOLEAN
    BY <1>1, <1>3 DEF IInv, TypeOK, SignalsType, OProcessType
  <2>2. Reaped({})
    BY <1>3, NothingReaped DEF IInv, TypeOK
  <2>3. {} \subseteq Zombies /\ records' \subseteq records \cup {}
    BY <1>3
  <2> QED BY <1>1, <1>3, <2>1, <2>2, <2>3, WaitKeeps
<1> QED BY <1>2, <1>3 DEF OProcessHandler

LEMMA SignalHandlerKeeps == ASSUME IInv, SignalHandler PROVE IInv'
<1>1. /\ HandlerRest /\ UNCHANGED <<mistaken, unmade>>
      /\ UNCHANGED <<sigchld, coalesced, stolen, records>>
      /\ inHandler' = FALSE
  BY DEF SignalHandler, HandlerRest
<1>2. delayed' \in BOOLEAN
  BY DEF SignalHandler, HandlerSet, IInv, TypeOK, OProcessType
<1>3. CASE \E q \in Zombies : /\ Reaped({q}) /\ events' = events \cup {q}
                              /\ taken' = (taken \/ (q = apm /\ suspend # "no"))
  <2>1. PICK q \in Zombies : /\ Reaped({q}) /\ events' = events \cup {q}
                             /\ taken' = (taken \/ (q = apm /\ suspend # "no"))
    BY <1>3
  <2>2. q \in Keys /\ q # 0 /\ {q} \subseteq Zombies
    BY Constants DEF Zombies
  <2>3. taken' \in BOOLEAN
    BY <2>1 DEF IInv, TypeOK, SignalsType
  <2>4. SignalsType'
    BY <1>1, <2>1, <2>2, <2>3 DEF IInv, TypeOK, SignalsType
  <2> QED BY <1>1, <1>2, <2>1, <2>2, <2>4, WaitKeeps
<1>4. CASE /\ events' = events \cup {IF \E q \in Pids : life[q] \in Alive THEN 0 ELSE -1}
           /\ UNCHANGED <<life, taken>>
  <2>1. PICK k \in {0, -1} : events' = events \cup {k}
    BY <1>4
  <2>2. Reaped({}) /\ k \in Keys \cup {0} /\ k \notin Pids
    BY <1>4, NothingReaped, Constants DEF IInv, TypeOK
  <2>3. SignalsType'
    BY <1>1, <1>4, <2>1, <2>2 DEF IInv, TypeOK, SignalsType
  <2>4. {} \subseteq Zombies /\ events' \cap Pids \subseteq events \cup {}
    BY <2>1, <2>2
  <2> QED BY <1>1, <1>2, <2>1, <2>2, <2>3, <2>4, WaitKeeps
<1> QED BY <1>3, <1>4 DEF SignalHandler

LEMMA SuspendForksKeeps == ASSUME IInv, SuspendForks PROVE IInv'
<1> USE DEF IInv, TypeOK
<1>1. /\ UNCHANGED <<table, inHandler, events, records, delayed, cleanup>>
      /\ UNCHANGED <<sigchld, coalesced, mistaken, unmade, taken, stolen>>
      /\ suspends' \in 0 .. MaxSuspends
  BY Constants DEF SuspendForks, SuspendRest, ForkSucceeds, ForkFails, tracked, OProcessType
<1>2. /\ ChildrenType' /\ regs' = regs /\ \A q \in Pids : ChildStep(q)
      /\ suspend' \in {"no", "fork"} /\ apm' \in {0} \cup Pids
      /\ fails' \in 0 .. MaxFails
      /\ \A q \in Pids : life[q] = "zombie" => life'[q] = "zombie"
  <2>1. CASE ForkSucceeds("apm", NoApp) /\ suspend' = "fork" /\ apm' = New
    BY <2>1, ForksType DEF ForkSucceeds, ChildStep, Lives, Alive, OProcessType
  <2>2. CASE ForkFails /\ UNCHANGED <<suspend, apm>>
    BY <2>2, FailsType DEF ForkFails, SuspendForks, ChildStep, OProcessType,
       ChildrenType, children
  <2> QED BY <2>1, <2>2 DEF SuspendForks
<1>3. TableType' /\ SignalsType'
  BY <1>1 DEF TableType, SignalsType, table
<1>4. OProcessType'
  BY <1>1, <1>2 DEF OProcessType
<1>5. OneProcess' /\ ReadyIsListening' /\ OneQuickLauncher' /\ Structure'
  BY <1>1, <1>2, <1>3, TableKept
<1> QED BY <1>2, <1>3, <1>4, <1>5

LEMMA OProcessKeeps ==
  ASSUME IInv,
         SuspendGoesOn \/ ReadDelayed \/ DelayedChildrenCleanup \/ \E p \in Pids : ReadRecord(p)
  PROVE  IInv'
<1> USE DEF IInv, TypeOK
<1>1. OProcessRest
  BY DEF SuspendGoesOn, ReadDelayed, DelayedChildrenCleanup, ReadRecord
<1>2. ChildrenType' /\ \A q \in Pids : ChildStep(q)
  <2>1. CASE Reaped(Zombies)
    BY <1>1, <2>1, ReapedType DEF ChildStep, OProcessRest
  <2>2. CASE life' = life
    BY <1>1, <2>2 DEF ChildStep, OProcessRest, ChildrenType
  <2> QED BY <2>1, <2>2 DEF SuspendGoesOn, ReadDelayed, DelayedChildrenCleanup, ReadRecord
<1>6. /\ stolen \subseteq stolen' /\ stolen' \subseteq Pids
      /\ \A q \in Pids : life[q] = "zombie" /\ life'[q] # "zombie" => q \in stolen'
  <2>1. CASE Reaped(Zombies) /\ stolen' = stolen \cup Zombies
    BY <2>1 DEF Zombies, SignalsType
  <2>2. CASE UNCHANGED <<life, stolen>>
    BY <2>2 DEF SignalsType
  <2> QED BY <2>1, <2>2 DEF SuspendGoesOn, ReadDelayed, DelayedChildrenCleanup, ReadRecord
<1>3. OProcessType'
  <2>1. CASE SuspendGoesOn
    BY <1>1, <2>1, FailsType DEF SuspendGoesOn, OProcessRest, OProcessType
  <2>2. CASE ReadDelayed
    BY <1>1, <2>2 DEF ReadDelayed, OProcessRest, OProcessType
  <2>3. CASE DelayedChildrenCleanup
    <3>1. records' \subseteq Pids
      BY <2>3 DEF DelayedChildrenCleanup, Zombies, OProcessType
    <3> QED BY <1>1, <2>3, <3>1 DEF DelayedChildrenCleanup, OProcessRest, OProcessType
  <2>4. CASE \E p \in Pids : ReadRecord(p)
    BY <1>1, <2>4 DEF ReadRecord, OProcessRest, OProcessType
  <2> QED BY <2>1, <2>2, <2>3, <2>4
<1>4. TableType' /\ SignalsType'
  BY <1>1, <1>6 DEF OProcessRest, TableType, SignalsType, table, signals
<1>5. OneProcess' /\ ReadyIsListening' /\ OneQuickLauncher' /\ Structure'
  BY <1>1, <1>2, <1>6, TableKept DEF OProcessRest, signals
<1> QED BY <1>2, <1>3, <1>4, <1>5

-----------------------------------------------------------------------------
(* Steps of AppLauncher                                                     *)

(* The new entry of execute() *)
Entered(a, k) == [Dropped(a) EXCEPT ![k] = a]

LEMMA Enters ==
  ASSUME IInv, NEW a \in Apps, ~ IsRunning(a), NEW k \in Keys,
         runningApps' = Entered(a, k),
         \A p \in Applications' : \/ p \in Applications /\ p # k /\ what'[p] = what[p]
                                  \/ p = k /\ what'[p] = a
  PROVE  OneProcess' /\ runningApps' \in [Keys -> Apps \cup {NoApp}]
<1>1. /\ runningApps'[k] = a /\ runningApps' \in [Keys -> Apps \cup {NoApp}]
      /\ \A j \in Keys \ {k} :
           runningApps'[j] = IF runningApps[j] = a THEN NoApp ELSE runningApps[j]
  BY DEF Entered, Dropped, IInv, TypeOK, TableType
<1>2. \A p \in Applications' : runningApps'[p] = what'[p]
  <2> SUFFICES ASSUME NEW p \in Applications' PROVE runningApps'[p] = what'[p]
    OBVIOUS
  <2>1. CASE p = k /\ what'[p] = a
    BY <1>1, <2>1
  <2>2. CASE p \in Applications /\ p # k /\ what'[p] = what[p]
    <3>1. runningApps[p] = what[p] /\ p \in Keys
      BY <2>2, Constants DEF IInv, OneProcess, Applications
    <3>2. runningApps[p] # a
      BY <2>2 DEF IsRunning, Applications
    <3> QED BY <1>1, <2>2, <3>1, <3>2
  <2> QED BY <2>1, <2>2
<1>3. \A i, j \in Keys : runningApps'[i] = runningApps'[j] => i = j \/ runningApps'[i] = NoApp
  BY <1>1, Constants DEF IInv, OneProcess
<1> QED BY <1>1, <1>2, <1>3 DEF OneProcess

(* What a step of AppLauncher leaves of the types *)
LEMMA LauncherRestType ==
  ASSUME IInv, LauncherRest, Raises \/ UNCHANGED <<sigchld, coalesced>>,
         fails' \in 0 .. MaxFails, unmade' \in BOOLEAN
  PROVE  /\ SignalsType' /\ OProcessType'
         /\ mistaken' = mistaken /\ events' = events /\ stolen' = stolen
<1>1. SignalsType' /\ mistaken' = mistaken
  BY RaisesType DEF LauncherRest, IInv, TypeOK
<1> QED BY <1>1 DEF LauncherRest, IInv, TypeOK, OProcessType, oprocess

LEMMA ExecuteQuickKeeps == ASSUME IInv, NEW a \in Apps, ExecuteQuick(a) PROVE IInv'
<1> USE Constants DEF TypeOK
<1>1. /\ ~ IsRunning(a) /\ qlPid \in Pids /\ qlReady
      /\ qlPid' = 0 /\ qlReady' = FALSE
      /\ life[qlPid] \in {"listening", "zombie", "reaped"}
  BY DEF ExecuteQuick, IInv, TableType, ReadyIsListening
<1>2. /\ timers' = timers + 1 /\ disabled' = disabled /\ regs' = regs
      /\ forks' = forks /\ fails' = fails /\ LauncherRest
      /\ UNCHANGED <<sigchld, coalesced>> /\ unmade' = unmade
      /\ runningApps' = [Dropped(a) EXCEPT ![qlPid] = a]
  BY DEF ExecuteQuick
<1>3. /\ SignalsType' /\ OProcessType'
      /\ mistaken' = mistaken /\ events' = events /\ stolen' = stolen
  <2>1. fails' \in 0 .. MaxFails /\ unmade' \in BOOLEAN
    BY <1>2 DEF IInv, OProcessType, SignalsType
  <2> QED BY <1>2, <2>1, LauncherRestType
<1>4. /\ ChildrenType'
      /\ \A p \in Pids \ {qlPid} : life'[p] = life[p] /\ what'[p] = what[p]
      /\ \/ /\ life[qlPid] = "listening" /\ life'[qlPid] = "told"
            /\ what'[qlPid] = a
         \/ life'[qlPid] = life[qlPid] /\ life[qlPid] \in {"zombie", "reaped"}
  <2>1. CASE life[qlPid] = "listening"
    <3>1. /\ life' = [life EXCEPT ![qlPid] = "told"]
          /\ what' = [what EXCEPT ![qlPid] = a]
      BY <2>1 DEF ExecuteQuick
    <3>2. what' \in [Pids -> Apps \cup {NoApp}] /\ what'[qlPid] = a
          /\ \A p \in Pids \ {qlPid} : what'[p] = what[p]
      BY <1>1, <3>1 DEF IInv, ChildrenType
    <3>3. regs' \subseteq Pids /\ "told" \in Lives \ {"none"}
      BY <1>2 DEF IInv, ChildrenType, Lives, Alive
    <3> QED BY <1>1, <1>2, <2>1, <3>1, <3>2, <3>3, MovesType DEF IInv
  <2>2. CASE life[qlPid] # "listening"
    BY <1>1, <1>2, <2>2 DEF ExecuteQuick, IInv, ChildrenType
  <2> QED BY <2>1, <2>2
<1>5. OneProcess' /\ runningApps' \in [Keys -> Apps \cup {NoApp}]
  <2>1. PICK k \in Keys : k = qlPid
    BY <1>1
  <2>2. \A p \in Applications' : \/ p \in Applications /\ p # k /\ what'[p] = what[p]
                                 \/ p = k /\ what'[p] = a
    BY <1>4, <2>1 DEF Applications
  <2>3. runningApps' = Entered(a, k)
    BY <1>2, <2>1 DEF Entered
  <2> QED BY <1>1, <2>2, <2>3, Enters
<1>6. TableType'
  <2>1. qlPid' = 0 /\ timers' \in Nat
    BY <1>1, <1>2 DEF IInv, TableType
  <2>2. qlReady' \in BOOLEAN /\ disabled' \in BOOLEAN
    BY <1>1, <1>2 DEF IInv, TableType
  <2> QED BY <1>5, <2>1, <2>2 DEF TableType
<1>7. ReadyIsListening'
  BY <1>1 DEF ReadyIsListening
<1>8. OneQuickLauncher'
  <2>1. timers' > 0
    BY <1>2 DEF IInv, TableType
  <2>2. \A p \in Pids : life'[p] \in {"loading", "listening"} => mistaken
    BY <1>4 DEF IInv, OneQuickLauncher
  <2> QED BY <1>1, <1>3, <2>1, <2>2 DEF OneQuickLauncher
<1>9. Structure'
  <2>1. \A p \in regs' : life'[p] \notin {"none", "loading", "apm"}
    BY <1>2, <1>4 DEF IInv, Structure, ChildrenType
  <2>2. \A p \in events' \cap Pids : life'[p] = "reaped"
    <3>1. \A p \in Pids : life[p] = "reaped" => life'[p] = "reaped"
      BY <1>4
    <3> QED BY <1>3, <3>1 DEF IInv, Structure
  <2>3. ~ mistaken' /\ timers' > 0 => timers' = 1 /\ qlPid' = 0
    <3>1. /\ qlPid # 0 /\ timers \in Nat
          /\ ~ mistaken /\ timers > 0 => timers = 1 /\ qlPid = 0
      BY <1>1 DEF IInv, Structure, TableType
    <3> QED BY <3>1, <1>1, <1>2, <1>3
  <2>4. \A p \in Pids : runningApps'[p] # NoApp => p # qlPid' /\ life'[p] # "none"
    <3>1. \A p \in Pids : life[p] # "none" => life'[p] # "none"
      BY <1>4
    <3>2. \A p \in Pids : runningApps'[p] # NoApp => p = qlPid \/ runningApps[p] # NoApp
      BY <1>2 DEF IInv, TableType, Dropped
    <3>3. life[qlPid] # "none"
      BY <1>1
    <3> QED BY <1>1, <3>1, <3>2, <3>3, Constants DEF IInv, Structure
  <2> QED BY <1>1, <2>1, <2>2, <2>3, <2>4 DEF Structure
<1> QED BY <1>3, <1>4, <1>5, <1>6, <1>7, <1>8, <1>9 DEF IInv

(* A child the table or the quicklauncher get: it is a new one *)
LEMMA NewIsNew ==
  ASSUME IInv, New \in Pids, life[New] = "none"
  PROVE  /\ New \notin regs /\ New \notin events /\ New # qlPid
         /\ runningApps[New] = NoApp
         /\ New \notin Applications
<1>1. New \notin Applications
  BY DEF Applications
<1>2. New \notin regs /\ New \notin events
  BY DEF IInv, Structure
<1>3. New # qlPid /\ runningApps[New] = NoApp
  BY Constants DEF IInv, Structure
<1> QED BY <1>1, <1>2, <1>3

(* vfork() in AppLauncher *)
ForkOf(l, a) == ForkSucceeds(l, a) \/ ExecFails \/ ForkFails

LEMMA ForkOfType ==
  ASSUME IInv, NEW l \in {"app", "loading"}, NEW a \in Apps \cup {NoApp}, ForkOf(l, a)
  PROVE  /\ ChildrenType' /\ regs' = regs /\ fails' \in 0 .. MaxFails
         /\ Raises \/ UNCHANGED <<sigchld, coalesced>>
         /\ \A p \in Pids : \/ life'[p] = life[p] /\ what'[p] = what[p]
                            \/ /\ p = New /\ life[p] = "none" /\ what'[p] \in {a, NoApp}
                               /\ life'[p] \in {l, "zombie"}
<1> USE DEF IInv, TypeOK
<1>1. CASE ForkSucceeds(l, a)
  <2>1. l \in Lives \ {"none"}
    BY DEF Lives, Alive
  <2> QED BY <1>1, <2>1, ForksType DEF ForkSucceeds, OProcessType
<1>2. CASE ExecFails
  <2>1. "zombie" \in Lives \ {"none"} /\ Forks("zombie", NoApp) /\ Raises
    BY <1>2 DEF Lives, Alive, ExecFails
  <2> QED BY <1>2, <2>1, ForksType, FailsType DEF ExecFails
<1>3. CASE ForkFails
  BY <1>3, FailsType DEF ForkFails, ChildrenType, children
<1> QED BY <1>1, <1>2, <1>3 DEF ForkOf

LEMMA ExecuteForkKeeps == ASSUME IInv, NEW a \in Apps, ExecuteFork(a) PROVE IInv'
<1> USE Constants DEF TypeOK
<1>1. /\ UNCHANGED <<qlPid, qlReady, timers, disabled, unmade>> /\ LauncherRest
      /\ ~ IsRunning(a) /\ ForkOf("app", a)
  BY DEF ExecuteFork, ForkOf
<1>2. /\ ChildrenType' /\ regs' = regs /\ fails' \in 0 .. MaxFails
      /\ Raises \/ UNCHANGED <<sigchld, coalesced>>
      /\ \A p \in Pids : \/ life'[p] = life[p] /\ what'[p] = what[p]
                         \/ /\ p = New /\ life[p] = "none" /\ what'[p] \in {a, NoApp}
                            /\ life'[p] \in {"app", "zombie"}
  BY <1>1, ForkOfType
<1>3. /\ SignalsType' /\ OProcessType'
      /\ mistaken' = mistaken /\ events' = events /\ stolen' = stolen
  <2>1. unmade' \in BOOLEAN
    BY <1>1 DEF IInv, SignalsType
  <2> QED BY <1>1, <1>2, <2>1, LauncherRestType
<1>4. OneProcess' /\ runningApps' \in [Keys -> Apps \cup {NoApp}]
  <2>1. CASE /\ ForkSucceeds("app", a) \/ ExecFails
             /\ runningApps' = [Dropped(a) EXCEPT ![New] = a]
    <3>1. /\ New \in Pids /\ life[New] = "none"
          /\ (life'[New] = "app" /\ what'[New] = a) \/ life'[New] = "zombie"
      <4>1. CASE ForkSucceeds("app", a)
        BY <4>1, ForksType DEF ForkSucceeds, Lives, Alive, IInv
      <4>2. CASE ExecFails
        BY <4>2, ForksType DEF ExecFails, Lives, Alive, IInv
      <4> QED BY <2>1, <4>1, <4>2
    <3>2. PICK k \in Keys : k = New
      BY <3>1
    <3>3. runningApps' = Entered(a, k)
      BY <2>1, <3>2 DEF Entered
    <3>4. \A p \in Applications' : \/ p \in Applications /\ p # k /\ what'[p] = what[p]
                                   \/ p = k /\ what'[p] = a
      BY <1>2, <3>1, <3>2 DEF Applications
    <3> QED BY <1>1, <3>3, <3>4, Enters
  <2>2. CASE ForkFails /\ runningApps' = [Dropped(a) EXCEPT ![-1] = a]
    <3>1. PICK k \in Keys : k = -1
      OBVIOUS
    <3>2. runningApps' = Entered(a, k)
      BY <2>2, <3>1 DEF Entered
    <3>3. \A p \in Applications' : p \in Applications /\ p # k /\ what'[p] = what[p]
      BY <2>2, <3>1 DEF Applications, ForkFails, children
    <3> QED BY <1>1, <3>2, <3>3, Enters
  <2> QED BY <2>1, <2>2 DEF ExecuteFork
<1>5. TableType'
  BY <1>1, <1>4 DEF IInv, TableType
<1>6. \A p \in Pids : life[p] # "none" => life'[p] = life[p]
  BY <1>2
<1>7. \A p \in Pids : life'[p] \in {"loading", "listening"} => life'[p] = life[p]
  BY <1>2
<1>8. ReadyIsListening'
  BY <1>1, <1>6 DEF IInv, ReadyIsListening, TableType
<1>9. OneQuickLauncher'
  BY <1>1, <1>3, <1>6, <1>7 DEF IInv, OneQuickLauncher, TableType
<1>10. Structure'
  <2>1. qlPid' # 0 => life'[qlPid'] \in {"loading", "listening", "zombie", "reaped"}
    BY <1>1, <1>6 DEF IInv, Structure, TableType
  <2>2. /\ \A p \in regs' : life'[p] \notin {"none", "loading", "apm"}
        /\ \A p \in events' \cap Pids : life'[p] = "reaped"
    BY <1>2, <1>3, <1>6 DEF IInv, Structure, ChildrenType
  <2>3. \A p \in Pids : runningApps'[p] # NoApp =>
          runningApps[p] # NoApp \/ (p = New /\ life[p] = "none" /\ life'[p] # "none")
    <3>1. CASE /\ ForkSucceeds("app", a) \/ ExecFails
               /\ runningApps' = [Dropped(a) EXCEPT ![New] = a]
      <4>1. life[New] = "none" /\ New \in Pids /\ life'[New] # "none"
        BY <3>1, ForksType DEF ForkSucceeds, ExecFails, Lives, Alive, IInv
      <4> QED BY <3>1, <4>1 DEF Dropped, IInv, TableType
    <3>2. CASE runningApps' = [Dropped(a) EXCEPT ![-1] = a]
      BY <3>2 DEF Dropped, IInv, TableType
    <3> QED BY <3>1, <3>2 DEF ExecuteFork
  <2>4. \A p \in Pids : runningApps'[p] # NoApp => p # qlPid /\ life'[p] # "none"
    BY <1>6, <2>3, NewIsNew DEF IInv, Structure
  <2> QED BY <1>1, <1>3, <2>1, <2>2, <2>4 DEF IInv, Structure
<1> QED BY <1>2, <1>3, <1>4, <1>5, <1>8, <1>9, <1>10 DEF IInv

LEMMA CreateKeeps == ASSUME IInv, CreateQuickLauncher PROVE IInv'
<1> USE Constants DEF TypeOK
<1>1. /\ LauncherRest /\ UNCHANGED runningApps
      /\ timers > 0 /\ timers' = timers - 1 /\ qlReady' = FALSE
      /\ disabled' \in BOOLEAN /\ unmade' = (qlPid' = 0)
      /\ ForkOf("loading", NoApp)
  BY DEF CreateQuickLauncher, ForkOf, IInv, TableType
<1>2. /\ ChildrenType' /\ regs' = regs /\ fails' \in 0 .. MaxFails
      /\ Raises \/ UNCHANGED <<sigchld, coalesced>>
      /\ \A p \in Pids : \/ life'[p] = life[p] /\ what'[p] = what[p]
                         \/ /\ p = New /\ life[p] = "none" /\ what'[p] \in {NoApp, NoApp}
                            /\ life'[p] \in {"loading", "zombie"}
  BY <1>1, ForkOfType
<1>3. /\ SignalsType' /\ OProcessType'
      /\ mistaken' = mistaken /\ events' = events /\ stolen' = stolen
  <2>1. unmade' \in BOOLEAN
    BY <1>1
  <2> QED BY <1>1, <1>2, <2>1, LauncherRestType
<1>4. \/ /\ qlPid' = New /\ New \in Pids /\ life[New] = "none"
         /\ life'[New] \in {"loading", "zombie"}
      \/ qlPid' = 0 /\ life' = life /\ what' = what
  <2>1. CASE ForkSucceeds("loading", NoApp) /\ qlPid' = New
    BY <2>1, ForksType DEF ForkSucceeds, Lives, Alive, IInv
  <2>2. CASE ExecFails /\ qlPid' = New
    BY <2>2, ForksType DEF ExecFails, Lives, Alive, IInv
  <2>3. CASE ForkFails /\ qlPid' = 0
    BY <2>3, FailsType DEF ForkFails, children, IInv
  <2> QED BY <2>1, <2>2, <2>3 DEF CreateQuickLauncher
<1>5. OneProcess'
  <2>1. \A p \in Applications' : p \in Applications /\ what'[p] = what[p]
    BY <1>2 DEF Applications
  <2> QED BY <1>1, <2>1 DEF IInv, OneProcess
<1>6. TableType'
  <2>1. qlPid' \in {0} \cup Pids /\ timers' \in Nat
    BY <1>1, <1>4 DEF IInv, TableType
  <2>2. qlReady' \in BOOLEAN /\ runningApps' \in [Keys -> Apps \cup {NoApp}]
    BY <1>1 DEF IInv, TableType
  <2> QED BY <1>1, <2>1, <2>2 DEF TableType
<1>7. ReadyIsListening'
  BY <1>1 DEF ReadyIsListening
<1>8. ~ mistaken => timers' = 0 /\ qlPid = 0
  BY <1>1 DEF IInv, Structure, TableType
<1>9. OneQuickLauncher'
  <2>1. qlPid' = 0 => unmade'
    BY <1>1
  <2>3. qlPid' # 0 => life'[qlPid'] \in {"loading", "zombie"}
    BY <1>4
  <2>2. ASSUME NEW p \in Pids, life'[p] \in {"loading", "listening"}
        PROVE  p = qlPid' \/ mistaken
    <3>1. CASE life[p] = life'[p]
      BY <1>8, <2>2, <3>1 DEF IInv, OneQuickLauncher
    <3>2. CASE life[p] # life'[p]
      BY <1>2, <1>4, <3>2
    <3> QED BY <3>1, <3>2
  <2> QED BY <1>3, <2>1, <2>2, <2>3 DEF OneQuickLauncher
<1>10. Structure'
  <2>1. \A p \in Pids : life[p] # "none" => life'[p] = life[p]
    BY <1>2
  <2>2. qlPid' # 0 => life'[qlPid'] \in {"loading", "listening", "zombie", "reaped"}
    BY <1>4
  <2>3. /\ \A p \in regs' : life'[p] \notin {"none", "loading", "apm"}
        /\ \A p \in events' \cap Pids : life'[p] = "reaped"
    BY <1>2, <1>3, <2>1 DEF IInv, Structure, ChildrenType
  <2>4. \A p \in Pids : runningApps'[p] # NoApp => p # qlPid' /\ life'[p] # "none"
    <3>1. \A p \in Pids : runningApps[p] # NoApp => life[p] # "none" /\ life'[p] # "none"
      BY <2>1 DEF IInv, Structure
    <3>2. qlPid' \in Pids => life[qlPid'] = "none"
      BY <1>4, Constants
    <3> QED BY <1>1, <3>1, <3>2
  <2> QED BY <1>3, <1>8, <2>2, <2>3, <2>4 DEF IInv, Structure
<1> QED BY <1>2, <1>3, <1>5, <1>6, <1>7, <1>9, <1>10 DEF IInv

(* The other steps of the event loop leave the children alone *)
LEMMA ChildrenKept ==
  ASSUME IInv, UNCHANGED <<life, what, oprocess, bounds>>, SignalsType,
         UNCHANGED <<coalesced, unmade, taken, stolen>>, mistaken' \in BOOLEAN,
         UNCHANGED <<sigchld, inHandler>>, regs' \subseteq regs, events' \subseteq events
  PROVE  ChildrenType' /\ OProcessType' /\ SignalsType'
<1>1. ChildrenType' /\ OProcessType'
  BY DEF IInv, TypeOK, ChildrenType, OProcessType, oprocess, bounds
<1>2. SignalsType'
  BY DEF SignalsType
<1> QED BY <1>1, <1>2

LEMMA CreateDisabledKeeps == ASSUME IInv, CreateDisabled PROVE IInv'
<1> USE DEF CreateDisabled
<1>1. UNCHANGED <<children, signals, oprocess, history, bounds>>
      /\ UNCHANGED <<runningApps, qlPid, qlReady, disabled>>
  OBVIOUS
<1>2. ChildrenType' /\ OProcessType' /\ SignalsType'
  BY <1>1, ChildrenKept DEF IInv, TypeOK, SignalsType, children, signals, history
<1>3. timers' = timers - 1 /\ timers > 0 /\ disabled /\ timers \in Nat /\ timers' \in Nat
  BY DEF IInv, TypeOK, TableType
<1>4. TableType'
  BY <1>1, <1>3 DEF IInv, TypeOK, TableType
<1>5. OneProcess' /\ ReadyIsListening'
  BY <1>1 DEF IInv, OneProcess, ReadyIsListening, Applications, children
<1>6. OneQuickLauncher'
  BY <1>1, <1>3 DEF IInv, OneQuickLauncher, children, history, signals
<1>7. Structure'
  <2>1. ~ mistaken' /\ timers' > 0 => timers' = 1 /\ qlPid' = 0
    BY <1>1, <1>3 DEF IInv, Structure, history
  <2> QED BY <1>1, <2>1 DEF IInv, Structure, children, signals, history
<1> QED BY <1>2, <1>4, <1>5, <1>6, <1>7 DEF IInv, TypeOK

LEMMA NewQcopChannelKeeps == ASSUME IInv, NEW p \in Pids, NewQcopChannel(p) PROVE IInv'
<1> USE DEF NewQcopChannel
<1>1. /\ UNCHANGED <<life, what, signals, oprocess, history, bounds>>
      /\ UNCHANGED <<runningApps, qlPid, timers, disabled>>
      /\ regs' = regs \ {p} /\ p \in regs
  OBVIOUS
<1>2. ChildrenType' /\ OProcessType' /\ SignalsType'
  BY <1>1, ChildrenKept DEF IInv, TypeOK, SignalsType, signals, history
<1>3. TableType'
  BY <1>1 DEF IInv, TypeOK, TableType
<1>4. OneProcess'
  BY <1>1 DEF IInv, OneProcess, Applications
<1>5. ReadyIsListening'
  <2>1. CASE p = qlPid
    BY <1>1, <2>1, Constants DEF IInv, Structure, ReadyIsListening
  <2>2. CASE p # qlPid
    BY <1>1, <2>2 DEF IInv, TypeOK, TableType, ReadyIsListening
  <2> QED BY <2>1, <2>2
<1>6. OneQuickLauncher'
  BY <1>1 DEF IInv, OneQuickLauncher, history, signals
<1>7. Structure'
  BY <1>1 DEF IInv, Structure, signals, history
<1> QED BY <1>2, <1>3, <1>4, <1>5, <1>6, <1>7 DEF IInv, TypeOK

LEMMA SigStoppedKeeps == ASSUME IInv, NEW k \in Keys \cup {0}, SigStopped(k) PROVE IInv'
<1> USE DEF SigStopped
<1>1. /\ UNCHANGED <<disabled, children, sigchld, inHandler, oprocess, bounds>>
      /\ UNCHANGED <<coalesced, unmade, taken, stolen>>
      /\ mistaken' = (mistaken \/ (k = 0 /\ qlPid = 0))
      /\ events' = events \ {k} /\ k \in events
  OBVIOUS
<1>7. mistaken => mistaken'
  BY <1>1
<1>2. ChildrenType' /\ OProcessType' /\ SignalsType'
  <2>1. mistaken' \in BOOLEAN
    BY <1>1, Zenon DEF IInv, TypeOK, SignalsType
  <2> QED BY <1>1, <2>1, ChildrenKept DEF IInv, TypeOK, children
<1>3. Applications' = Applications /\ k \notin Applications
  BY <1>1 DEF IInv, Structure, Applications, children
<1>4. CASE HasEntry(k)
  <2>1. /\ runningApps' = [runningApps EXCEPT ![k] = NoApp] /\ k \in Keys
        /\ UNCHANGED <<qlPid, qlReady, timers>>
    BY <1>4 DEF EntryStopped, HasEntry
  <2>2. TableType'
    BY <1>1, <2>1 DEF IInv, TypeOK, TableType
  <2>3. OneProcess'
    <3>1. runningApps'[k] = NoApp /\ \A j \in Keys \ {k} : runningApps'[j] = runningApps[j]
      BY <2>1 DEF IInv, TypeOK, TableType
    <3>2. \A p \in Applications' : runningApps'[p] = what'[p]
      BY <1>1, <1>3, <3>1, Constants DEF IInv, OneProcess, Applications, children
    <3>3. \A i, j \in Keys : runningApps'[i] = runningApps'[j] =>
                             i = j \/ runningApps'[i] = NoApp
      BY <3>1 DEF IInv, OneProcess
    <3> QED BY <3>2, <3>3 DEF OneProcess
  <2>4. qlPid # k
    BY <1>4, Constants DEF HasEntry, IInv, Structure, TypeOK, TableType
  <2>6. ReadyIsListening' /\ OneQuickLauncher'
    BY <1>1, <1>7, <2>1, <2>4 DEF IInv, ReadyIsListening, OneQuickLauncher, children
  <2>5. Structure'
    <3>1. \A p \in Pids : runningApps'[p] # NoApp => runningApps[p] # NoApp
      BY <2>1 DEF IInv, TypeOK, TableType
    <3> QED BY <1>1, <1>7, <2>1, <3>1 DEF IInv, Structure, children
  <2> QED BY <1>2, <2>2, <2>3, <2>5, <2>6 DEF IInv, TypeOK
<1>5. CASE ~ HasEntry(k) /\ k = qlPid
  <2>1. /\ qlPid' = 0 /\ qlReady' = FALSE /\ timers' = timers + 1 /\ timers' > 0
        /\ runningApps' = runningApps /\ timers \in Nat /\ timers' \in Nat
    BY <1>5 DEF QuickLauncherStopped, IInv, TypeOK, TableType
  <2>2. TableType'
    <3>1. qlPid' \in {0} \cup Pids /\ qlReady' \in BOOLEAN
      BY <2>1
    <3> QED BY <1>1, <2>1, <3>1 DEF IInv, TypeOK, TableType
  <2>3. OneProcess' /\ ReadyIsListening'
    BY <1>1, <1>3, <2>1 DEF IInv, OneProcess, ReadyIsListening, children
  <2>4. OneQuickLauncher'
    <3>1. ~ mistaken' => qlPid \in Pids /\ life[qlPid] = "reaped"
      BY <1>1, <1>5, Constants DEF IInv, Structure, TypeOK, TableType
    <3>2. \A p \in Pids : life[p] \in {"loading", "listening"} => mistaken'
      BY <1>7, <3>1 DEF IInv, OneQuickLauncher
    <3> QED BY <1>1, <2>1, <3>2 DEF OneQuickLauncher, children
  <2>5. Structure'
    <3>1. ~ mistaken' /\ timers' > 0 => timers' = 1 /\ qlPid' = 0
      <4>1. ~ mistaken' => qlPid # 0 /\ ~ mistaken
        BY <1>1, <1>5
      <4> QED BY <1>1, <2>1, <4>1 DEF IInv, Structure
    <3>2. \A p \in Pids : runningApps'[p] # NoApp => p # qlPid' /\ life'[p] # "none"
      BY <1>1, <2>1, Constants DEF IInv, Structure, children
    <3> QED BY <1>1, <2>1, <3>1, <3>2 DEF IInv, Structure, children
  <2> QED BY <1>2, <2>2, <2>3, <2>4, <2>5 DEF IInv, TypeOK
<1>6. CASE k # qlPid /\ UNCHANGED <<runningApps, qlPid, qlReady, timers>>
  <2>1. TableType' /\ OneProcess' /\ ReadyIsListening' /\ OneQuickLauncher'
    BY <1>1, <1>3, <1>6, <1>7 DEF IInv, TypeOK, TableType, OneProcess, ReadyIsListening,
       OneQuickLauncher, children
  <2>2. Structure'
    BY <1>1, <1>6, <1>7 DEF IInv, Structure, children
  <2> QED BY <1>2, <2>1, <2>2 DEF IInv, TypeOK
<1> QED BY <1>4, <1>5, <1>6
-----------------------------------------------------------------------------
LEMMA StepHolds == IInv /\ [Next]_vars => IInv'
<1> SUFFICES ASSUME IInv, [Next]_vars PROVE IInv'
  OBVIOUS
<1>1. ASSUME NEW p \in Pids, Dies(p) \/ Registers(p) \/ QuickExecutes(p)
      PROVE  IInv'
  BY <1>1, DiesKeeps, QuickKeeps
<1>2. ASSUME NEW a \in Apps, ExecuteQuick(a) \/ ExecuteFork(a)
      PROVE  IInv'
  BY <1>2, ExecuteQuickKeeps, ExecuteForkKeeps
<1>3. CASE SuspendForks \/ Handlers
  BY <1>3, SuspendForksKeeps, OProcessHandlerKeeps, SignalHandlerKeeps DEF Handlers
<1>4. CASE EventLoop
  BY <1>4, CreateKeeps, CreateDisabledKeeps, OProcessKeeps, NewQcopChannelKeeps,
     SigStoppedKeeps DEF EventLoop
<1>5. CASE UNCHANGED vars
  <2> USE <1>5 DEF vars, table, children, signals, oprocess, history, bounds
  <2>1. TypeOK'
    BY DEF IInv, TypeOK, TableType, ChildrenType, SignalsType, OProcessType
  <2>2. OneProcess' /\ ReadyIsListening' /\ OneQuickLauncher' /\ Structure'
    BY DEF IInv, OneProcess, ReadyIsListening, OneQuickLauncher, Structure, Applications
  <2> QED BY <2>1, <2>2 DEF IInv
<1> QED BY <1>1, <1>2, <1>3, <1>4, <1>5 DEF Next

LEMMA Inductive == Spec => []IInv
BY InitHolds, StepHolds, PTL DEF Spec

(* The type of every variable, for any number of children and failures.     *)
THEOREM TypeCorrect == Spec => []TypeOK
BY Inductive, PTL DEF IInv

(* A living application is in the table of the launcher under its own name, *)
(* and runs once, whichever handler waits for what, in any order            *)
(* (AppLauncher::execute, sigStopped, OProcessController's handler).        *)
THEOREM AlwaysOneProcess == Spec => []OneProcess
BY Inductive, PTL DEF IInv

(* No late news of an older quicklauncher makes the new one count as ready  *)
(* (AppLauncher::newQcopChannel).                                           *)
THEOREM ReadyAlwaysListening == Spec => []ReadyIsListening
BY Inductive, PTL DEF IInv

(* The quicklauncher is there, or its end is on its way to sigStopped, or  *)
(* the next one is due, but for a vfork or an exec that failed and a        *)
(* quicklauncher OProcessController waited for; and none is left over but   *)
(* after an event of no process (createQuickLauncher, sigStopped).          *)
THEOREM AlwaysOneQuickLauncher == Spec => []OneQuickLauncher
BY Inductive, PTL DEF IInv
============================================================================
