---------------------------- MODULE ProcessLife ----------------------------
(***************************************************************************)
(* What a program that starts children through OProcess is promised,       *)
(* whatever signals, pipes and timers are behind it: an object counts as   *)
(* running from start() until the program is told that its child ended,    *)
(* which happens once for each start, only after the end, and never inside *)
(* a start(), but for one that waits for just that.  ProcessControl is     *)
(* shown to implement this.                                                *)
(***************************************************************************)
CONSTANTS
  Objs,   \* OProcess objects
  Nobody  \* no object

VARIABLES
  state,    \* of each object, one of States
  watched,  \* the objects whose children are watched
  caller,   \* the object whose start() the program is in, or Nobody
  waits     \* that start() is to return when the child has ended

vars == <<state, watched, caller, waits>>

(* "ended": the child has, and the program was not told yet *)
States == {"none", "idle", "starting", "running", "ended"}

Init ==
  /\ state = [o \in Objs |-> "none"]
  /\ watched = {} /\ caller = Nobody /\ waits = FALSE

Becomes(o, s) == state' = [state EXCEPT ![o] = s]

New(o) ==
  /\ caller = Nobody /\ state[o] = "none"
  /\ Becomes(o, "idle") /\ watched' = watched \cup {o}
  /\ UNCHANGED <<caller, waits>>

(* Whatever its child does *)
Delete(o) ==
  /\ caller = Nobody /\ state[o] # "none"
  /\ Becomes(o, "none") /\ watched' = watched \ {o}
  /\ UNCHANGED <<caller, waits>>

Detach(o) ==
  /\ caller = Nobody /\ state[o] # "none"
  /\ Becomes(o, "idle") /\ watched' = watched \ {o}
  /\ UNCHANGED <<caller, waits>>

Start(o, w) ==
  /\ caller = Nobody /\ state[o] = "idle"
  /\ Becomes(o, "starting") /\ caller' = o /\ waits' = w
  /\ UNCHANGED watched

InStart == caller # Nobody /\ state[caller] = "starting"

Returns == caller' = Nobody /\ waits' = FALSE

(* No child was made, or it could not execute the program *)
Fails == InStart /\ Becomes(caller, "idle") /\ Returns /\ UNCHANGED watched

(* The child may have ended by the time start() knows of its success *)
Succeeds ==
  /\ InStart
  /\ \E s \in {"running", "ended"} : Becomes(caller, s)
  /\ IF waits THEN UNCHANGED <<caller, waits>> ELSE Returns
  /\ UNCHANGED watched

Ends(o) ==
  /\ state[o] = "running" /\ Becomes(o, "ended")
  /\ UNCHANGED <<watched, caller, waits>>

(* processHasExited *)
Noticed(o) ==
  /\ o \in watched /\ state[o] = "ended" /\ ~ InStart
  /\ Becomes(o, "idle")
  /\ UNCHANGED <<watched, caller, waits>>

WaitIsOver ==
  /\ caller # Nobody /\ state[caller] = "idle"
  /\ Returns /\ UNCHANGED <<state, watched>>

Next ==
  \/ \E o \in Objs : New(o) \/ Delete(o) \/ Detach(o) \/ Ends(o) \/ Noticed(o)
  \/ \E o \in Objs, w \in BOOLEAN : Start(o, w)
  \/ Fails \/ Succeeds \/ WaitIsOver

Spec == Init /\ [][Next]_vars
=============================================================================
