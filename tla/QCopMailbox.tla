----------------------------- MODULE QCopMailbox ---------------------------
(***************************************************************************)
(* What the delivery of messages to one application promises, whatever     *)
(* processes, files and sockets are between the sender and the             *)
(* application: one queue, from whose head messages are handed over one by *)
(* one, or lost all together when the process that holds them ends.        *)
(* QCopDelivery is shown to implement this.                                *)
(***************************************************************************)
EXTENDS Naturals, Sequences

CONSTANT Kinds   \* what the messages can be

VARIABLES
  sent,       \* the kind of every message written, in the order of writing
  delivered,  \* the messages handed to the application, in that order
  lost,       \* the messages that died with a process
  underWay    \* the messages written and neither delivered nor lost

vars == <<sent, delivered, lost, underWay>>

Elems(s) == {s[i] : i \in DOMAIN s}

Init ==
  /\ sent = <<>> /\ delivered = <<>> /\ lost = {}
  /\ underWay = <<>>

(* A message is known by its place in the order of writing *)
Write ==
  /\ \E kind \in Kinds : sent' = Append(sent, kind)
  /\ underWay' = Append(underWay, Len(sent) + 1)
  /\ UNCHANGED <<delivered, lost>>

Deliver ==
  /\ underWay # <<>>
  /\ delivered' = Append(delivered, Head(underWay))
  /\ underWay' = Tail(underWay)
  /\ UNCHANGED <<sent, lost>>

(* The oldest messages are lost, never one from the middle *)
Lose ==
  /\ \E n \in 1 .. Len(underWay) :
       /\ lost' = lost \cup {underWay[i] : i \in 1 .. n}
       /\ underWay' = SubSeq(underWay, n + 1, Len(underWay))
  /\ UNCHANGED <<sent, delivered>>

Next == Write \/ Deliver \/ Lose

Spec == Init /\ [][Next]_vars

Increasing(s) == \A i, j \in DOMAIN s : i < j => s[i] < s[j]

(* Messages are delivered in the order of writing, none twice, and none is *)
(* missing but those that were lost (qcopq is a queue, the file is only    *)
(* appended to and truncated as a whole).                                  *)
InOrderOnce ==
  /\ Increasing(delivered \o underWay)
  /\ Elems(delivered \o underWay) = (1 .. Len(sent)) \ lost
=============================================================================
