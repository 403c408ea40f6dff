-------------------------- MODULE QCopMailboxProofs ------------------------
(* The promise of the mailbox, for any number of messages. *)
EXTENDS QCopMailbox, SequenceTheorems, TLAPS

(* The messages whose fate is not to be lost, oldest first *)
Kept == delivered \o underWay

IInv ==
  /\ sent \in Seq(Kinds)
  /\ delivered \in Seq(Nat)
  /\ underWay \in Seq(Nat)
  /\ lost \subseteq 1 .. Len(sent)
  /\ InOrderOnce

-----------------------------------------------------------------------------
(* What is appended is the last element of the sequence *)
LEMMA ElemsAppend ==
  ASSUME NEW s \in Seq(Nat), NEW x \in Nat
  PROVE  Elems(Append(s, x)) = Elems(s) \cup {x}
<1>1. Append(s, x) \in Seq(Nat) /\ Len(Append(s, x)) = Len(s) + 1
      /\ Append(s, x)[Len(s) + 1] = x
      /\ \A i \in 1 .. Len(s) : Append(s, x)[i] = s[i]
  OBVIOUS
<1>2. DOMAIN Append(s, x) = 1 .. Len(s) + 1 /\ DOMAIN s = 1 .. Len(s)
      /\ Len(s) \in Nat
  BY <1>1
<1>3. 1 .. Len(s) + 1 = 1 .. Len(s) \cup {Len(s) + 1}
  BY <1>2
<1> QED BY <1>1, <1>2, <1>3 DEF Elems

(* An increasing sequence stays one when something greater is appended *)
LEMMA IncreasingAppend ==
  ASSUME NEW s \in Seq(Nat), NEW x \in Nat,
         Increasing(s), \A y \in Elems(s) : y < x
  PROVE  Increasing(Append(s, x))
<1>1. Append(s, x) \in Seq(Nat) /\ DOMAIN Append(s, x) = 1 .. Len(s) + 1
      /\ DOMAIN s = 1 .. Len(s) /\ Len(s) \in Nat
      /\ Append(s, x)[Len(s) + 1] = x
      /\ \A i \in 1 .. Len(s) : Append(s, x)[i] = s[i]
  OBVIOUS
<1> SUFFICES ASSUME NEW i \in 1 .. Len(s) + 1, NEW j \in 1 .. Len(s) + 1, i < j
             PROVE  Append(s, x)[i] < Append(s, x)[j]
  BY <1>1 DEF Increasing
<1>2. i \in 1 .. Len(s) /\ Append(s, x)[i] = s[i]
  BY <1>1
<1>3. CASE j = Len(s) + 1
  <2>1. s[i] \in Elems(s)
    BY <1>1, <1>2 DEF Elems
  <2> QED BY <2>1, <1>1, <1>2, <1>3
<1>4. CASE j \in 1 .. Len(s)
  BY <1>1, <1>2, <1>4 DEF Increasing
<1> QED BY <1>1, <1>3, <1>4

(* Moving the head of a sequence to the end of another keeps both together *)
LEMMA MoveHead ==
  ASSUME NEW s \in Seq(Nat), NEW t \in Seq(Nat), t # <<>>
  PROVE  Append(s, Head(t)) \o Tail(t) = s \o t
<1>1. Append(s, Head(t)) \in Seq(Nat) /\ Tail(t) \in Seq(Nat)
      /\ Len(Append(s, Head(t))) = Len(s) + 1 /\ Len(Tail(t)) = Len(t) - 1
      /\ Len(s) \in Nat /\ Len(t) \in Nat \ {0}
  OBVIOUS
<1>2. s \o t \in Seq(Nat) /\ Append(s, Head(t)) \o Tail(t) \in Seq(Nat)
      /\ Len(s \o t) = Len(s) + Len(t)
      /\ Len(Append(s, Head(t)) \o Tail(t)) = Len(s) + Len(t)
  BY <1>1
<1>3. ASSUME NEW i \in 1 .. Len(s) + Len(t)
      PROVE  (Append(s, Head(t)) \o Tail(t))[i] = (s \o t)[i]
  BY <1>1
<1> QED BY <1>2, <1>3, SeqEqual

-----------------------------------------------------------------------------
(* Without its n oldest messages, the mailbox still keeps the others in    *)
(* order.                                                                  *)
LEMMA KeptAfterLoss ==
  ASSUME NEW d \in Seq(Nat), NEW u \in Seq(Nat), NEW n \in 1 .. Len(u),
         Increasing(d \o u)
  PROVE  /\ SubSeq(u, n + 1, Len(u)) \in Seq(Nat)
         /\ Increasing(d \o SubSeq(u, n + 1, Len(u)))
         /\ Elems(d \o SubSeq(u, n + 1, Len(u)))
              = Elems(d \o u) \ {u[i] : i \in 1 .. n}
<1> DEFINE r == SubSeq(u, n + 1, Len(u))
           old(k) == IF k <= Len(d) THEN k ELSE k + n
<1>1. Len(d) \in Nat /\ Len(u) \in Nat /\ n \in Nat /\ n <= Len(u)
  OBVIOUS
<1>2. r \in Seq(Nat) /\ Len(r) = Len(u) - n
      /\ \A i \in 1 .. Len(u) - n : r[i] = u[i + n]
  BY <1>1
<1> HIDE DEF r
<1>3. DOMAIN (d \o u) = 1 .. Len(d) + Len(u) /\ d \o u \in Seq(Nat)
      /\ DOMAIN (d \o r) = 1 .. Len(d) + Len(u) - n /\ d \o r \in Seq(Nat)
      /\ \A i \in 1 .. Len(d) + Len(u) : (d \o u)[i] \in Nat
  <2>1. d \o u \in Seq(Nat) /\ Len(d \o u) = Len(d) + Len(u)
    BY ConcatProperties
  <2>2. d \o r \in Seq(Nat) /\ Len(d \o r) = Len(d) + (Len(u) - n)
    BY <1>2, ConcatProperties
  <2>3. Len(d) + (Len(u) - n) = Len(d) + Len(u) - n
    BY <1>1
  <2>4. \A i \in 1 .. Len(d \o u) : (d \o u)[i] \in Nat
    BY <2>1, ElementOfSeq
  <2> QED BY <2>1, <2>2, <2>3, <2>4
<1>4. ASSUME NEW i \in 1 .. Len(d) + Len(u) - n
      PROVE  old(i) \in 1 .. Len(d) + Len(u) /\ (d \o r)[i] = (d \o u)[old(i)]
  <2>1. CASE i <= Len(d)
    BY <1>1, <1>2, <2>1
  <2>2. CASE i > Len(d)
    <3>1. i - Len(d) \in 1 .. Len(u) - n
      BY <1>1, <2>2
    <3>2. (d \o r)[i] = r[i - Len(d)]
      BY <1>1, <1>2, <2>2
    <3>3. (d \o u)[i + n] = u[i + n - Len(d)]
      BY <1>1, <2>2
    <3>4. r[i - Len(d)] = u[i - Len(d) + n]
      BY <3>1, <1>2
    <3> QED BY <1>1, <2>2, <3>2, <3>3, <3>4
  <2>3. i <= Len(d) \/ i > Len(d)
    BY <1>1
  <2> HIDE DEF old
  <2> QED BY <2>1, <2>2, <2>3
<1>i. \A i, j \in 1 .. Len(d) + Len(u) : i < j => (d \o u)[i] < (d \o u)[j]
  BY <1>3 DEF Increasing
<1>5. Increasing(d \o r)
  <2> SUFFICES ASSUME NEW i \in 1 .. Len(d) + Len(u) - n,
                      NEW j \in 1 .. Len(d) + Len(u) - n, i < j
               PROVE  (d \o r)[i] < (d \o r)[j]
    BY <1>3 DEF Increasing
  <2>1. old(i) < old(j)
    BY <1>1
  <2> HIDE DEF old
  <2>2. (d \o u)[old(i)] < (d \o u)[old(j)]
    BY <2>1, <1>i, <1>4
  <2> QED BY <2>2, <1>4
<1>6. ASSUME NEW k \in 1 .. n
      PROVE  Len(d) + k \in 1 .. Len(d) + Len(u) /\ (d \o u)[Len(d) + k] = u[k]
  BY <1>1
<1>7. ASSUME NEW i \in 1 .. Len(d) + Len(u), NEW j \in 1 .. Len(d) + Len(u),
             (d \o u)[i] = (d \o u)[j]
      PROVE  i = j
  <2>1. \A x \in Nat : ~ (x < x)
    OBVIOUS
  <2>2. ~ (i < j) /\ ~ (j < i)
    BY <1>7, <2>1, <1>3, <1>i
  <2> QED BY <2>2, <1>1
<1>8. Elems(d \o r) \subseteq Elems(d \o u) \ {u[i] : i \in 1 .. n}
  <2> SUFFICES ASSUME NEW i \in 1 .. Len(d) + Len(u) - n
               PROVE  /\ (d \o r)[i] \in Elems(d \o u)
                      /\ \A k \in 1 .. n : (d \o r)[i] # u[k]
    BY <1>3 DEF Elems
  <2>1. (d \o r)[i] \in Elems(d \o u)
    BY <1>3, <1>4 DEF Elems
  <2>2. ASSUME NEW k \in 1 .. n, (d \o r)[i] = u[k]
        PROVE  FALSE
    <3>1. old(i) = Len(d) + k
      <4> HIDE DEF old
      <4> QED BY <1>4, <1>6, <1>7, <2>2
    <3> QED BY <3>1, <1>1
  <2> QED BY <2>1, <2>2
<1>9. Elems(d \o u) \ {u[i] : i \in 1 .. n} \subseteq Elems(d \o r)
  <2> SUFFICES ASSUME NEW j \in 1 .. Len(d) + Len(u),
                      \A k \in 1 .. n : (d \o u)[j] # u[k]
               PROVE  \E i \in 1 .. Len(d) + Len(u) - n : (d \o r)[i] = (d \o u)[j]
    BY <1>3 DEF Elems
  <2>1. CASE j <= Len(d)
    <3>1. j \in 1 .. Len(d) + Len(u) - n /\ old(j) = j
      BY <1>1, <2>1
    <3> QED BY <3>1, <1>4
  <2>2. CASE j > Len(d) /\ j <= Len(d) + n
    <3>1. j - Len(d) \in 1 .. n
      BY <1>1, <2>2
    <3> QED BY <3>1, <1>6, <1>1
  <2>3. CASE j > Len(d) + n
    <3>1. j - n \in 1 .. Len(d) + Len(u) - n /\ old(j - n) = j
      BY <1>1, <2>3
    <3> QED BY <3>1, <1>4
  <2>4. j <= Len(d) \/ (j > Len(d) /\ j <= Len(d) + n) \/ j > Len(d) + n
    BY <1>1
  <2> HIDE DEF old
  <2> QED BY <2>1, <2>2, <2>3, <2>4
<1> QED BY <1>2, <1>5, <1>8, <1>9 DEF r

-----------------------------------------------------------------------------
LEMMA InitIInv == Init => IInv
<1> SUFFICES ASSUME Init PROVE IInv
  OBVIOUS
<1>1. Kept = <<>> /\ Len(sent) = 0
  BY DEF Init, Kept
<1>2. Increasing(Kept) /\ Elems(Kept) = {} /\ 1 .. 0 = {}
  BY <1>1 DEF Increasing, Elems
<1> QED BY <1>1, <1>2 DEF Init, IInv, InOrderOnce, Kept

LEMMA NextIInv == IInv /\ [Next]_vars => IInv'
<1> SUFFICES ASSUME IInv, [Next]_vars PROVE IInv'
  OBVIOUS
<1> USE DEF IInv
<1>a. Increasing(Kept) /\ Elems(Kept) = (1 .. Len(sent)) \ lost
      /\ Kept \in Seq(Nat) /\ Len(sent) \in Nat
  BY DEF InOrderOnce, Kept
<1>b. /\ sent' \in Seq(Kinds) /\ delivered' \in Seq(Nat)
      /\ underWay' \in Seq(Nat) /\ lost' \subseteq 1 .. Len(sent')
      /\ Increasing(Kept') /\ Elems(Kept') = (1 .. Len(sent')) \ lost'
      => IInv'
  BY DEF InOrderOnce, Kept
<1>1. CASE Write
  <2> DEFINE new == Len(sent) + 1
  <2>1. sent' \in Seq(Kinds) /\ Len(sent') = new /\ new \in Nat
    BY <1>1 DEF Write
  <2>2. underWay' = Append(underWay, new) /\ delivered' = delivered
        /\ lost' = lost
    BY <1>1 DEF Write
  <2>3. 1 .. new = 1 .. Len(sent) \cup {new} /\ new \notin lost
        /\ \A y \in 1 .. Len(sent) : y < new
    BY <1>a
  <2> HIDE DEF new
  <2>4. Kept' = Append(Kept, new)
    BY <2>1, <2>2 DEF Kept
  <2>5. Increasing(Kept')
    BY <1>a, <2>1, <2>3, <2>4, IncreasingAppend
  <2>6. Elems(Kept') = Elems(Kept) \cup {new}
    BY <1>a, <2>1, <2>4, ElemsAppend
  <2> QED BY <1>a, <1>b, <2>1, <2>2, <2>3, <2>5, <2>6
<1>2. CASE Deliver
  <2>1. Kept' = Kept
    BY <1>2, MoveHead DEF Deliver, Kept
  <2>2. delivered' \in Seq(Nat) /\ underWay' \in Seq(Nat)
    BY <1>2 DEF Deliver
  <2> QED BY <1>2, <1>a, <1>b, <2>1, <2>2 DEF Deliver
<1>3. CASE Lose
  <2>1. PICK n \in 1 .. Len(underWay) :
          /\ lost' = lost \cup {underWay[i] : i \in 1 .. n}
          /\ underWay' = SubSeq(underWay, n + 1, Len(underWay))
    BY <1>3 DEF Lose
  <2>2. sent' = sent /\ delivered' = delivered
    BY <1>3 DEF Lose
  <2>3. /\ underWay' \in Seq(Nat) /\ Increasing(Kept')
        /\ Elems(Kept') = Elems(Kept) \ {underWay[i] : i \in 1 .. n}
    BY <1>a, <2>1, <2>2, KeptAfterLoss DEF Kept
  <2>4. {underWay[i] : i \in 1 .. n} \subseteq Elems(Kept)
    <3> SUFFICES ASSUME NEW i \in 1 .. n PROVE underWay[i] \in Elems(Kept)
      OBVIOUS
    <3>1. Len(delivered) + i \in DOMAIN Kept
          /\ Kept[Len(delivered) + i] = underWay[i]
      BY DEF Kept
    <3> QED BY <3>1 DEF Elems
  <2> QED BY <1>a, <1>b, <2>1, <2>2, <2>3, <2>4
<1>4. CASE UNCHANGED vars
  BY <1>4, <1>a, <1>b DEF vars, Kept
<1> QED BY <1>1, <1>2, <1>3, <1>4 DEF Next

(* The mailbox delivers in the order of writing, nothing twice and nothing *)
(* missing but what was lost.                                              *)
THEOREM AlwaysInOrderOnce == Spec => []InOrderOnce
<1>1. IInv => InOrderOnce
  BY DEF IInv
<1> QED BY InitIInv, NextIInv, <1>1, PTL DEF Spec
=============================================================================
