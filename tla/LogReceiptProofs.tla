-------------------------- MODULE LogReceiptProofs --------------------------
(***************************************************************************)
(* Theorems about what the clients of a session's log receive, for any     *)
(* number of clients and records and any capacity of the channels.         *)
(*                                                                         *)
(* A record is, at any moment, in one place between the log and a client:  *)
(* written, in the sender's hand, in the channel, in the pump's hand, in   *)
(* the subscriber's queue, in the broadcaster's hand or in the logger's    *)
(* queue.  The invariant says that these, one after the other, are a run   *)
(* of the log, as far as the goroutines that would move it on still live.  *)
(***************************************************************************)
EXTENDS LogReceipt, SequenceTheorems, TLAPS

------------------------------------------------------------------------------
(* Sequences of numbers in increasing order.                               *)

\* The members of w are in order, none is lost, and what is missing between two
\* of them is lost.
Unbroken(w, lost) ==
  /\ Increasing(w)
  /\ \A x \in Range(w) : x \notin lost
  /\ \A x, y \in Range(w) : \A z \in x .. y : z \in Range(w) \/ z \in lost

\* And so it is up to the record "last".
Complete(w, last, lost) ==
  /\ Increasing(w)
  /\ \A x \in Range(w) : x \notin lost /\ x <= last
  /\ \A x \in Range(w) : \A z \in x .. last : z \in Range(w) \/ z \in lost

LEMMA RangeIndex ==
  ASSUME NEW w \in Seq(Nat)
  PROVE  /\ \A i \in 1 .. Len(w) : w[i] \in Range(w)
         /\ \A x \in Range(w) : \E i \in 1 .. Len(w) : x = w[i]
         /\ \A x \in Range(w) : x \in Nat
BY DEF Range

LEMMA RangeEmpty == Range(<< >>) = {}
BY DEF Range

LEMMA RangeSingle ==
  ASSUME NEW h \in Nat
  PROVE  <<h>> \in Seq(Nat) /\ Range(<<h>>) = {h}
BY DEF Range

LEMMA RangeJoin ==
  ASSUME NEW u \in Seq(Nat), NEW v \in Seq(Nat)
  PROVE  u \o v \in Seq(Nat) /\ Range(u \o v) = Range(u) \union Range(v)
BY RangeConcatenation

LEMMA JoinAssociative ==
  ASSUME NEW u \in Seq(Nat), NEW v \in Seq(Nat), NEW w \in Seq(Nat)
  PROVE  (u \o v) \o w = u \o (v \o w)
<1> DEFINE s == (u \o v) \o w  t == u \o (v \o w)
<1>1. s \in Seq(Nat) /\ t \in Seq(Nat) /\ Len(s) = Len(t)
  OBVIOUS
<1>2. \A i \in 1 .. Len(s) : s[i] = t[i]
  OBVIOUS
<1> QED BY <1>1, <1>2, SeqEqual

LEMMA JoinEmpty ==
  ASSUME NEW u \in Seq(Nat)
  PROVE  << >> \o u = u /\ u \o << >> = u
BY ConcatEmptySeq

\* Two sequences in order are in order together when all of the first comes
\* before all of the second.
LEMMA IncreasingJoin ==
  ASSUME NEW u \in Seq(Nat), NEW v \in Seq(Nat)
  PROVE  Increasing(u \o v) <=>
           /\ Increasing(u) /\ Increasing(v)
           /\ \A x \in Range(u), y \in Range(v) : x < y
<1> DEFINE w == u \o v  m == Len(u)  n == Len(v)
<1>1. /\ m \in Nat /\ n \in Nat /\ Len(w) = m + n /\ DOMAIN w = 1 .. m + n
      /\ DOMAIN u = 1 .. m /\ DOMAIN v = 1 .. n
      /\ \A i \in 1 .. m : w[i] = u[i] /\ u[i] \in Nat
      /\ \A j \in 1 .. n : w[m + j] = v[j] /\ v[j] \in Nat
  BY ConcatProperties, ElementOfSeq
<1> HIDE DEF w, m, n
<1>2. ASSUME Increasing(w)
      PROVE  /\ Increasing(u) /\ Increasing(v)
             /\ \A x \in Range(u), y \in Range(v) : x < y
  <2>1. Increasing(u)
    <3> SUFFICES ASSUME NEW i \in 1 .. m, NEW j \in 1 .. m, i < j
                 PROVE  u[i] < u[j]
      BY <1>1 DEF Increasing
    <3>1. i \in 1 .. m + n /\ j \in 1 .. m + n
      BY <1>1
    <3>2. w[i] < w[j]
      BY <1>1, <1>2, <3>1 DEF Increasing
    <3> QED BY <1>1, <3>2
  <2>2. Increasing(v)
    <3> SUFFICES ASSUME NEW i \in 1 .. n, NEW j \in 1 .. n, i < j
                 PROVE  v[i] < v[j]
      BY <1>1 DEF Increasing
    <3>1. m + i \in 1 .. m + n /\ m + j \in 1 .. m + n /\ m + i < m + j
      BY <1>1
    <3> QED BY <1>1, <1>2, <3>1 DEF Increasing
  <2>3. ASSUME NEW x \in Range(u), NEW y \in Range(v) PROVE x < y
    <3>1. PICK i \in 1 .. m : x = u[i]
      BY <1>1 DEF Range
    <3>2. PICK j \in 1 .. n : y = v[j]
      BY <1>1 DEF Range
    <3>3. i \in 1 .. m + n /\ m + j \in 1 .. m + n /\ i < m + j
      BY <1>1
    <3> QED BY <1>1, <1>2, <3>1, <3>2, <3>3 DEF Increasing
  <2> QED BY <2>1, <2>2, <2>3
<1>3. ASSUME Increasing(u), Increasing(v), \A x \in Range(u), y \in Range(v) : x < y
      PROVE  Increasing(w)
  <2> SUFFICES ASSUME NEW i \in 1 .. m + n, NEW j \in 1 .. m + n, i < j
               PROVE  w[i] < w[j]
    BY <1>1 DEF Increasing
  <2>1. CASE j <= m
    <3>1. i \in 1 .. m /\ j \in 1 .. m
      BY <1>1, <2>1
    <3>2. u[i] < u[j]
      BY <1>1, <1>3, <3>1 DEF Increasing
    <3> QED BY <1>1, <3>1, <3>2
  <2>2. CASE i <= m /\ j > m
    <3>1. i \in 1 .. m /\ j - m \in 1 .. n /\ j = m + (j - m)
      BY <1>1, <2>2
    <3>2. w[i] = u[i] /\ w[j] = v[j - m]
      BY <1>1, <3>1
    <3>3. u[i] \in Range(u) /\ v[j - m] \in Range(v)
      BY <1>1, <3>1 DEF Range
    <3> QED BY <1>3, <3>2, <3>3
  <2>3. CASE i > m
    <3>1. i - m \in 1 .. n /\ j - m \in 1 .. n /\ i - m < j - m
          /\ i = m + (i - m) /\ j = m + (j - m)
      BY <1>1, <2>3
    <3>2. w[i] = v[i - m] /\ w[j] = v[j - m]
      BY <1>1, <3>1
    <3> QED BY <1>1, <1>3, <3>1, <3>2 DEF Increasing
  <2> QED BY <1>1, <2>1, <2>2, <2>3
<1> QED BY <1>2, <1>3 DEF w

\* The first of an increasing sequence is its least, the last its greatest.
LEMMA IncreasingEnds ==
  ASSUME NEW w \in Seq(Nat), w # << >>, Increasing(w)
  PROVE  /\ w[1] \in Range(w) /\ w[Len(w)] \in Range(w)
         /\ \A x \in Range(w) : w[1] <= x /\ x <= w[Len(w)]
<1>1. Len(w) \in Nat /\ Len(w) >= 1 /\ DOMAIN w = 1 .. Len(w)
      /\ \A i \in 1 .. Len(w) : w[i] \in Nat
  OBVIOUS
<1>2. w[1] \in Range(w) /\ w[Len(w)] \in Range(w)
  BY <1>1, RangeIndex
<1>3. ASSUME NEW x \in Range(w) PROVE w[1] <= x /\ x <= w[Len(w)]
  <2>1. PICK i \in 1 .. Len(w) : x = w[i]
    BY RangeIndex
  <2> DEFINE n == Len(w)
  <2>2. /\ n \in 1 .. n /\ 1 \in 1 .. n /\ DOMAIN w = 1 .. n
        /\ w[1] \in Nat /\ w[i] \in Nat /\ w[n] \in Nat
    BY <1>1
  <2> HIDE DEF n
  <2>3. i = 1 \/ 1 < i
    OBVIOUS
  <2>4. i = n \/ i < n
    BY DEF n
  <2>5. i = 1 \/ w[1] < w[i]
    BY <2>2, <2>3 DEF Increasing, n
  <2>6. i = n \/ w[i] < w[n]
    BY <2>2, <2>4 DEF Increasing, n
  <2>7. w[1] <= w[i] /\ w[i] <= w[n]
    BY <2>2, <2>5, <2>6
  <2> QED BY <2>1, <2>7 DEF n
<1> QED BY <1>2, <1>3

LEMMA CompleteIsRun ==
  ASSUME NEW w \in Seq(Nat), NEW last \in Nat, NEW lost, Complete(w, last, lost)
  PROVE  IsRun(w, last, lost)
<1> SUFFICES ASSUME w # << >> PROVE Range(w) = (w[1] .. last) \ lost
  BY DEF IsRun, Complete
<1>1. w[1] \in Range(w) /\ \A x \in Range(w) : w[1] <= x /\ x \in Nat
  BY IncreasingEnds, RangeIndex DEF Complete
<1> QED BY <1>1 DEF Complete

LEMMA UnbrokenIsRun ==
  ASSUME NEW w \in Seq(Nat), NEW lost, Unbroken(w, lost)
  PROVE  IsRun(w, w[Len(w)], lost)
<1> SUFFICES ASSUME w # << >> PROVE Range(w) = (w[1] .. w[Len(w)]) \ lost
  BY DEF IsRun, Unbroken
<1>1. /\ w[1] \in Range(w) /\ w[Len(w)] \in Range(w)
      /\ \A x \in Range(w) : w[1] <= x /\ x <= w[Len(w)] /\ x \in Nat
  BY IncreasingEnds, RangeIndex DEF Unbroken
<1> QED BY <1>1 DEF Unbroken

LEMMA CompleteIsUnbroken ==
  ASSUME NEW w \in Seq(Nat), NEW last \in Nat, NEW lost, Complete(w, last, lost)
  PROVE  Unbroken(w, lost)
<1>1. ASSUME NEW x \in Range(w), NEW y \in Range(w), NEW z \in x .. y
      PROVE  z \in Range(w) \/ z \in lost
  <2>1. x \in Nat /\ y \in Nat /\ y <= last
    BY RangeIndex DEF Complete
  <2> QED BY <2>1 DEF Complete
<1> QED BY <1>1 DEF Complete, Unbroken

\* A beginning of what is unbroken is unbroken.
LEMMA UnbrokenPrefix ==
  ASSUME NEW u \in Seq(Nat), NEW v \in Seq(Nat), NEW lost, Unbroken(u \o v, lost)
  PROVE  Unbroken(u, lost)
<1>1. Increasing(u) /\ \A x \in Range(u), y \in Range(v) : x < y
  BY IncreasingJoin DEF Unbroken
<1>2. Range(u \o v) = Range(u) \union Range(v)
  BY RangeJoin
<1>3. ASSUME NEW x \in Range(u), NEW y \in Range(u), NEW z \in x .. y
      PROVE  z \in Range(u) \/ z \in lost
  <2>1. x \in Nat /\ y \in Nat
    BY RangeIndex
  <2>2. z \in Range(u) \/ z \in Range(v) \/ z \in lost
    BY <1>2 DEF Unbroken
  <2> QED BY <1>1, <2>1, <2>2
<1> QED BY <1>1, <1>2, <1>3 DEF Unbroken

\* An end of what is complete is complete.
LEMMA CompleteSuffix ==
  ASSUME NEW u \in Seq(Nat), NEW v \in Seq(Nat), NEW last \in Nat, NEW lost,
         Complete(u \o v, last, lost)
  PROVE  Complete(v, last, lost)
<1>1. Increasing(v) /\ \A x \in Range(u), y \in Range(v) : x < y
  BY IncreasingJoin DEF Complete
<1>2. Range(u \o v) = Range(u) \union Range(v)
  BY RangeJoin
<1>3. ASSUME NEW x \in Range(v), NEW z \in x .. last
      PROVE  z \in Range(v) \/ z \in lost
  <2>1. x \in Nat
    BY RangeIndex
  <2>2. z \in Range(u) \/ z \in Range(v) \/ z \in lost
    BY <1>2 DEF Complete
  <2> QED BY <1>1, <2>1, <2>2
<1> QED BY <1>1, <1>2, <1>3 DEF Complete

\* The next record completes what is complete so far.
LEMMA CompleteAppend ==
  ASSUME NEW w \in Seq(Nat), NEW last \in Nat, NEW lost, Complete(w, last, lost),
         last + 1 \notin lost
  PROVE  Complete(w \o <<last + 1>>, last + 1, lost)
<1> DEFINE h == last + 1
<1>1. h \in Nat /\ h > last /\ <<h>> \in Seq(Nat) /\ Range(<<h>>) = {h}
  BY RangeSingle
<1>2. Increasing(<<h>>)
  BY DEF Increasing
<1>3. Range(w \o <<h>>) = Range(w) \union {h}
  BY <1>1, RangeJoin
<1>4. \A x \in Range(w) : x \in Nat /\ x <= last
  BY RangeIndex DEF Complete
<1>5. Increasing(w \o <<h>>)
  <2>1. \A x \in Range(w), y \in Range(<<h>>) : x < y
    BY <1>1, <1>4
  <2>2. Increasing(w)
    BY DEF Complete
  <2> QED BY <1>1, <1>2, <2>1, <2>2, IncreasingJoin
<1>6. ASSUME NEW x \in Range(w \o <<h>>), NEW z \in x .. h
      PROVE  z \in Range(w \o <<h>>) \/ z \in lost
  <2>1. CASE z = h
    BY <1>3, <2>1
  <2>2. CASE z # h
    <3>1. x \in Range(w) /\ z \in x .. last
      BY <1>1, <1>3, <1>4, <2>2
    <3> QED BY <1>3, <3>1 DEF Complete
  <2> QED BY <2>1, <2>2
<1> QED BY <1>1, <1>3, <1>4, <1>5, <1>6 DEF Complete

\* A record that is taken out and counted as lost leaves the rest complete.
LEMMA CompleteLosing ==
  ASSUME NEW u \in Seq(Nat), NEW h \in Nat, NEW v \in Seq(Nat), NEW last \in Nat, NEW lost,
         Complete(u \o (<<h>> \o v), last, lost)
  PROVE  Complete(u \o v, last, lost \union {h}) /\ Range(u \o v) = Range(u \o (<<h>> \o v)) \ {h}
<1>1. <<h>> \in Seq(Nat) /\ Range(<<h>>) = {h}
  BY RangeSingle
<1>2. <<h>> \o v \in Seq(Nat) /\ Range(<<h>> \o v) = {h} \union Range(v)
  BY <1>1, RangeJoin
<1>3. Range(u \o (<<h>> \o v)) = Range(u) \union {h} \union Range(v)
  <2> DEFINE hv == <<h>> \o v
  <2>1. hv \in Seq(Nat) /\ Range(hv) = {h} \union Range(v)
    BY <1>2
  <2> HIDE DEF hv
  <2>2. Range(u \o hv) = Range(u) \union Range(hv)
    BY <2>1, RangeJoin
  <2> QED BY <2>1, <2>2 DEF hv
<1>4. /\ Increasing(u) /\ Increasing(<<h>> \o v)
      /\ \A x \in Range(u), y \in Range(<<h>> \o v) : x < y
  BY <1>2, IncreasingJoin DEF Complete
<1>5. Increasing(v) /\ \A y \in Range(v) : h < y
  BY <1>1, <1>4, IncreasingJoin
<1>6. u \o v \in Seq(Nat) /\ Range(u \o v) = Range(u) \union Range(v)
  BY RangeJoin
<1>7. Increasing(u \o v)
  BY <1>2, <1>4, <1>5, IncreasingJoin
<1>8. h \notin Range(u) /\ h \notin Range(v)
  <2>1. \A x \in Range(u) : x < h
    BY <1>2, <1>4
  <2>2. ~(h < h)
    OBVIOUS
  <2> QED BY <1>5, <2>1, <2>2
<1> QED BY <1>3, <1>6, <1>7, <1>8 DEF Complete

LEMMA UnbrokenLosing ==
  ASSUME NEW w \in Seq(Nat), NEW lost, NEW h, Unbroken(w, lost), h \notin Range(w)
  PROVE  Unbroken(w, lost \union {h})
BY DEF Unbroken

------------------------------------------------------------------------------
(* The inductive invariant.                                                *)

Sending(c) == sender[c] \in {"waiting", "writing"}
Pumping(c) == pump[c] \in {"waiting", "taking", "sending"}

\* What the sender has taken of the stream of a client, in order; what its pump
\* has; and what the broadcaster has for everybody.
Front(c) == sent[c] \o (Held(shand[c]) \o ch[c])
Back(c) == Held(phand[c]) \o sq[c]
Rest == Held(bhand) \o queue
Got(c) == Front(c) \o Back(c)

Untouched(c) ==
  /\ c \notin subscribed /\ ~ended[c] /\ pump[c] = "none" /\ sender[c] = "none"
  /\ phand[c] = NoRecord /\ shand[c] = NoRecord
  /\ sq[c] = << >> /\ ch[c] = << >> /\ sent[c] = << >>

\* The goroutines hold a record where their steps say they do.
HandsInv ==
  /\ writer = "loaded" => next < MaxRecords
  /\ \A c \in Clients :
       /\ peer[c] \in {"absent", "upgraded"} => Untouched(c)
       /\ c \in subscribed => ~ended[c] /\ Pumping(c)
       /\ pump[c] = "sending" <=> phand[c] # NoRecord
       /\ sender[c] = "writing" <=> shand[c] # NoRecord
       /\ since[c] \in Nat /\ since[c] <= next + 1

\* What is not yet handed out is complete but for what was drained.
RestInv ==
  /\ \A r \in drained : r <= next
  /\ Complete(Rest, next, drained)

\* What a client has is behind what is not yet handed out.
Behind(c) == \A r \in Range(Got(c)) : r <= next /\ \A q \in Range(Rest) : r < q

\* What a client has is unbroken as far as its goroutines reach, and complete
\* while it is subscribed.
RunOf(c) ==
  /\ Unbroken(sent[c], drained)
  /\ Sending(c) => Unbroken(Front(c), drained)
  /\ Sending(c) /\ Pumping(c) => Unbroken(Got(c), drained)
  /\ Sending(c) /\ c \in subscribed =>
       /\ Complete(Got(c) \o Rest, next, drained)
       /\ \A r \in since[c] .. next : r \in Range(Got(c) \o Rest) \/ r \in drained

LogInv ==
  TypeOK /\ HandsInv /\ RestInv /\ \A c \in Clients : Behind(c) /\ RunOf(c)

------------------------------------------------------------------------------
(* Types.                                                                  *)

LEMMA RecordTypes ==
  /\ \A s \in Seq(Records) : s \in Seq(Nat)
  /\ \A r \in Records : r \in Nat /\ r # NoRecord /\ r \in Hand
  /\ \A r \in Hand : r # NoRecord => r \in Records
<1>1. Records \subseteq Nat /\ \A r \in Records : r # 0
  BY LogStreamAssumption DEF Records
<1>2. \A s \in Seq(Records) : s \in Seq(Nat)
  BY <1>1, SeqMonotonic
<1> QED BY <1>1, <1>2 DEF Hand, NoRecord

LEMMA HeldType ==
  ASSUME NEW h \in Hand
  PROVE  /\ Held(h) \in Seq(Nat)
         /\ h = NoRecord => Held(h) = << >> /\ Range(Held(h)) = {}
         /\ h # NoRecord => h \in Nat /\ Held(h) = <<h>> /\ Range(Held(h)) = {h}
BY RecordTypes, RangeSingle, RangeEmpty, EmptySeq DEF Held

LEMMA HeadTailType ==
  ASSUME NEW s \in Seq(Records), s # << >>
  PROVE  /\ Head(s) \in Records /\ Tail(s) \in Seq(Records)
         /\ s = <<Head(s)>> \o Tail(s) /\ Len(Tail(s)) = Len(s) - 1
<1>1. Head(s) \in Records /\ Tail(s) \in Seq(Records) /\ Len(Tail(s)) = Len(s) - 1
  BY HeadTailProperties
<1>2. s = <<Head(s)>> \o Tail(s)
  <2> DEFINE t == <<Head(s)>> \o Tail(s)
  <2>1. t \in Seq(Records) /\ Len(t) = Len(s)
    BY <1>1
  <2>2. \A i \in 1 .. Len(s) : t[i] = s[i]
    BY <1>1
  <2> QED BY <2>1, <2>2, SeqEqual
<1> QED BY <1>1, <1>2

LEMMA AppendType ==
  ASSUME NEW s \in Seq(Records), NEW r \in Records
  PROVE  /\ Append(s, r) \in Seq(Records) /\ Append(s, r) = s \o <<r>>
         /\ Len(Append(s, r)) = Len(s) + 1
BY AppendProperties, AppendIsConcat

\* The parts of what a client has are sequences of numbers.
LEMMA PartTypes ==
  ASSUME TypeOK, NEW c \in Clients
  PROVE  /\ sent[c] \in Seq(Nat) /\ ch[c] \in Seq(Nat) /\ sq[c] \in Seq(Nat)
         /\ queue \in Seq(Nat)
         /\ Held(shand[c]) \in Seq(Nat) /\ Held(phand[c]) \in Seq(Nat) /\ Held(bhand) \in Seq(Nat)
         /\ Held(shand[c]) \o ch[c] \in Seq(Nat)
         /\ Front(c) \in Seq(Nat) /\ Back(c) \in Seq(Nat) /\ Got(c) \in Seq(Nat)
         /\ Rest \in Seq(Nat) /\ Got(c) \o Rest \in Seq(Nat)
<1>1. /\ sent[c] \in Seq(Nat) /\ ch[c] \in Seq(Nat) /\ sq[c] \in Seq(Nat) /\ queue \in Seq(Nat)
  BY RecordTypes DEF TypeOK
<1>2. Held(shand[c]) \in Seq(Nat) /\ Held(phand[c]) \in Seq(Nat) /\ Held(bhand) \in Seq(Nat)
  BY HeldType DEF TypeOK
<1>3. Held(shand[c]) \o ch[c] \in Seq(Nat)
  BY <1>1, <1>2, RangeJoin
<1>4. Front(c) \in Seq(Nat) /\ Back(c) \in Seq(Nat) /\ Rest \in Seq(Nat)
  BY <1>1, <1>2, <1>3, RangeJoin DEF Front, Back, Rest
<1>5. Got(c) \in Seq(Nat)
  BY <1>4, RangeJoin DEF Got
<1>6. Got(c) \o Rest \in Seq(Nat)
  BY <1>4, <1>5, RangeJoin
<1> QED BY <1>1, <1>2, <1>3, <1>4, <1>5, <1>6

LEMMA InitType == Init => TypeOK
<1> SUFFICES ASSUME Init PROVE TypeOK
  OBVIOUS
<1>1. << >> \in Seq(Records) /\ Len(<< >>) = 0
  OBVIOUS
<1>2. ChanCap \in Nat /\ 0 \in 0 .. MaxRecords /\ NoRecord \in Hand
  BY LogStreamAssumption DEF Hand
<1>3. /\ next \in 0 .. MaxRecords /\ queue \in Seq(Records) /\ bhand \in Hand
      /\ drained \subseteq Records /\ subscribed \subseteq Clients
  BY <1>1, <1>2 DEF Init
<1>4. /\ sq \in [Clients -> Seq(Records)] /\ phand \in [Clients -> Hand]
      /\ ch \in [Clients -> Seq(Records)] /\ sent \in [Clients -> Seq(Records)]
      /\ shand \in [Clients -> Hand]
  BY <1>1, <1>2 DEF Init
<1>5. \A c \in Clients : Len(ch[c]) <= ChanCap
  BY <1>1, <1>2, LogStreamAssumption DEF Init
<1> QED BY <1>3, <1>4, <1>5 DEF Init, TypeOK

\* What the hands say before a step is enough for the types after it.
LEMMA NextType == TypeOK /\ HandsInv /\ Next => TypeOK'
<1> SUFFICES ASSUME TypeOK, HandsInv, Next PROVE TypeOK'
  OBVIOUS
<1> USE DEF logVars, subVars, chanVars, connVars, vars
<1>1. CASE PublishLoad
  BY <1>1 DEF PublishLoad, TypeOK
<1>2. CASE PublishAppend
  <2>1. next + 1 \in Records /\ next' = next + 1
    BY <1>2, LogStreamAssumption DEF PublishAppend, HandsInv, TypeOK, Records
  <2>2. queue' \in Seq(Records)
    BY <1>2, <2>1, AppendType DEF PublishAppend, TypeOK
  <2> QED BY <1>2, <2>1, <2>2, LogStreamAssumption DEF PublishAppend, TypeOK, Records
<1>3. CASE BroadcastStop \/ BroadcastWake \/ CloseStart
  BY <1>3 DEF BroadcastStop, BroadcastWake, CloseStart, TypeOK
<1>4. CASE BroadcastNext
  <2>1. queue # << >> => Head(queue) \in Hand /\ Tail(queue) \in Seq(Records)
    BY HeadTailType, RecordTypes DEF TypeOK
  <2> QED BY <1>4, <2>1 DEF BroadcastNext, TypeOK
<1>5. CASE MsgToSubscribers
  <2>1. bhand \in Records
    BY <1>5, RecordTypes DEF MsgToSubscribers, TypeOK
  <2>2. sq' \in [Clients -> Seq(Records)]
    BY <1>5, <2>1, AppendType DEF MsgToSubscribers, TypeOK
  <2> QED BY <1>5, <2>2 DEF MsgToSubscribers, TypeOK, Hand
<1>6. CASE CloseDrain
  <2>1. queue # << >> => Head(queue) \in Records /\ Tail(queue) \in Seq(Records)
    BY HeadTailType DEF TypeOK
  <2> QED BY <1>6, <2>1 DEF CloseDrain, TypeOK
<1>7. CASE CloseEnd
  BY <1>7 DEF CloseEnd, TypeOK
<1>8. CASE OthersChange
  BY <1>8 DEF OthersChange, TypeOK
<1>9. ASSUME NEW c \in Clients,
             Upgrade(c) \/ Subscribe(c) \/ Stall(c) \/ Depart(c) \/ ReadLoop(c)
               \/ SendCloseFrame(c) \/ PumpPause(c)
      PROVE  TypeOK'
  <2>1. CASE Upgrade(c) \/ Stall(c) \/ Depart(c)
    BY <2>1 DEF Upgrade, Stall, Depart, TypeOK
  <2>2. CASE ReadLoop(c) \/ SendCloseFrame(c) \/ PumpPause(c)
    BY <2>2 DEF ReadLoop, SendCloseFrame, PumpPause, TypeOK
  <2>3. CASE Subscribe(c)
    <3>1. /\ subscribed' \subseteq Clients /\ chClosed' \in [Clients -> BOOLEAN]
          /\ pump' \in [Clients -> {"none", "waiting", "taking", "sending", "exited"}]
      <4>1. CASE closed
        BY <2>3, <4>1 DEF Subscribe, TypeOK
      <4>2. CASE ~closed
        <5>1. /\ subscribed' = subscribed \union {c} /\ chClosed' = chClosed
              /\ pump' = [pump EXCEPT ![c] = "waiting"]
          BY <2>3, <4>2 DEF Subscribe
        <5> QED BY <5>1 DEF TypeOK
      <4> QED BY <4>1, <4>2
    <3> QED BY <2>3, <3>1 DEF Subscribe, TypeOK
  <2> QED BY <1>9, <2>1, <2>2, <2>3
<1>10. ASSUME NEW c \in Clients, PumpTake(c) PROVE TypeOK'
  <2>1. Head(sq[c]) \in Hand /\ Tail(sq[c]) \in Seq(Records)
    BY <1>10, HeadTailType, RecordTypes DEF PumpTake, TypeOK
  <2> QED BY <1>10, <2>1 DEF PumpTake, TypeOK
<1>11. ASSUME NEW c \in Clients, PumpSend(c) PROVE TypeOK'
  <2>1. phand[c] \in Records
    BY <1>11, RecordTypes DEF PumpSend, HandsInv, TypeOK
  <2>2. Append(ch[c], phand[c]) \in Seq(Records) /\ Len(Append(ch[c], phand[c])) <= ChanCap
    BY <1>11, <2>1, AppendType, LogStreamAssumption DEF PumpSend, TypeOK
  <2>3. ch' \in [Clients -> Seq(Records)] /\ \A d \in Clients : Len(ch'[d]) <= ChanCap
    BY <1>11, <2>2 DEF PumpSend, TypeOK
  <2> QED BY <1>11, <2>3 DEF PumpSend, TypeOK, Hand
<1>12. ASSUME NEW c \in Clients, PumpEnd(c) PROVE TypeOK'
  BY <1>12 DEF PumpEnd, TypeOK, Hand
<1>13. ASSUME NEW c \in Clients, SendTake(c) PROVE TypeOK'
  <2>1. /\ Head(ch[c]) \in Hand /\ Tail(ch[c]) \in Seq(Records)
        /\ Len(Tail(ch[c])) = Len(ch[c]) - 1 /\ Len(ch[c]) \in Nat
    BY <1>13, HeadTailType, RecordTypes DEF SendTake, TypeOK
  <2>2. ch' \in [Clients -> Seq(Records)] /\ \A d \in Clients : Len(ch'[d]) <= ChanCap
    BY <1>13, <2>1, LogStreamAssumption DEF SendTake, TypeOK
  <2> QED BY <1>13, <2>1, <2>2 DEF SendTake, TypeOK
<1>14. ASSUME NEW c \in Clients, SendRecord(c) PROVE TypeOK'
  <2>1. shand[c] \in Records
    BY <1>14, RecordTypes DEF SendRecord, HandsInv, TypeOK
  <2>2. sent' \in [Clients -> Seq(Records)]
    BY <1>14, <2>1, AppendType DEF SendRecord, TypeOK
  <2> QED BY <1>14, <2>2 DEF SendRecord, TypeOK, Hand
<1>15. ASSUME NEW c \in Clients, SendFails(c) PROVE TypeOK'
  BY <1>15 DEF SendFails, TypeOK, Hand
<1>16. ASSUME NEW c \in Clients, EndStep(c) PROVE TypeOK'
  BY <1>16 DEF EndStep, End, Unsubscribe, TypeOK
<1> QED
  BY <1>1, <1>2, <1>3, <1>4, <1>5, <1>6, <1>7, <1>8, <1>9, <1>10, <1>11, <1>12, <1>13, <1>14,
     <1>15, <1>16 DEF Next, Logger, Pump, Sender

------------------------------------------------------------------------------
(* The hands.                                                              *)

HandsOf(c) ==
  /\ peer[c] \in {"absent", "upgraded"} => Untouched(c)
  /\ c \in subscribed => ~ended[c] /\ Pumping(c)
  /\ pump[c] = "sending" <=> phand[c] # NoRecord
  /\ sender[c] = "writing" <=> shand[c] # NoRecord

\* A step that leaves these variables of a client alone leaves its hands alone.
LEMMA HandsFrame ==
  ASSUME NEW c \in Clients, HandsOf(c), (c \in subscribed') = (c \in subscribed),
         ended'[c] = ended[c], pump'[c] = pump[c], phand'[c] = phand[c], sq'[c] = sq[c],
         ch'[c] = ch[c], sender'[c] = sender[c], shand'[c] = shand[c], peer'[c] = peer[c],
         sent'[c] = sent[c]
  PROVE  HandsOf(c)'
BY DEF HandsOf, Untouched, Pumping

LEMMA LoggerHands ==
  ASSUME TypeOK, \A c \in Clients : HandsOf(c),
         PublishLoad \/ CloseStart \/ Logger \/ OthersChange
  PROVE  \A c \in Clients : HandsOf(c)'
<1> SUFFICES ASSUME NEW c \in Clients PROVE HandsOf(c)'
  OBVIOUS
<1> USE DEF logVars, subVars, chanVars, connVars, vars
<1>1. HandsOf(c)
  OBVIOUS
<1>2. CASE PublishLoad \/ CloseStart \/ OthersChange
  BY <1>1, <1>2, HandsFrame DEF PublishLoad, CloseStart, OthersChange
<1>3. CASE PublishAppend \/ BroadcastStop \/ BroadcastWake \/ BroadcastNext \/ CloseDrain
  BY <1>1, <1>3, HandsFrame
     DEF PublishAppend, BroadcastStop, BroadcastWake, BroadcastNext, CloseDrain
<1>4. CASE MsgToSubscribers
  <2>1. CASE c \in subscribed
    <3>1. peer[c] \notin {"absent", "upgraded"}
      BY <1>1, <2>1 DEF HandsOf, Untouched
    <3> QED BY <1>1, <1>4, <2>1, <3>1 DEF MsgToSubscribers, HandsOf, Pumping
  <2>2. CASE c \notin subscribed
    <3>1. sq'[c] = sq[c]
      BY <1>4, <2>2 DEF MsgToSubscribers, TypeOK
    <3> QED BY <1>1, <1>4, <3>1, HandsFrame DEF MsgToSubscribers
  <2> QED BY <2>1, <2>2
<1>5. CASE CloseEnd
  <2>1. ended'[c] = (ended[c] \/ c \in subscribed) /\ subscribed' = {}
    BY <1>5 DEF CloseEnd
  <2>2. peer[c] \in {"absent", "upgraded"} => c \notin subscribed /\ ended'[c] = ended[c]
    <3>1. ended[c] \in BOOLEAN
      BY DEF TypeOK
    <3> QED BY <1>1, <2>1, <3>1 DEF HandsOf, Untouched
  <2> QED BY <1>1, <1>5, <2>1, <2>2 DEF CloseEnd, HandsOf, Untouched
<1> QED BY <1>2, <1>3, <1>4, <1>5 DEF Logger

\* A step of one client leaves the others alone.
LEMMA OthersAlone ==
  ASSUME TypeOK, NEW c \in Clients, NEW d \in Clients, d # c,
         Upgrade(c) \/ Subscribe(c) \/ Stall(c) \/ Depart(c) \/ Pump(c) \/ ReadLoop(c)
           \/ Sender(c) \/ EndStep(c)
  PROVE  /\ (d \in subscribed') = (d \in subscribed) /\ ended'[d] = ended[d]
         /\ pump'[d] = pump[d] /\ phand'[d] = phand[d] /\ sq'[d] = sq[d] /\ ch'[d] = ch[d]
         /\ sender'[d] = sender[d] /\ shand'[d] = shand[d] /\ peer'[d] = peer[d]
         /\ sent'[d] = sent[d]
<1> USE DEF logVars, subVars, chanVars, connVars, vars
<1>1. CASE Upgrade(c) \/ Stall(c) \/ Depart(c) \/ ReadLoop(c)
  BY <1>1 DEF Upgrade, Stall, Depart, ReadLoop, TypeOK
<1>2. CASE Subscribe(c)
  BY <1>2 DEF Subscribe, TypeOK
<1>3. CASE Pump(c)
  BY <1>3 DEF Pump, PumpTake, PumpPause, PumpSend, PumpEnd, TypeOK
<1>4. CASE Sender(c)
  BY <1>4 DEF Sender, SendTake, SendCloseFrame, SendRecord, SendFails, TypeOK
<1>5. CASE EndStep(c)
  BY <1>5 DEF EndStep, End, Unsubscribe, TypeOK
<1> QED BY <1>1, <1>2, <1>3, <1>4, <1>5

LEMMA ClientHands ==
  ASSUME TypeOK, NEW c \in Clients, HandsOf(c),
         Upgrade(c) \/ Subscribe(c) \/ Stall(c) \/ Depart(c) \/ Pump(c) \/ ReadLoop(c)
           \/ Sender(c) \/ EndStep(c)
  PROVE  HandsOf(c)'
<1> USE DEF logVars, subVars, chanVars, connVars, vars
<1>1. peer[c] \in {"absent", "upgraded"} => Untouched(c)
  BY DEF HandsOf
<1>2. CASE Upgrade(c)
  BY <1>2 DEF Upgrade, HandsOf, Untouched, Pumping, TypeOK
<1>3. CASE Subscribe(c)
  BY <1>1, <1>3 DEF Subscribe, HandsOf, Untouched, Pumping, TypeOK
<1>4. CASE Stall(c) \/ Depart(c)
  BY <1>4 DEF Stall, Depart, HandsOf, Pumping, TypeOK
<1>5. CASE ReadLoop(c)
  BY <1>5, HandsFrame DEF ReadLoop
<1>6. CASE PumpTake(c)
  <2>1. Head(sq[c]) # NoRecord /\ ~Untouched(c)
    BY <1>6, HeadTailType, RecordTypes DEF PumpTake, TypeOK, Untouched
  <2> QED BY <1>1, <1>6, <2>1 DEF PumpTake, HandsOf, Pumping, TypeOK
<1>7. CASE PumpPause(c)
  BY <1>1, <1>7 DEF PumpPause, HandsOf, Untouched, Pumping, TypeOK
<1>8. CASE PumpSend(c)
  BY <1>1, <1>8 DEF PumpSend, HandsOf, Untouched, Pumping, TypeOK
<1>9. CASE PumpEnd(c)
  BY <1>1, <1>9 DEF PumpEnd, PumpWaits, HandsOf, Untouched, Pumping, TypeOK
<1>10. CASE SendTake(c)
  <2>1. Head(ch[c]) # NoRecord
    BY <1>10, HeadTailType, RecordTypes DEF SendTake, TypeOK
  <2> QED BY <1>1, <1>10, <2>1 DEF SendTake, HandsOf, Untouched, Pumping, TypeOK
<1>11. CASE SendCloseFrame(c)
  BY <1>1, <1>11 DEF SendCloseFrame, HandsOf, Untouched, Pumping, TypeOK
<1>12. CASE SendRecord(c)
  BY <1>1, <1>12 DEF SendRecord, HandsOf, Untouched, Pumping, TypeOK
<1>13. CASE SendFails(c)
  BY <1>1, <1>13 DEF SendFails, HandsOf, Untouched, Pumping, TypeOK
<1>14. CASE EndStep(c)
  <2>1. /\ subscribed' \subseteq subscribed
        /\ c \in subscribed' => ended'[c] = ended[c]
        /\ c \notin subscribed => ended'[c] = ended[c]
        /\ sender'[c] = sender[c] \/ sender[c] \in {"unsubscribing", "closing"}
        /\ sender'[c] # "writing" \/ sender'[c] = sender[c]
    BY <1>14 DEF EndStep, End, Unsubscribe, TypeOK
  <2>2. /\ pump' = pump /\ phand' = phand /\ sq' = sq /\ ch' = ch /\ shand' = shand
        /\ peer' = peer /\ sent' = sent
    BY <1>14 DEF EndStep
  <2>3. Untouched(c) => sender'[c] = sender[c]
    BY <2>1 DEF Untouched
  <2> QED BY <1>1, <2>1, <2>2, <2>3 DEF HandsOf, Untouched, Pumping
<1> QED
  BY <1>2, <1>3, <1>4, <1>5, <1>6, <1>7, <1>8, <1>9, <1>10, <1>11, <1>12, <1>13, <1>14
     DEF Pump, Sender

LEMMA NextHands == TypeOK /\ HandsInv /\ ReceiptNext => HandsInv'
<1> SUFFICES ASSUME TypeOK, HandsInv, ReceiptNext PROVE HandsInv'
  OBVIOUS
<1> USE DEF logVars, subVars, chanVars, connVars, vars
<1>1. \A c \in Clients : HandsOf(c)
  BY DEF HandsInv, HandsOf
<1>2. \A c \in Clients : HandsOf(c)'
  <2>1. CASE PublishLoad \/ CloseStart \/ Logger \/ OthersChange
    BY <1>1, <2>1, LoggerHands
  <2>2. ASSUME NEW c \in Clients,
               Upgrade(c) \/ Subscribe(c) \/ Stall(c) \/ Depart(c) \/ Pump(c) \/ ReadLoop(c)
                 \/ Sender(c) \/ EndStep(c),
               NEW d \in Clients
        PROVE  HandsOf(d)'
    <3>1. CASE d = c
      BY <1>1, <2>2, <3>1, ClientHands
    <3>2. CASE d # c
      BY <1>1, <2>2, <3>2, OthersAlone, HandsFrame
    <3> QED BY <3>1, <3>2
  <2> QED BY <2>1, <2>2 DEF ReceiptNext, Next
<1>3. next \in Nat /\ (next' = next \/ next' = next + 1) /\ (writer = "loaded" => next < MaxRecords)
  <2>1. next' = next \/ PublishAppend
    BY DEF ReceiptNext, Next, Logger, Pump, Sender, PublishLoad, BroadcastStop, BroadcastWake,
           BroadcastNext, MsgToSubscribers, CloseStart, CloseDrain, CloseEnd, OthersChange,
           Upgrade, Subscribe, Stall, Depart, ReadLoop, EndStep, PumpTake, PumpPause, PumpSend,
           PumpEnd, SendTake, SendCloseFrame, SendRecord, SendFails
  <2> QED BY <2>1, LogStreamAssumption DEF PublishAppend, TypeOK, HandsInv
<1>4. writer' = "loaded" => next' < MaxRecords
  <2>1. UNCHANGED <<next, writer>> \/ PublishAppend \/ PublishLoad
    BY DEF ReceiptNext, Next, Logger, Pump, Sender, BroadcastStop, BroadcastWake,
           BroadcastNext, MsgToSubscribers, CloseStart, CloseDrain, CloseEnd, OthersChange,
           Upgrade, Subscribe, Stall, Depart, ReadLoop, EndStep, PumpTake, PumpPause, PumpSend,
           PumpEnd, SendTake, SendCloseFrame, SendRecord, SendFails
  <2> QED BY <1>3, <2>1 DEF PublishAppend, PublishLoad
<1>5. ASSUME NEW c \in Clients PROVE since'[c] \in Nat /\ since'[c] <= next' + 1
  <2>1. since'[c] = next + 1 \/ since'[c] = since[c]
    BY DEF ReceiptNext
  <2> QED BY <1>3, <2>1 DEF HandsInv
<1> QED BY <1>2, <1>4, <1>5 DEF HandsInv, HandsOf

------------------------------------------------------------------------------
(* How the records move.                                                   *)

\* A step moves the records of a client forward or discards them: it brings none,
\* and while the goroutines of the client go on it neither loses one nor changes
\* their order.
Moves(c) ==
  /\ Range(Got(c)') \subseteq Range(Got(c))
  /\ Sending(c)' => Sending(c)
  /\ Pumping(c)' => Pumping(c)
  /\ (c \in subscribed)' => c \in subscribed
  /\ Sending(c)' /\ Pumping(c)' => Got(c)' = Got(c)
  /\ \/ sent'[c] = sent[c]
     \/ Sending(c) /\ \E v \in Seq(Nat) : Front(c) = sent'[c] \o v
  /\ Sending(c)' => \/ Front(c)' = Front(c)
                    \/ Sending(c) /\ Pumping(c) /\ \E v \in Seq(Nat) : Got(c) = Front(c)' \o v

LEMMA Unmoved ==
  ASSUME NEW c \in Clients, (c \in subscribed)' => c \in subscribed,
         Pumping(c)' => Pumping(c), Sending(c)' => Sending(c),
         phand'[c] = phand[c], sq'[c] = sq[c], ch'[c] = ch[c], shand'[c] = shand[c],
         sent'[c] = sent[c]
  PROVE  Moves(c)
<1>1. Front(c)' = Front(c) /\ Back(c)' = Back(c)
  BY DEF Front, Back
<1>2. Got(c)' = Got(c)
  BY <1>1 DEF Got
<1> QED BY <1>1, <1>2 DEF Moves

LEMMA PumpTakeMoves ==
  ASSUME TypeOK, HandsInv, NEW c \in Clients, PumpTake(c)
  PROVE  Moves(c)
<1> USE DEF logVars, subVars, chanVars, connVars, vars
<1>1. /\ phand[c] = NoRecord /\ Head(sq[c]) \in Records
      /\ sq[c] = <<Head(sq[c])>> \o Tail(sq[c]) /\ Tail(sq[c]) \in Seq(Nat)
  BY HeadTailType, RecordTypes DEF PumpTake, HandsInv, TypeOK
<1>2. phand'[c] = Head(sq[c]) /\ sq'[c] = Tail(sq[c])
  BY DEF PumpTake, TypeOK
<1>3. Held(phand[c]) = << >> /\ Held(phand'[c]) = <<Head(sq[c])>>
  BY <1>1, <1>2, RecordTypes, HeldType DEF TypeOK
<1>4. Back(c)' = Back(c)
  BY <1>1, <1>2, <1>3, PartTypes, JoinEmpty DEF Back
<1>5. Front(c)' = Front(c) /\ sent'[c] = sent[c]
  BY DEF PumpTake, Front
<1>6. Got(c)' = Got(c)
  BY <1>4, <1>5 DEF Got
<1>7. Sending(c)' = Sending(c) /\ Pumping(c) /\ (c \in subscribed)' = (c \in subscribed)
  BY DEF PumpTake, Sending, Pumping
<1> QED BY <1>5, <1>6, <1>7 DEF Moves

LEMMA PumpSendMoves ==
  ASSUME TypeOK, HandsInv, NEW c \in Clients, PumpSend(c)
  PROVE  Moves(c)
<1> USE DEF logVars, subVars, chanVars, connVars, vars
<1> DEFINE h == phand[c]  s == sent[c]  a == Held(shand[c])  b == ch[c]  q == sq[c]
<1>1. h \in Records /\ h \in Nat /\ Held(h) = <<h>> /\ Held(NoRecord) = << >> /\ <<h>> \in Seq(Nat)
  BY RecordTypes, HeldType, RangeSingle DEF PumpSend, HandsInv, TypeOK, Held
<1>2. phand'[c] = NoRecord /\ ch'[c] = b \o <<h>> /\ sq'[c] = q
  BY <1>1, AppendType DEF PumpSend, TypeOK
<1>3. s \in Seq(Nat) /\ a \in Seq(Nat) /\ b \in Seq(Nat) /\ q \in Seq(Nat)
  BY PartTypes
<1>4. /\ Front(c) = s \o (a \o b) /\ Back(c) = <<h>> \o q
      /\ Front(c)' = s \o (a \o (b \o <<h>>)) /\ Back(c)' = << >> \o q
  BY <1>1, <1>2 DEF PumpSend, Front, Back
<1> HIDE DEF h, s, a, b, q
<1>5. a \o b \in Seq(Nat) /\ Front(c) \in Seq(Nat) /\ b \o <<h>> \in Seq(Nat)
  BY <1>1, <1>3, <1>4, RangeJoin
<1>6. Front(c)' = Front(c) \o <<h>>
  <2>1. a \o (b \o <<h>>) = (a \o b) \o <<h>>
    BY <1>1, <1>3, JoinAssociative
  <2>2. s \o ((a \o b) \o <<h>>) = (s \o (a \o b)) \o <<h>>
    <3> DEFINE ab == a \o b
    <3>1. ab \in Seq(Nat)
      BY <1>5
    <3> HIDE DEF ab
    <3>2. s \o (ab \o <<h>>) = (s \o ab) \o <<h>>
      BY <1>1, <1>3, <3>1, JoinAssociative
    <3> QED BY <3>2 DEF ab
  <2> QED BY <1>4, <2>1, <2>2
<1>7. Back(c)' = q
  BY <1>3, <1>4, JoinEmpty
<1>8. Front(c)' \o q = Got(c)
  <2>1. (Front(c) \o <<h>>) \o q = Front(c) \o (<<h>> \o q)
    <3> DEFINE f == Front(c)
    <3>1. f \in Seq(Nat)
      BY <1>5
    <3> HIDE DEF f
    <3>2. (f \o <<h>>) \o q = f \o (<<h>> \o q)
      BY <1>1, <1>3, <3>1, JoinAssociative
    <3> QED BY <3>2 DEF f
  <2> QED BY <1>4, <1>6, <2>1 DEF Got
<1>9. Got(c)' = Got(c)
  BY <1>7, <1>8 DEF Got
<1>10. Sending(c)' = Sending(c) /\ Pumping(c) /\ (c \in subscribed)' = (c \in subscribed)
       /\ sent'[c] = sent[c]
  BY DEF PumpSend, Sending, Pumping
<1> QED BY <1>3, <1>8, <1>9, <1>10 DEF Moves

\* What a client has, as a set, of any values of its parts.
LEMMA PartsRange ==
  ASSUME NEW s \in Seq(Records), NEW b \in Seq(Records), NEW q \in Seq(Records),
         NEW a \in Hand, NEW p \in Hand
  PROVE  /\ Range(s \o (Held(a) \o b)) = Range(s) \union Range(Held(a)) \union Range(b)
         /\ Range(Held(p) \o q) = Range(Held(p)) \union Range(q)
         /\ Range((s \o (Held(a) \o b)) \o (Held(p) \o q))
              = Range(s \o (Held(a) \o b)) \union Range(Held(p) \o q)
         /\ s \in Seq(Nat) /\ s \o (Held(a) \o b) \in Seq(Nat)
<1>1. /\ s \in Seq(Nat) /\ b \in Seq(Nat) /\ q \in Seq(Nat)
      /\ Held(a) \in Seq(Nat) /\ Held(p) \in Seq(Nat)
  BY RecordTypes, HeldType
<1>2. Held(a) \o b \in Seq(Nat) /\ Range(Held(a) \o b) = Range(Held(a)) \union Range(b)
  BY <1>1, RangeJoin
<1>3. /\ s \o (Held(a) \o b) \in Seq(Nat)
      /\ Range(s \o (Held(a) \o b)) = Range(s) \union Range(Held(a) \o b)
  BY <1>1, <1>2, RangeJoin
<1>4. Held(p) \o q \in Seq(Nat) /\ Range(Held(p) \o q) = Range(Held(p)) \union Range(q)
  BY <1>1, RangeJoin
<1>5. Range((s \o (Held(a) \o b)) \o (Held(p) \o q))
        = Range(s \o (Held(a) \o b)) \union Range(Held(p) \o q)
  BY <1>3, <1>4, RangeJoin
<1> QED BY <1>1, <1>2, <1>3, <1>4, <1>5

LEMMA GotRange ==
  ASSUME TypeOK, NEW c \in Clients
  PROVE  /\ Range(Front(c)) = Range(sent[c]) \union Range(Held(shand[c])) \union Range(ch[c])
         /\ Range(Back(c)) = Range(Held(phand[c])) \union Range(sq[c])
         /\ Range(Got(c)) = Range(Front(c)) \union Range(Back(c))
BY PartsRange DEF TypeOK, Front, Back, Got

LEMMA GotRangeAfter ==
  ASSUME TypeOK', NEW c \in Clients
  PROVE  /\ Range(Front(c)') = Range(sent'[c]) \union Range(Held(shand'[c])) \union Range(ch'[c])
         /\ Range(Back(c)') = Range(Held(phand'[c])) \union Range(sq'[c])
         /\ Range(Got(c)') = Range(Front(c)') \union Range(Back(c)')
         /\ sent'[c] \in Seq(Nat) /\ Front(c)' \in Seq(Nat)
BY PartsRange DEF TypeOK, Front, Back, Got

LEMMA PumpEndMoves ==
  ASSUME TypeOK, TypeOK', HandsInv, NEW c \in Clients, PumpEnd(c)
  PROVE  Moves(c)
<1> USE DEF logVars, subVars, chanVars, connVars, vars
<1>1. /\ sent' = sent /\ shand' = shand /\ ch' = ch /\ sq' = sq /\ sender' = sender
      /\ subscribed' = subscribed /\ phand'[c] = NoRecord /\ pump'[c] = "exited"
      /\ Pumping(c)
  BY DEF PumpEnd, PumpWaits, Pumping, TypeOK
<1>2. Front(c)' = Front(c) /\ Sending(c)' = Sending(c) /\ ~Pumping(c)'
  BY <1>1 DEF Front, Sending, Pumping
<1>3. Range(Back(c)') \subseteq Range(Back(c))
  <2>1. Range(Held(phand'[c])) = {}
    BY <1>1, HeldType DEF TypeOK
  <2>2. Range(Back(c)') = Range(Held(phand'[c])) \union Range(sq'[c])
    BY GotRangeAfter
  <2> QED BY <1>1, <2>1, <2>2, GotRange
<1>4. Range(Got(c)') \subseteq Range(Got(c))
  <2>1. Range(Got(c)') = Range(Front(c)') \union Range(Back(c)')
    BY GotRangeAfter
  <2> QED BY <1>2, <1>3, <2>1, GotRange
<1> QED BY <1>1, <1>2, <1>4 DEF Moves

LEMMA SendTakeMoves ==
  ASSUME TypeOK, HandsInv, NEW c \in Clients, SendTake(c)
  PROVE  Moves(c)
<1> USE DEF logVars, subVars, chanVars, connVars, vars
<1>1. /\ shand[c] = NoRecord /\ Head(ch[c]) \in Records
      /\ ch[c] = <<Head(ch[c])>> \o Tail(ch[c]) /\ Tail(ch[c]) \in Seq(Nat)
  BY HeadTailType, RecordTypes DEF SendTake, HandsInv, TypeOK
<1>2. shand'[c] = Head(ch[c]) /\ ch'[c] = Tail(ch[c])
  BY DEF SendTake, TypeOK
<1>3. Held(shand[c]) = << >> /\ Held(shand'[c]) = <<Head(ch[c])>>
  BY <1>1, <1>2, RecordTypes, HeldType DEF TypeOK
<1>4. Held(shand[c]) \o ch[c] = Held(shand'[c]) \o ch'[c]
  BY <1>1, <1>2, <1>3, PartTypes, JoinEmpty
<1>5. Front(c)' = Front(c) /\ sent'[c] = sent[c]
  BY <1>4 DEF SendTake, Front
<1>6. Got(c)' = Got(c)
  BY <1>5 DEF SendTake, Back, Got
<1>7. /\ Sending(c) /\ Pumping(c)' = Pumping(c) /\ (c \in subscribed)' = (c \in subscribed)
  BY DEF SendTake, Sending, Pumping
<1> QED BY <1>5, <1>6, <1>7 DEF Moves

LEMMA SendRecordMoves ==
  ASSUME TypeOK, HandsInv, NEW c \in Clients, SendRecord(c)
  PROVE  Moves(c)
<1> USE DEF logVars, subVars, chanVars, connVars, vars
<1> DEFINE h == shand[c]  s == sent[c]  b == ch[c]
<1>1. h \in Records /\ h \in Nat /\ Held(h) = <<h>> /\ Held(NoRecord) = << >> /\ <<h>> \in Seq(Nat)
  BY RecordTypes, HeldType, RangeSingle DEF SendRecord, HandsInv, TypeOK, Held
<1>2. shand'[c] = NoRecord /\ sent'[c] = s \o <<h>> /\ ch'[c] = b
  BY <1>1, AppendType DEF SendRecord, TypeOK
<1>3. s \in Seq(Nat) /\ b \in Seq(Nat)
  BY PartTypes
<1>4. Front(c) = s \o (<<h>> \o b) /\ Front(c)' = (s \o <<h>>) \o (<< >> \o b)
  BY <1>1, <1>2 DEF Front
<1> HIDE DEF h, s, b
<1>5. Front(c)' = Front(c) /\ Front(c) = sent'[c] \o b
  <2>1. s \o (<<h>> \o b) = (s \o <<h>>) \o b
    BY <1>1, <1>3, JoinAssociative
  <2>2. << >> \o b = b
    BY <1>3, JoinEmpty
  <2> QED BY <1>2, <1>4, <2>1, <2>2
<1>6. Got(c)' = Got(c)
  BY <1>5 DEF SendRecord, Back, Got
<1>7. Sending(c) /\ Pumping(c)' = Pumping(c) /\ (c \in subscribed)' = (c \in subscribed)
  BY DEF SendRecord, Sending, Pumping
<1> QED BY <1>3, <1>5, <1>6, <1>7 DEF Moves

LEMMA SendFailsMoves ==
  ASSUME TypeOK, TypeOK', HandsInv, NEW c \in Clients, SendFails(c)
  PROVE  Moves(c)
<1> USE DEF logVars, subVars, chanVars, connVars, vars
<1>1. /\ sent' = sent /\ phand' = phand /\ ch' = ch /\ sq' = sq /\ pump' = pump
      /\ subscribed' = subscribed /\ shand'[c] = NoRecord /\ sender'[c] = "unsubscribing"
      /\ Sending(c)
  BY DEF SendFails, Sending, TypeOK
<1>2. Back(c)' = Back(c) /\ Pumping(c)' = Pumping(c) /\ ~Sending(c)'
  BY <1>1 DEF Back, Sending, Pumping
<1>3. Range(Front(c)') \subseteq Range(Front(c))
  <2>1. Range(Held(shand'[c])) = {}
    BY <1>1, HeldType DEF TypeOK
  <2> QED BY <1>1, <2>1, GotRange, GotRangeAfter
<1>4. Range(Got(c)') \subseteq Range(Got(c))
  BY <1>2, <1>3, GotRange, GotRangeAfter
<1> QED BY <1>1, <1>2, <1>4 DEF Moves

LEMMA ClientMoves ==
  ASSUME TypeOK, TypeOK', HandsInv, NEW c \in Clients,
         Upgrade(c) \/ Stall(c) \/ Depart(c) \/ Pump(c) \/ ReadLoop(c) \/ Sender(c) \/ EndStep(c)
  PROVE  Moves(c)
<1> USE DEF logVars, subVars, chanVars, connVars, vars
<1>1. CASE Upgrade(c) \/ Stall(c) \/ Depart(c) \/ ReadLoop(c)
  BY <1>1, Unmoved DEF Upgrade, Stall, Depart, ReadLoop, Sending, Pumping
<1>2. CASE PumpPause(c)
  BY <1>2, Unmoved DEF PumpPause, Sending, Pumping, TypeOK
<1>3. CASE SendCloseFrame(c)
  BY <1>3, Unmoved DEF SendCloseFrame, Sending, Pumping, TypeOK
<1>4. CASE EndStep(c)
  <2>1. /\ subscribed' \subseteq subscribed
        /\ sender'[c] \in {"waiting", "writing"} => sender'[c] = sender[c]
    BY <1>4 DEF EndStep, End, Unsubscribe, TypeOK
  <2> QED BY <1>4, <2>1, Unmoved DEF EndStep, Sending, Pumping
<1> QED
  BY <1>1, <1>2, <1>3, <1>4, PumpTakeMoves, PumpSendMoves, PumpEndMoves, SendTakeMoves,
     SendRecordMoves, SendFailsMoves DEF Pump, Sender

------------------------------------------------------------------------------
(* Every step keeps the runs.                                              *)

LEMMA OthersMoves ==
  ASSUME TypeOK, NEW c \in Clients, NEW d \in Clients, d # c,
         Upgrade(c) \/ Subscribe(c) \/ Stall(c) \/ Depart(c) \/ Pump(c) \/ ReadLoop(c)
           \/ Sender(c) \/ EndStep(c)
  PROVE  Moves(d)
BY OthersAlone, Unmoved DEF Sending, Pumping

\* Where nothing is handed out, queued or drained, moving keeps the run.
LEMMA MovesKeep ==
  ASSUME TypeOK, TypeOK', HandsInv', NEW c \in Clients, Moves(c), Behind(c), RunOf(c),
         next' = next, drained' = drained, Rest' = Rest, since'[c] = since[c]
  PROVE  Behind(c)' /\ RunOf(c)'
<1>1. Behind(c)'
  BY DEF Behind, Moves
<1>2. Unbroken(sent'[c], drained)
  <2>1. CASE sent'[c] = sent[c]
    BY <2>1 DEF RunOf
  <2>2. CASE sent'[c] # sent[c]
    <3>1. Sending(c)
      BY <2>2 DEF Moves
    <3>2. PICK v \in Seq(Nat) : Front(c) = sent'[c] \o v
      BY <2>2 DEF Moves
    <3>3. Unbroken(sent'[c] \o v, drained) /\ sent'[c] \in Seq(Nat)
      BY <3>1, <3>2, GotRangeAfter DEF RunOf
    <3> QED BY <3>3, UnbrokenPrefix
  <2> QED BY <2>1, <2>2
<1>3. ASSUME Sending(c)' PROVE Unbroken(Front(c)', drained)
  <2>1. CASE Front(c)' = Front(c)
    BY <1>3, <2>1 DEF Moves, RunOf
  <2>2. CASE Front(c)' # Front(c)
    <3>1. PICK v \in Seq(Nat) : Sending(c) /\ Pumping(c) /\ Got(c) = Front(c)' \o v
      BY <1>3, <2>2 DEF Moves
    <3>2. Unbroken(Front(c)' \o v, drained) /\ Front(c)' \in Seq(Nat)
      BY <3>1, GotRangeAfter DEF RunOf
    <3> QED BY <3>2, UnbrokenPrefix
  <2> QED BY <2>1, <2>2
<1>4. ASSUME Sending(c)', Pumping(c)' PROVE Unbroken(Got(c)', drained)
  BY <1>4 DEF Moves, RunOf
<1>5. ASSUME Sending(c)', c \in subscribed'
      PROVE  /\ Complete(Got(c)' \o Rest', next', drained')
             /\ \A r \in since'[c] .. next' : r \in Range(Got(c)' \o Rest') \/ r \in drained'
  <2>1. Pumping(c)'
    BY <1>5 DEF HandsInv
  <2> QED BY <1>5, <2>1 DEF Moves, RunOf
<1> QED BY <1>1, <1>2, <1>3, <1>4, <1>5 DEF RunOf

LEMMA PublishKeeps ==
  ASSUME LogInv, PublishAppend, ReceiptNext
  PROVE  RestInv' /\ \A c \in Clients : Behind(c)' /\ RunOf(c)'
<1> USE DEF logVars, subVars, chanVars, connVars, vars
<1> DEFINE n == next + 1
<1>1. /\ next \in Nat /\ n \in Nat /\ n > next /\ next' = n /\ n \in Records
      /\ drained' = drained /\ subscribed' = subscribed
  BY LogStreamAssumption DEF PublishAppend, LogInv, HandsInv, TypeOK, Records
<1>2. queue' = queue \o <<n>> /\ bhand' = bhand /\ <<n>> \in Seq(Nat) /\ Range(<<n>>) = {n}
  BY <1>1, AppendType, RangeSingle DEF PublishAppend, LogInv, TypeOK
<1>3. Held(bhand) \in Seq(Nat) /\ queue \in Seq(Nat) /\ Rest \in Seq(Nat)
  BY RecordTypes, HeldType, RangeJoin DEF LogInv, TypeOK, Rest
<1>4. Rest' = Rest \o <<n>>
  BY <1>2, <1>3, JoinAssociative DEF Rest
<1>5. n \notin drained /\ \A r \in drained : r <= n
  BY <1>1 DEF LogInv, RestInv, TypeOK, Records
<1>6. Range(Rest') = Range(Rest) \union {n}
  BY <1>2, <1>3, <1>4, RangeJoin
<1>7. RestInv'
  <2>1. Complete(Rest \o <<n>>, n, drained)
    BY <1>1, <1>3, <1>5, CompleteAppend DEF LogInv, RestInv
  <2> QED BY <1>1, <1>4, <1>5, <2>1 DEF RestInv
<1>8. ASSUME NEW c \in Clients PROVE Behind(c)' /\ RunOf(c)'
  <2>1. /\ Front(c)' = Front(c) /\ Got(c)' = Got(c) /\ sent'[c] = sent[c]
        /\ Sending(c)' = Sending(c) /\ Pumping(c)' = Pumping(c)
    BY DEF PublishAppend, Front, Back, Got, Sending, Pumping
  <2>2. since'[c] = since[c] /\ since[c] \in Nat
    BY <1>1 DEF ReceiptNext, LogInv, HandsInv
  <2>3. Got(c) \in Seq(Nat) /\ Got(c) \o Rest \in Seq(Nat)
    BY PartTypes DEF LogInv
  <2>4. \A r \in Range(Got(c)) : r \in Nat /\ r <= next /\ \A q \in Range(Rest) : r < q
    BY <2>3, RangeIndex DEF LogInv, Behind
  <2>5. Behind(c)'
    BY <1>1, <1>6, <2>1, <2>4 DEF Behind
  <2>6. Got(c)' \o Rest' = (Got(c) \o Rest) \o <<n>>
    <3> DEFINE g == Got(c)
    <3>1. g \in Seq(Nat)
      BY <2>3
    <3> HIDE DEF g
    <3>2. g \o (Rest \o <<n>>) = (g \o Rest) \o <<n>>
      BY <1>2, <1>3, <3>1, JoinAssociative
    <3> QED BY <1>4, <2>1, <3>2 DEF g
  <2>7. ASSUME Sending(c), c \in subscribed
        PROVE  /\ Complete(Got(c)' \o Rest', n, drained)
               /\ \A r \in since[c] .. n : r \in Range(Got(c)' \o Rest') \/ r \in drained
    <3>1. /\ Complete(Got(c) \o Rest, next, drained)
          /\ \A r \in since[c] .. next : r \in Range(Got(c) \o Rest) \/ r \in drained
      BY <2>7 DEF LogInv, RunOf
    <3>2. Complete((Got(c) \o Rest) \o <<n>>, n, drained)
      BY <1>1, <1>5, <2>3, <3>1, CompleteAppend
    <3>3. Range(Got(c)' \o Rest') = Range(Got(c) \o Rest) \union {n}
      BY <1>2, <2>3, <2>6, RangeJoin
    <3>4. ASSUME NEW r \in since[c] .. n PROVE r = n \/ r \in since[c] .. next
      BY <1>1, <2>2
    <3> QED BY <2>6, <3>1, <3>2, <3>3, <3>4
  <2> QED BY <1>1, <2>1, <2>2, <2>5, <2>7 DEF LogInv, RunOf
<1> QED BY <1>7, <1>8

LEMMA MsgKeeps ==
  ASSUME LogInv, MsgToSubscribers, ReceiptNext
  PROVE  RestInv' /\ \A c \in Clients : Behind(c)' /\ RunOf(c)'
<1> USE DEF logVars, subVars, chanVars, connVars, vars
<1> DEFINE h == bhand
<1>1. h \in Records /\ h \in Nat /\ Held(h) = <<h>> /\ Held(NoRecord) = << >>
      /\ <<h>> \in Seq(Nat) /\ Range(<<h>>) = {h} /\ queue \in Seq(Nat) /\ Rest \in Seq(Nat)
      /\ next \in Nat
  BY RecordTypes, HeldType, RangeSingle, RangeJoin DEF MsgToSubscribers, LogInv, TypeOK, Held, Rest
<1>2. Rest = <<h>> \o queue /\ Rest' = queue /\ drained' = drained /\ next' = next
      /\ subscribed' = subscribed
  BY <1>1, JoinEmpty DEF MsgToSubscribers, Rest
<1> HIDE DEF h
<1>3. RestInv'
  BY <1>1, <1>2, CompleteSuffix DEF LogInv, RestInv
<1>4. Range(Rest) = {h} \union Range(queue) /\ \A q \in Range(queue) : h < q
  <2>1. Increasing(Rest)
    BY DEF LogInv, RestInv, Complete
  <2> QED BY <1>1, <1>2, <2>1, RangeJoin, IncreasingJoin
<1>5. h <= next
  BY <1>4 DEF LogInv, RestInv, Complete
<1>6. ASSUME NEW c \in Clients PROVE Behind(c)' /\ RunOf(c)'
  <2>1. /\ Front(c)' = Front(c) /\ sent'[c] = sent[c] /\ since'[c] = since[c]
        /\ Sending(c)' = Sending(c) /\ Pumping(c)' = Pumping(c)
    BY <1>2 DEF MsgToSubscribers, ReceiptNext, Front, Sending, Pumping
  <2>2. /\ Front(c) \in Seq(Nat) /\ Back(c) \in Seq(Nat) /\ Got(c) \in Seq(Nat)
        /\ Held(phand[c]) \in Seq(Nat) /\ sq[c] \in Seq(Nat)
    BY PartTypes DEF LogInv
  <2>3. \A r \in Range(Got(c)) : r \in Nat /\ r <= next /\ \A q \in Range(Rest) : r < q
    BY <2>2, RangeIndex DEF LogInv, Behind
  <2>4. CASE c \notin subscribed
    <3>1. Got(c)' = Got(c)
      BY <2>1, <2>4 DEF MsgToSubscribers, LogInv, TypeOK, Back, Got
    <3>2. Behind(c)'
      BY <1>2, <1>4, <2>3, <3>1 DEF Behind
    <3> QED BY <1>2, <2>1, <2>4, <3>1, <3>2 DEF LogInv, RunOf
  <2>5. CASE c \in subscribed
    <3>1. sq'[c] = sq[c] \o <<h>> /\ phand'[c] = phand[c]
      BY <1>1, <2>5, AppendType DEF MsgToSubscribers, LogInv, TypeOK, h
    <3>2. Back(c)' = Back(c) \o <<h>>
      <4> DEFINE a == Held(phand[c])  b == sq[c]
      <4>1. a \in Seq(Nat) /\ b \in Seq(Nat) /\ Back(c) = a \o b /\ Back(c)' = a \o (b \o <<h>>)
        BY <2>2, <3>1 DEF Back
      <4> HIDE DEF a, b
      <4>2. a \o (b \o <<h>>) = (a \o b) \o <<h>>
        BY <1>1, <4>1, JoinAssociative
      <4> QED BY <4>1, <4>2
    <3>3. Got(c)' = Got(c) \o <<h>>
      <4> DEFINE f == Front(c)  b == Back(c)
      <4>1. f \in Seq(Nat) /\ b \in Seq(Nat)
        BY <2>2
      <4> HIDE DEF f, b
      <4>2. f \o (b \o <<h>>) = (f \o b) \o <<h>>
        BY <1>1, <4>1, JoinAssociative
      <4> QED BY <2>1, <3>2, <4>2 DEF Got, f, b
    <3>4. Got(c)' \o Rest' = Got(c) \o Rest
      <4> DEFINE g == Got(c)
      <4>1. g \in Seq(Nat)
        BY <2>2
      <4> HIDE DEF g
      <4>2. (g \o <<h>>) \o queue = g \o (<<h>> \o queue)
        BY <1>1, <4>1, JoinAssociative
      <4> QED BY <1>2, <3>3, <4>2 DEF g
    <3>5. Range(Got(c)') = Range(Got(c)) \union {h}
      <4>1. Range(Got(c) \o <<h>>) = Range(Got(c)) \union Range(<<h>>)
        BY <1>1, <2>2, RangeJoin
      <4> QED BY <1>1, <3>3, <4>1
    <3>6. Behind(c)'
      BY <1>2, <1>4, <1>5, <2>3, <3>5 DEF Behind
    <3>7. ASSUME Sending(c)
          PROVE  /\ Unbroken(Got(c)', drained)
                 /\ Complete(Got(c)' \o Rest', next, drained)
                 /\ \A r \in since[c] .. next : r \in Range(Got(c)' \o Rest') \/ r \in drained
      <4>1. /\ Complete(Got(c) \o Rest, next, drained)
            /\ \A r \in since[c] .. next : r \in Range(Got(c) \o Rest) \/ r \in drained
        BY <2>5, <3>7 DEF LogInv, RunOf
      <4>2. Complete(Got(c)' \o Rest', next, drained)
        BY <3>4, <4>1
      <4>3. Got(c)' \in Seq(Nat) /\ Rest' \in Seq(Nat) /\ Got(c)' \o Rest' \in Seq(Nat)
        BY <1>1, <1>2, <2>2, <3>3, RangeJoin
      <4>4. Unbroken(Got(c)' \o Rest', drained)
        BY <1>1, <4>2, <4>3, CompleteIsUnbroken
      <4>5. Unbroken(Got(c)', drained)
        BY <4>3, <4>4, UnbrokenPrefix
      <4> QED BY <3>4, <4>1, <4>2, <4>5
    <3> QED BY <1>2, <2>1, <3>6, <3>7 DEF LogInv, RunOf
  <2> QED BY <2>4, <2>5
<1> QED BY <1>3, <1>6

LEMMA DrainKeeps ==
  ASSUME LogInv, CloseDrain, ReceiptNext, queue # << >>
  PROVE  RestInv' /\ \A c \in Clients : Behind(c)' /\ RunOf(c)'
<1> USE DEF logVars, subVars, chanVars, connVars, vars
<1> DEFINE h == Head(queue)  t == Tail(queue)  u == Held(bhand)
<1>1. /\ h \in Nat /\ t \in Seq(Nat) /\ u \in Seq(Nat) /\ queue = <<h>> \o t
      /\ <<h>> \in Seq(Nat) /\ Range(<<h>>) = {h} /\ next \in Nat
  BY HeadTailType, RecordTypes, HeldType, RangeSingle DEF LogInv, TypeOK
<1>2. /\ Rest = u \o (<<h>> \o t) /\ Rest' = u \o t /\ drained' = drained \union {h}
      /\ next' = next /\ subscribed' = subscribed
  BY <1>1 DEF CloseDrain, Rest
<1> HIDE DEF h, t, u
<1>3. Complete(u \o t, next, drained \union {h}) /\ Range(Rest') = Range(Rest) \ {h}
  BY <1>1, <1>2, CompleteLosing DEF LogInv, RestInv
<1>4. h \in Range(Rest)
  <2>1. <<h>> \o t \in Seq(Nat) /\ h \in Range(<<h>> \o t)
    BY <1>1, RangeJoin
  <2> QED BY <1>1, <1>2, <2>1, RangeJoin
<1>5. RestInv'
  BY <1>2, <1>3, <1>4 DEF LogInv, RestInv, Complete
<1>6. ASSUME NEW c \in Clients PROVE Behind(c)' /\ RunOf(c)'
  <2>1. /\ Front(c)' = Front(c) /\ Got(c)' = Got(c) /\ sent'[c] = sent[c]
        /\ Sending(c)' = Sending(c) /\ Pumping(c)' = Pumping(c) /\ since'[c] = since[c]
    BY <1>2 DEF CloseDrain, ReceiptNext, Front, Back, Got, Sending, Pumping
  <2>2. /\ Front(c) \in Seq(Nat) /\ Back(c) \in Seq(Nat) /\ Got(c) \in Seq(Nat)
        /\ sent[c] \in Seq(Nat) /\ Rest \in Seq(Nat)
    BY PartTypes DEF LogInv
  <2>3. \A r \in Range(Got(c)) : r \in Nat /\ r <= next /\ \A q \in Range(Rest) : r < q
    BY <2>2, RangeIndex DEF LogInv, Behind
  <2>4. Behind(c)'
    BY <1>2, <1>3, <2>1, <2>3 DEF Behind
  <2>5. h \notin Range(Got(c))
    BY <1>1, <1>4, <2>3
  <2>6. h \notin Range(Front(c)) /\ h \notin Range(sent[c])
    BY <2>5, GotRange DEF LogInv
  <2>7. /\ Unbroken(sent[c], drained \union {h})
        /\ Sending(c) => Unbroken(Front(c), drained \union {h})
        /\ Sending(c) /\ Pumping(c) => Unbroken(Got(c), drained \union {h})
    BY <1>1, <2>2, <2>5, <2>6, UnbrokenLosing DEF LogInv, RunOf
  <2>8. ASSUME Sending(c), c \in subscribed
        PROVE  /\ Complete(Got(c) \o Rest', next, drained \union {h})
               /\ \A r \in since[c] .. next :
                    r \in Range(Got(c) \o Rest') \/ r \in drained \union {h}
    <3> DEFINE g == Got(c)
    <3>1. g \in Seq(Nat) /\ u \o t \in Seq(Nat) /\ <<h>> \o t \in Seq(Nat)
      BY <1>1, <2>2, RangeJoin
    <3>2. /\ Complete(g \o Rest, next, drained)
          /\ \A r \in since[c] .. next : r \in Range(g \o Rest) \/ r \in drained
      BY <2>8 DEF LogInv, RunOf
    <3> HIDE DEF g
    <3>3. g \o u \in Seq(Nat)
      BY <1>1, <3>1, RangeJoin
    <3>4. g \o Rest = (g \o u) \o (<<h>> \o t)
      BY <1>1, <1>2, <3>1, JoinAssociative
    <3>5. g \o Rest' = (g \o u) \o t
      <4>1. g \o (u \o t) = (g \o u) \o t
        <5>1. u \in Seq(Nat) /\ t \in Seq(Nat)
          BY <1>1
        <5> QED BY <3>1, <5>1, JoinAssociative
      <4> QED BY <1>2, <4>1
    <3>6. /\ Complete((g \o u) \o t, next, drained \union {h})
          /\ Range((g \o u) \o t) = Range((g \o u) \o (<<h>> \o t)) \ {h}
      <4> DEFINE gu == g \o u
      <4>1. gu \in Seq(Nat) /\ Complete(gu \o (<<h>> \o t), next, drained)
        BY <3>2, <3>3, <3>4
      <4> HIDE DEF gu
      <4>2. /\ Complete(gu \o t, next, drained \union {h})
            /\ Range(gu \o t) = Range(gu \o (<<h>> \o t)) \ {h}
        BY <1>1, <4>1, CompleteLosing
      <4> QED BY <4>2 DEF gu
    <3>7. Complete(g \o Rest', next, drained \union {h}) /\ Range(g \o Rest') = Range(g \o Rest) \ {h}
      BY <3>4, <3>5, <3>6
    <3> QED BY <3>2, <3>7 DEF g
  <2> QED BY <1>2, <2>1, <2>4, <2>7, <2>8 DEF RunOf
<1> QED BY <1>5, <1>6

\* A client that subscribes has nothing yet, and everything to come.
LEMMA SubscribeKeeps ==
  ASSUME LogInv, NEW c \in Clients, Subscribe(c), ReceiptNext
  PROVE  Behind(c)' /\ RunOf(c)'
<1> USE DEF logVars, subVars, chanVars, connVars, vars
<1>1. Untouched(c)
  BY DEF Subscribe, LogInv, HandsInv
<1>2. /\ sent'[c] = << >> /\ ch'[c] = << >> /\ sq'[c] = << >>
      /\ phand'[c] = NoRecord /\ shand'[c] = NoRecord
      /\ next' = next /\ drained' = drained /\ Rest' = Rest
  BY <1>1 DEF Subscribe, Untouched, Rest
<1>3. Held(NoRecord) = << >> /\ << >> \in Seq(Nat) /\ << >> \o << >> = << >>
  BY JoinEmpty DEF Held
<1>4. Front(c)' = << >> /\ Back(c)' = << >>
  BY <1>2, <1>3 DEF Front, Back
<1>5. Got(c)' = << >>
  BY <1>3, <1>4 DEF Got
<1>6. Behind(c)'
  BY <1>5, RangeEmpty DEF Behind
<1>7. Unbroken(<< >>, drained)
  <2>1. Increasing(<< >>)
    BY DEF Increasing
  <2> QED BY <2>1, RangeEmpty DEF Unbroken
<1>8. ASSUME c \in subscribed'
      PROVE  /\ Complete(Got(c)' \o Rest', next', drained')
             /\ \A r \in since'[c] .. next' : r \in Range(Got(c)' \o Rest') \/ r \in drained'
  <2>1. Rest \in Seq(Nat) /\ next \in Nat
    BY PartTypes DEF LogInv, TypeOK
  <2>2. Got(c)' \o Rest' = Rest
    BY <1>2, <1>5, <2>1, JoinEmpty
  <2>3. since'[c] = next + 1
    BY <1>1, <1>8 DEF ReceiptNext, Untouched
  <2>4. since'[c] .. next' = {}
    BY <1>2, <2>1, <2>3
  <2>5. Complete(Rest, next, drained)
    BY DEF LogInv, RestInv
  <2> QED BY <1>2, <2>2, <2>4, <2>5
<1> QED BY <1>2, <1>4, <1>5, <1>6, <1>7, <1>8 DEF RunOf

\* The other steps of the logger hand out no record and queue none.
LEMMA QuietLog ==
  ASSUME TypeOK,
         PublishLoad \/ CloseStart \/ OthersChange \/ BroadcastStop \/ BroadcastWake
           \/ BroadcastNext \/ CloseEnd \/ (CloseDrain /\ queue = << >>)
  PROVE  next' = next /\ drained' = drained /\ Rest' = Rest
<1>1. CASE BroadcastNext /\ queue # << >>
  <2>1. /\ Head(queue) \in Records /\ queue = <<Head(queue)>> \o Tail(queue)
        /\ Tail(queue) \in Seq(Nat) /\ queue \in Seq(Nat)
    BY <1>1, HeadTailType, RecordTypes DEF TypeOK
  <2>2. Held(bhand) = << >> /\ Held(bhand') = <<Head(queue)>> /\ queue' = Tail(queue)
    BY <1>1, <2>1, RecordTypes DEF BroadcastNext, Held
  <2>3. next' = next /\ drained' = drained
    BY <1>1 DEF BroadcastNext
  <2> QED BY <2>1, <2>2, <2>3, JoinEmpty DEF Rest
<1>2. CASE BroadcastNext /\ queue = << >>
  BY <1>2 DEF BroadcastNext, Rest
<1>3. CASE PublishLoad \/ CloseStart \/ OthersChange \/ BroadcastStop \/ BroadcastWake
             \/ CloseEnd \/ (CloseDrain /\ queue = << >>)
  BY <1>3 DEF PublishLoad, CloseStart, OthersChange, BroadcastStop, BroadcastWake, CloseEnd,
              CloseDrain, Rest, logVars
<1> QED BY <1>1, <1>2, <1>3

LEMMA LoggerMoves ==
  ASSUME NEW c \in Clients,
         PublishLoad \/ CloseStart \/ OthersChange \/ BroadcastStop \/ BroadcastWake
           \/ BroadcastNext \/ CloseEnd \/ (CloseDrain /\ queue = << >>)
  PROVE  Moves(c)
BY Unmoved
   DEF PublishLoad, CloseStart, OthersChange, BroadcastStop, BroadcastWake, BroadcastNext,
       CloseEnd, CloseDrain, Sending, Pumping, logVars, subVars, chanVars, connVars

LEMMA RunsInit == ReceiptInit => LogInv
<1> SUFFICES ASSUME ReceiptInit PROVE LogInv
  OBVIOUS
<1>1. TypeOK
  BY InitType DEF ReceiptInit
<1>2. HandsInv
  BY <1>1 DEF ReceiptInit, Init, HandsInv, Untouched, TypeOK
<1>3. Held(NoRecord) = << >> /\ << >> \in Seq(Nat) /\ << >> \o << >> = << >>
  BY JoinEmpty DEF Held
<1>4. Increasing(<< >>)
  BY DEF Increasing
<1>5. Rest = << >> /\ drained = {}
  BY <1>3 DEF ReceiptInit, Init, Rest
<1>6. RestInv
  BY <1>4, <1>5, RangeEmpty DEF RestInv, Complete
<1>7. ASSUME NEW c \in Clients PROVE Behind(c) /\ RunOf(c)
  <2>1. sent[c] = << >> /\ Front(c) = << >> /\ Back(c) = << >> /\ c \notin subscribed
    BY <1>3 DEF ReceiptInit, Init, Front, Back
  <2>2. Got(c) = << >>
    BY <1>3, <2>1 DEF Got
  <2>3. Unbroken(<< >>, drained)
    BY <1>4, RangeEmpty DEF Unbroken
  <2> QED BY <2>1, <2>2, <2>3, RangeEmpty DEF Behind, RunOf
<1> QED BY <1>1, <1>2, <1>6, <1>7 DEF LogInv

LEMMA RunsNext == LogInv /\ [ReceiptNext]_<<vars, since>> => LogInv'
<1> SUFFICES ASSUME LogInv, [ReceiptNext]_<<vars, since>> PROVE LogInv'
  OBVIOUS
<1>1. CASE UNCHANGED <<vars, since>>
  BY <1>1 DEF vars, logVars, subVars, chanVars, connVars, LogInv, TypeOK, HandsInv, RestInv,
              Behind, RunOf, Untouched, Sending, Pumping, Front, Back, Rest, Got
<1>2. CASE ReceiptNext
  <2> DEFINE Quiet == PublishLoad \/ CloseStart \/ OthersChange \/ BroadcastStop \/ BroadcastWake
                        \/ BroadcastNext \/ CloseEnd \/ (CloseDrain /\ queue = << >>)
             Step(c) == Upgrade(c) \/ Subscribe(c) \/ Stall(c) \/ Depart(c) \/ Pump(c)
                          \/ ReadLoop(c) \/ Sender(c) \/ EndStep(c)
  <2>1. TypeOK' /\ HandsInv'
    BY <1>2, NextType, NextHands DEF LogInv, ReceiptNext
  <2>2. ASSUME NEW c \in Clients, Moves(c), next' = next, drained' = drained, Rest' = Rest
        PROVE  Behind(c)' /\ RunOf(c)'
    <3>1. since'[c] = since[c]
      BY <1>2, <2>2 DEF ReceiptNext, Moves
    <3> QED BY <2>1, <2>2, <3>1, MovesKeep DEF LogInv
  <2>3. next' = next /\ drained' = drained /\ Rest' = Rest => RestInv'
    BY DEF LogInv, RestInv
  <2>4. RestInv' /\ \A c \in Clients : Behind(c)' /\ RunOf(c)'
    <3>1. CASE PublishAppend
      BY <1>2, <3>1, PublishKeeps
    <3>2. CASE MsgToSubscribers
      BY <1>2, <3>2, MsgKeeps
    <3>3. CASE CloseDrain /\ queue # << >>
      BY <1>2, <3>3, DrainKeeps
    <3>4. CASE Quiet
      <4>1. next' = next /\ drained' = drained /\ Rest' = Rest
        BY <3>4, QuietLog DEF LogInv
      <4>2. \A c \in Clients : Moves(c)
        BY <3>4, LoggerMoves DEF LogInv
      <4> QED BY <2>2, <2>3, <4>1, <4>2
    <3>5. ASSUME NEW c \in Clients, Step(c)
          PROVE  RestInv' /\ \A d \in Clients : Behind(d)' /\ RunOf(d)'
      <4>1. next' = next /\ drained' = drained /\ Rest' = Rest
        BY <3>5 DEF Upgrade, Subscribe, Stall, Depart, Pump, PumpTake, PumpPause, PumpSend, PumpEnd,
                    ReadLoop, Sender, SendTake, SendCloseFrame, SendRecord, SendFails, EndStep,
                    logVars, Rest
      <4>2. ASSUME NEW d \in Clients PROVE Behind(d)' /\ RunOf(d)'
        <5>1. CASE d # c
          BY <2>2, <3>5, <4>1, <5>1, OthersMoves DEF LogInv
        <5>2. CASE d = c /\ Subscribe(c)
          BY <1>2, <5>2, SubscribeKeeps
        <5>3. CASE d = c /\ ~Subscribe(c)
          BY <2>1, <2>2, <3>5, <4>1, <5>3, ClientMoves DEF LogInv
        <5> QED BY <5>1, <5>2, <5>3
      <4> QED BY <2>3, <4>1, <4>2
    <3> QED BY <1>2, <3>1, <3>2, <3>3, <3>4, <3>5 DEF ReceiptNext, Next, Logger
  <2> QED BY <2>1, <2>4 DEF LogInv
<1> QED BY <1>1, <1>2

LEMMA AlwaysLogInv == ReceiptSpec => []LogInv
<1> QED BY RunsInit, RunsNext, PTL DEF ReceiptSpec

------------------------------------------------------------------------------
(* Theorems.                                                               *)

\* Every variable of the stream has its type: in particular the channel of a subscriber stays
\* within its capacity, and no goroutine takes a record where there is none.
THEOREM TypeCorrect == ReceiptSpec => []TypeOK
<1>1. LogInv => TypeOK
  BY DEF LogInv
<1> QED BY <1>1, AlwaysLogInv, PTL

\* logger.go:114, logger.go:50, websocket.go: whatever the interleaving of the goroutines a record
\* passes through, a client is written an uninterrupted run of the log, each record once and in
\* order, but for what Close discards.
THEOREM InOrder == ReceiptSpec => []ReceivedInOrder
<1>1. LogInv => ReceivedInOrder
  <2> SUFFICES ASSUME LogInv, NEW c \in Clients
               PROVE  IsRun(sent[c], sent[c][Len(sent[c])], drained)
    BY DEF ReceivedInOrder
  <2>1. sent[c] \in Seq(Nat) /\ Unbroken(sent[c], drained)
    BY PartTypes DEF LogInv, RunOf
  <2> QED BY <2>1, UnbrokenIsRun
<1> QED BY <1>1, AlwaysLogInv, PTL

\* What is on its way is what is in the hands and the queues between the log and the client.
LEMMA GotAndRest ==
  ASSUME TypeOK, NEW c \in Clients
  PROVE  sent[c] \o OnItsWay(c) = Got(c) \o Rest
<1> DEFINE s == sent[c]  ab == Held(shand[c]) \o ch[c]  p == Held(phand[c])  q == sq[c]
           r == Held(bhand)  t == queue
           pq == p \o q  rt == r \o t  abpq == ab \o pq
<1>1. s \in Seq(Nat)
  BY PartTypes
<1>2. ab \in Seq(Nat)
  BY PartTypes
<1>3. p \in Seq(Nat)
  BY PartTypes
<1>4. q \in Seq(Nat)
  BY PartTypes
<1>5. r \in Seq(Nat)
  BY PartTypes
<1>6. t \in Seq(Nat)
  BY PartTypes
<1>7. OnItsWay(c) = (((ab \o p) \o q) \o r) \o t
  BY DEF OnItsWay
<1>8. Got(c) \o Rest = ((s \o ab) \o pq) \o rt
  BY DEF Got, Front, Back, Rest
<1> HIDE DEF s, ab, p, q, r, t
<1>9. pq \in Seq(Nat)
  BY <1>3, <1>4, RangeJoin
<1>10. rt \in Seq(Nat)
  BY <1>5, <1>6, RangeJoin
<1>11. (ab \o p) \o q = ab \o pq
  BY <1>2, <1>3, <1>4, JoinAssociative
<1> HIDE DEF pq
<1>12. abpq \in Seq(Nat)
  BY <1>2, <1>9, RangeJoin
<1>13. (s \o ab) \o pq = s \o abpq
  BY <1>1, <1>2, <1>9, JoinAssociative
<1>14. ((ab \o p) \o q) = abpq
  BY <1>11
<1> HIDE DEF abpq
<1>15. (abpq \o r) \o t = abpq \o rt
  BY <1>5, <1>6, <1>12, JoinAssociative
<1> HIDE DEF rt
<1>16. (s \o abpq) \o rt = s \o (abpq \o rt)
  BY <1>1, <1>10, <1>12, JoinAssociative
<1>17. sent[c] \o OnItsWay(c) = s \o (abpq \o rt)
  BY <1>7, <1>14, <1>15, Zenon DEF s
<1> QED BY <1>8, <1>13, <1>16, <1>17, Zenon

\* logger.go (Subscribe), websocket.go: while a client is subscribed and is being served, no record
\* queued since it subscribed is missing from what it has received and what is on its way, but for
\* what Close discards; and what it has received, then and later, is a run of the log.
THEOREM NothingMissed == ReceiptSpec => []NothingSkipped
<1>1. LogInv => StaysComplete
  <2> SUFFICES ASSUME LogInv, NEW c \in subscribed, Sending(c)
               PROVE  /\ IsRun(sent[c] \o OnItsWay(c), next, drained)
                      /\ (since[c] .. next) \ drained \subseteq Range(sent[c] \o OnItsWay(c))
    BY DEF StaysComplete, Sending
  <2>1. c \in Clients /\ next \in Nat
    BY DEF LogInv, TypeOK
  <2>2. sent[c] \o OnItsWay(c) = Got(c) \o Rest /\ Got(c) \o Rest \in Seq(Nat)
    BY <2>1, GotAndRest, PartTypes DEF LogInv
  <2>3. /\ Complete(Got(c) \o Rest, next, drained)
        /\ \A r \in since[c] .. next : r \in Range(Got(c) \o Rest) \/ r \in drained
    BY <2>1 DEF LogInv, RunOf
  <2>4. IsRun(Got(c) \o Rest, next, drained)
    BY <2>1, <2>2, <2>3, CompleteIsRun
  <2> QED BY <2>2, <2>3, <2>4
<1>2. LogInv /\ ReceivedInOrder => NothingSkipped
  BY <1>1 DEF NothingSkipped
<1> QED BY <1>2, InOrder, AlwaysLogInv, PTL
=============================================================================
