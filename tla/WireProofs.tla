----------------------------- MODULE WireProofs -----------------------------
(***************************************************************************)
(* Under an end that lives a connection is broken only by answers that     *)
(* fill the socket (Wire!BrokenAnswering), whatever is sent and however it *)
(* is cut up, as long as DN_CMD_LEN is no greater than BUFSZ.  The         *)
(* argument: everything on its way to an end, from the start of its inbuf  *)
(* on, is whole messages but for the beginning of the first; each is       *)
(* shorter than inbuf, so that a full inbuf holds the end of a message,    *)
(* and conn_notify_core takes whole messages out before it returns to the  *)
(* loop.  And the room that was there when EV_WRITE was passed on is there *)
(* until a message is handled: only the end itself takes it.               *)
(*                                                                         *)
(* And a connection implements Channel (Wire!InOrder): a unit that goes    *)
(* from a buffer into the socket, or from the socket into a buffer, leaves *)
(* the stream of a direction as it is, a message that is sent is joined to *)
(* it, and the one that is received is the first of it.                    *)
(***************************************************************************)
EXTENDS Wire, SequenceTheorems, FiniteSetTheorems, SetFacts

Unit == [id : {Pin} \cup Nat, last : BOOLEAN]

Typed ==
    /\ pc \in [End -> {"idle", "read", "handled", "dead"}]
    /\ inbuf \in [End -> Seq(Unit)]
    /\ outbuf \in [End -> Seq(Unit)]
    /\ pipe \in [End -> Seq(Unit)]
    /\ \A e \in End : Len(pipe[e]) <= Room
    /\ made \in [End -> Nat]
    /\ crashes \in Nat

\* From every unit it is less than Limit units to the end of a message.
Marked(s) ==
    \A i \in 1 .. Len(s) : \E j \in i .. Len(s) : j - i < Limit - 1 /\ s[j].last

NoLast(s) == \A i \in 1 .. Len(s) : ~s[i].last

\* Concatenation, as an operator of its own: the provers expand \o.
Cat(s, t) == s \o t

Stream(e) == (inbuf[e] \o pipe[e]) \o outbuf[Peer(e)]

StreamsMarked ==
    \A e \in End : Alive(e) /\ Alive(Peer(e)) => Marked(Stream(e))

IdleHasNone == \A e \in End : pc[e] = "idle" => NoLast(inbuf[e])

WireInv == Typed /\ StreamsMarked /\ IdleHasNone

\* What a step does to the streams of the two ends while neither dies.
SameStream == \A d \in End : Stream(d)' = Stream(d) /\ Alive(d)' = Alive(d)

\* One message, as Units makes it or what is left of it.
OneMessage(a) ==
    /\ a \in Seq(Unit) /\ Len(a) # 0 /\ a[Len(a)].last
    /\ \A i \in 1 .. Len(a) - 1 : ~a[i].last

Joins(e, m) ==
    /\ \E u : OneMessage(u) /\ u[Len(u)].id = m
              /\ Stream(Peer(e))' = Cat(Stream(Peer(e)), u)
    /\ Stream(e)' = Stream(e)
    /\ \A d \in End : Alive(d)' = Alive(d)

Leaves(e) ==
    /\ \E a : OneMessage(a) /\ Stream(e) = Cat(a, Stream(e)')
    /\ Stream(e)' \in Seq(Unit)
    /\ Stream(Peer(e))' = Stream(Peer(e))
    /\ \A d \in End : Alive(d)' = Alive(d)

-----------------------------------------------------------------------------
(* Sequences of units.                                                     *)

LEMMA PeerFacts ==
  \A e \in End : Peer(e) \in End /\ Peer(e) # e /\ Peer(Peer(e)) = e
                 /\ End = {e, Peer(e)}
BY DEF End, Peer

\* A part is a sequence of units.
LEMMA PartOf ==
  ASSUME NEW s \in Seq(Unit), NEW k \in 0 .. Len(s)
  PROVE  /\ SubSeq(s, 1, k) \in Seq(Unit) /\ Len(SubSeq(s, 1, k)) = k
         /\ SubSeq(s, k + 1, Len(s)) \in Seq(Unit)
         /\ Len(SubSeq(s, k + 1, Len(s))) = Len(s) - k
         /\ \A i \in 1 .. k : SubSeq(s, 1, k)[i] = s[i]
         /\ \A i \in 1 .. Len(s) - k : SubSeq(s, k + 1, Len(s))[i] = s[k + i]
<1>1. Len(s) \in Nat /\ k \in Int /\ k + 1 \in Int
  BY LenProperties
<1>2. \A i \in 1 .. k : s[i] \in Unit
  BY <1>1, ElementOfSeq
<1>3. \A i \in k + 1 .. Len(s) : s[i] \in Unit
  BY <1>1, ElementOfSeq
<1>4. /\ SubSeq(s, 1, k) \in Seq(Unit)
      /\ Len(SubSeq(s, 1, k)) = IF 1 <= k THEN k - 1 + 1 ELSE 0
      /\ \A i \in 1 .. k - 1 + 1 : SubSeq(s, 1, k)[i] = s[1 + i - 1]
  BY <1>1, <1>2, SubSeqProperties
<1>5. /\ SubSeq(s, k + 1, Len(s)) \in Seq(Unit)
      /\ Len(SubSeq(s, k + 1, Len(s))) =
            IF k + 1 <= Len(s) THEN Len(s) - (k + 1) + 1 ELSE 0
      /\ \A i \in 1 .. Len(s) - (k + 1) + 1 :
            SubSeq(s, k + 1, Len(s))[i] = s[k + 1 + i - 1]
  BY <1>1, <1>3, SubSeqProperties
<1>6. QED
  BY <1>1, <1>4, <1>5

LEMMA CatFacts ==
  /\ \A s, t \in Seq(Unit) : Cat(s, t) \in Seq(Unit)
  /\ \A s \in Seq(Unit) : Cat(s, <<>>) = s /\ Cat(<<>>, s) = s
BY ConcatProperties, ConcatEmptySeq DEF Cat

LEMMA CatGroups ==
  \A s, t, r \in Seq(Unit) : Cat(Cat(s, t), r) = Cat(s, Cat(t, r))
BY ConcatAssociative DEF Cat

\* A message cut in two, if anything of it is sent before what was left over,
\* nothing was.
LEMMA CatBetween ==
  ASSUME NEW i \in Seq(Unit), NEW q \in Seq(Unit), NEW o \in Seq(Unit),
         NEW a \in Seq(Unit), NEW b \in Seq(Unit), NEW u \in Seq(Unit),
         Cat(a, b) = u, o = <<>> \/ (a = <<>> /\ b = u)
  PROVE  Cat(Cat(i, Cat(q, a)), Cat(o, b)) = Cat(Cat(Cat(i, q), o), u)
<1>1. Cat(i, q) \in Seq(Unit) /\ Cat(q, a) \in Seq(Unit)
  BY CatFacts
<1>2. CASE o = <<>>
  <2>1. Cat(i, Cat(q, a)) = Cat(Cat(i, q), a)
    BY CatGroups
  <2>2. Cat(Cat(Cat(i, q), a), b) = Cat(Cat(i, q), u)
    BY <1>1, CatGroups
  <2>3. Cat(o, b) = b /\ Cat(Cat(i, q), o) = Cat(i, q)
    BY <1>1, <1>2, CatFacts
  <2>4. QED
    BY <2>1, <2>2, <2>3
<1>3. CASE a = <<>> /\ b = u
  <2>1. Cat(q, a) = q
    BY <1>3, CatFacts
  <2>2. Cat(Cat(Cat(i, q), o), u) = Cat(Cat(i, q), Cat(o, u))
    BY <1>1, CatGroups
  <2>3. QED
    BY <1>3, <2>1, <2>2
<1>4. QED
  BY <1>2, <1>3

\* The two parts of a sequence are the sequence.
LEMMA PartsMeet ==
  ASSUME NEW s \in Seq(Unit), NEW k \in 0 .. Len(s)
  PROVE  SubSeq(s, 1, k) \o SubSeq(s, k + 1, Len(s)) = s
<1> DEFINE a == SubSeq(s, 1, k)
           b == SubSeq(s, k + 1, Len(s))
<1>1. /\ a \in Seq(Unit) /\ Len(a) = k /\ b \in Seq(Unit) /\ Len(b) = Len(s) - k
      /\ \A i \in 1 .. k : a[i] = s[i]
      /\ \A i \in 1 .. Len(s) - k : b[i] = s[k + i]
  BY PartOf
<1>2. Len(s) \in Nat
  BY LenProperties
<1> HIDE DEF a, b
<1>3. /\ a \o b \in Seq(Unit)
      /\ Len(a \o b) = Len(s)
      /\ \A i \in 1 .. Len(s) : (a \o b)[i] = IF i <= k THEN a[i] ELSE b[i - k]
  BY <1>1, <1>2, ConcatProperties
<1>4. \A i \in 1 .. Len(s) : (a \o b)[i] = s[i]
  BY <1>1, <1>2, <1>3
<1>5. a \o b = s
  BY <1>3, <1>4, SeqEqual
<1>6. QED
  BY <1>5 DEF a, b

\* What is left of whole messages when units are taken off the front.
LEMMA MarkedRest ==
  ASSUME NEW s \in Seq(Unit), Marked(s), NEW k \in 0 .. Len(s)
  PROVE  Marked(SubSeq(s, k + 1, Len(s)))
<1> DEFINE t == SubSeq(s, k + 1, Len(s))
<1>1. Len(s) \in Nat /\ Len(t) = Len(s) - k
      /\ \A i \in 1 .. Len(s) - k : t[i] = s[k + i]
  BY PartOf, LenProperties
<1> HIDE DEF t
<1>2. SUFFICES ASSUME NEW i \in 1 .. Len(t)
               PROVE  \E j \in i .. Len(t) : j - i < Limit - 1 /\ t[j].last
  BY DEF Marked, t
<1>3. k + i \in 1 .. Len(s)
  BY <1>1
<1>4. PICK j \in k + i .. Len(s) : j - (k + i) < Limit - 1 /\ s[j].last
  BY <1>3 DEF Marked
<1>5. j - k \in i .. Len(t) /\ (j - k) - i < Limit - 1 /\ t[j - k].last
  BY <1>1, <1>4, WireAssumption, SMTT(30)
<1>6. QED
  BY <1>5

\* Messages after messages.
LEMMA MarkedBoth ==
  ASSUME NEW s \in Seq(Unit), NEW t \in Seq(Unit), Marked(s), Marked(t)
  PROVE  Marked(s \o t)
<1>1. /\ Len(s) \in Nat /\ Len(t) \in Nat
      /\ Len(s \o t) = Len(s) + Len(t)
      /\ \A i \in 1 .. Len(s) + Len(t) :
            (s \o t)[i] = IF i <= Len(s) THEN s[i] ELSE t[i - Len(s)]
  BY ConcatProperties, LenProperties
<1>2. SUFFICES ASSUME NEW i \in 1 .. Len(s) + Len(t)
               PROVE  \E j \in i .. Len(s) + Len(t) :
                         j - i < Limit - 1 /\ (s \o t)[j].last
  BY <1>1 DEF Marked
<1>3. CASE i <= Len(s)
  <2>1. i \in 1 .. Len(s)
    BY <1>1, <1>3
  <2>2. PICK j \in i .. Len(s) : j - i < Limit - 1 /\ s[j].last
    BY <2>1 DEF Marked
  <2>3. j \in i .. Len(s) + Len(t) /\ (s \o t)[j] = s[j]
    BY <1>1, <2>1, <2>2
  <2>4. QED
    BY <2>2, <2>3
<1>4. CASE ~(i <= Len(s))
  <2>1. i - Len(s) \in 1 .. Len(t)
    BY <1>1, <1>4
  <2>2. PICK j \in i - Len(s) .. Len(t) : j - (i - Len(s)) < Limit - 1 /\ t[j].last
    BY <2>1 DEF Marked
  <2>3. /\ j + Len(s) \in i .. Len(s) + Len(t)
        /\ (j + Len(s)) - i < Limit - 1
        /\ (j + Len(s)) - Len(s) = j /\ ~(j + Len(s) <= Len(s))
    BY <1>1, <2>1, <2>2, WireAssumption
  <2>4. (s \o t)[j + Len(s)] = t[j]
    BY <1>1, <2>1, <2>2, <2>3
  <2>5. QED
    BY <2>2, <2>3, <2>4
<1>5. QED
  BY <1>3, <1>4

\* A message that is sent is one, marked at its end.
LEMMA UnitsMarked ==
  ASSUME NEW e \in End, NEW m \in Nat,
         m # Pin => m \in 1 .. Len(Size[e]) /\ ~TooLong(e, m)
  PROVE  /\ Units(e, m) \in Seq(Unit) /\ Marked(Units(e, m))
         /\ OneMessage(Units(e, m)) /\ Units(e, m)[Len(Units(e, m))].id = m
<1> DEFINE size == IF m = Pin THEN 1 ELSE Size[e][m]
<1>1. size \in Nat \ {0} /\ size < Limit
  <2>1. CASE m = Pin
    BY <2>1, WireAssumption
  <2>2. CASE m # Pin
    <3>1. Size[e] \in Seq(Nat \ {0})
      BY WireAssumption DEF End
    <3>2. Size[e][m] \in Nat \ {0}
      BY <2>2, <3>1, ElementOfSeq
    <3>3. QED
      BY <2>2, <3>2, WireAssumption DEF TooLong
  <2>3. QED
    BY <2>1, <2>2
<1> HIDE DEF size
<1>2. Units(e, m) = [i \in 1 .. size |-> [id |-> m, last |-> i = size]]
  BY DEF Units, size
<1>3. Units(e, m) \in Seq(Unit) /\ Len(Units(e, m)) = size
  BY <1>1, <1>2 DEF Unit
<1>4. Units(e, m)[size].last /\ Units(e, m)[size].id = m
  <2>1. size \in 1 .. size
    BY <1>1
  <2>2. Units(e, m)[size] = [id |-> m, last |-> TRUE]
    BY <1>2, <2>1
  <2>3. QED
    BY <2>2
<1>5. \A i \in 1 .. size : size \in i .. size /\ size - i < Limit - 1
  BY <1>1, WireAssumption
<1>6. \A i \in 1 .. size - 1 : ~Units(e, m)[i].last
  <2>1. SUFFICES ASSUME NEW i \in 1 .. size - 1 PROVE ~Units(e, m)[i].last
    OBVIOUS
  <2>2. i \in 1 .. size /\ i # size
    BY <1>1
  <2>3. Units(e, m)[i] = [id |-> m, last |-> FALSE]
    BY <1>2, <2>2
  <2>4. QED
    BY <2>3
<1>7. QED
  BY <1>1, <1>3, <1>4, <1>5, <1>6 DEF Marked, OneMessage

\* The first whole message ends within inbuf, or none does.
LEMMA WholeOf ==
  ASSUME NEW s \in Seq(Unit)
  PROVE  IF NoLast(s) THEN Whole(s) = 0
         ELSE /\ Whole(s) \in 1 .. Len(s) /\ s[Whole(s)].last
              /\ \A j \in 1 .. Whole(s) - 1 : ~s[j].last
<1>1. Len(s) \in Nat /\ DOMAIN s = 1 .. Len(s)
  BY LenProperties
<1>2. CASE NoLast(s)
  BY <1>1, <1>2 DEF NoLast, Whole
<1>3. CASE ~NoLast(s)
  <2> DEFINE ends == {i \in 1 .. Len(s) : s[i].last}
  <2>1. ends \in SUBSET Nat /\ ends # {}
    BY <1>1, <1>3 DEF NoLast
  <2>2. PICK x \in ends : \A y \in ends : ~ (<<y, x>> \in Less)
    BY <2>1, LessWellFounded, WFMin, Zenon
  <2>3. ASSUME NEW j \in 1 .. x - 1, s[j].last PROVE FALSE
    <3>1. x \in Nat /\ j \in ends /\ j < x
      BY <1>1, <2>3
    <3>2. <<j, x>> \in Less
      BY <3>1, <2>1 DEF Less
    <3>3. QED
      BY <2>2, <3>1, <3>2
  <2>4. \E i \in DOMAIN s : s[i].last
    BY <1>1, <2>2
  <2>5. \E i \in DOMAIN s : s[i].last /\ \A j \in 1 .. i - 1 : ~s[j].last
    BY <1>1, <2>2, <2>3
  <2>6. /\ Whole(s) \in DOMAIN s /\ s[Whole(s)].last
        /\ \A j \in 1 .. Whole(s) - 1 : ~s[j].last
    BY <2>4, <2>5, Zenon DEF Whole
  <2>7. QED
    BY <1>1, <1>3, <2>6
<1>4. QED
  BY <1>2, <1>3

-----------------------------------------------------------------------------
(* The messages that end in a stream of units.                             *)

LEMMA EndedSteps ==
  ASSUME NEW s \in Seq(Unit)
  PROVE  /\ Ended(s, 0) = 0
         /\ \A i \in 0 .. Len(s) : Ended(s, i) \in Nat
         /\ \A i \in 1 .. Len(s) :
               Ended(s, i) = IF s[i].last THEN Ended(s, i - 1) + 1 ELSE Ended(s, i - 1)
         /\ \A i, j \in 0 .. Len(s) : i <= j => Ended(s, i) <= Ended(s, j)
<1> DEFINE E(i) == {j \in 1 .. i : s[j].last}
<1>1. Len(s) \in Nat
  BY LenProperties
<1>2. \A i : Ended(s, i) = Cardinality(E(i))
  BY DEF Ended
<1>3. \A i \in 0 .. Len(s) : IsFiniteSet(E(i)) /\ Ended(s, i) \in Nat
  <2>1. SUFFICES ASSUME NEW i \in 0 .. Len(s)
                 PROVE  IsFiniteSet(E(i)) /\ Ended(s, i) \in Nat
    OBVIOUS
  <2>2. IsFiniteSet(1 .. i) /\ E(i) \subseteq 1 .. i
    BY <1>1, FS_Interval
  <2>3. IsFiniteSet(E(i))
    BY <2>2, FS_Subset
  <2>4. QED
    BY <1>2, <2>3, FS_CardinalityType
<1>4. Ended(s, 0) = 0
  <2>1. E(0) = {}
    OBVIOUS
  <2>2. QED
    BY <1>2, <2>1, FS_EmptySet
<1>5. ASSUME NEW i \in 1 .. Len(s)
      PROVE  Ended(s, i) = IF s[i].last THEN Ended(s, i - 1) + 1 ELSE Ended(s, i - 1)
  <2>1. i - 1 \in 0 .. Len(s) /\ i \in Int
    BY <1>1, <1>5
  <2>2. CASE s[i].last
    <3>1. E(i) = E(i - 1) \cup {i} /\ i \notin E(i - 1)
      BY <2>1, <2>2
    <3>2. Cardinality(E(i - 1) \cup {i}) = Cardinality(E(i - 1)) + 1
      BY <1>3, <2>1, <3>1, FS_AddElement
    <3>3. QED
      BY <1>2, <2>2, <3>1, <3>2
  <2>3. CASE ~s[i].last
    <3>1. E(i) = E(i - 1)
      BY <2>1, <2>3
    <3>2. QED
      BY <1>2, <2>3, <3>1
  <2>4. QED
    BY <2>2, <2>3
<1>6. ASSUME NEW i \in 0 .. Len(s), NEW j \in 0 .. Len(s), i <= j
      PROVE  Ended(s, i) <= Ended(s, j)
  <2>1. E(i) \subseteq E(j) /\ IsFiniteSet(E(j))
    BY <1>1, <1>3, <1>6
  <2>2. Cardinality(E(i)) <= Cardinality(E(j))
    BY <2>1, FS_Subset
  <2>3. QED
    BY <1>2, <2>2
<1>7. QED
  BY <1>3, <1>4, <1>5, <1>6

\* The k-th end is one unit and no other.
LEMMA EndOfIs ==
  ASSUME NEW s \in Seq(Unit), NEW k \in 1 .. Ended(s, Len(s))
  PROVE  /\ EndOf(s, k) \in 1 .. Len(s)
         /\ s[EndOf(s, k)].last
         /\ Ended(s, EndOf(s, k)) = k
<1> DEFINE reach == {i \in 0 .. Len(s) : Ended(s, i) >= k}
<1>1. Len(s) \in Nat /\ DOMAIN s = 1 .. Len(s)
  BY LenProperties
<1>2. Len(s) \in reach /\ reach \subseteq Nat /\ reach # {}
  <2>1. Ended(s, Len(s)) \in Nat
    BY <1>1, EndedSteps
  <2>2. QED
    BY <1>1, <2>1
<1>3. PICK x \in reach : \A y \in reach : ~ (<<y, x>> \in Less)
  BY <1>2, LessWellFounded, WFMin, Zenon
<1>4. x \in 1 .. Len(s) /\ Ended(s, x) >= k
  <2>1. x \in 0 .. Len(s) /\ Ended(s, x) >= k
    BY <1>3
  <2>2. x # 0
    BY <2>1, EndedSteps
  <2>3. QED
    BY <2>1, <2>2
<1>5. x - 1 \notin reach
  <2>1. x - 1 \in Nat /\ x \in Nat /\ <<x - 1, x>> \in Less
    BY <1>1, <1>4 DEF Less
  <2>2. QED
    BY <1>3, <2>1
<1>6. x - 1 \in 0 .. Len(s)
  BY <1>1, <1>4
<1>7. Ended(s, x - 1) < k /\ Ended(s, x - 1) \in Nat /\ Ended(s, x) \in Nat
  <2>1. Ended(s, x - 1) \in Nat /\ Ended(s, x) \in Nat
    BY <1>4, <1>6, EndedSteps
  <2>2. QED
    BY <1>5, <1>6, <2>1
<1>8. s[x].last /\ Ended(s, x) = k
  <2>1. Ended(s, x) = IF s[x].last THEN Ended(s, x - 1) + 1 ELSE Ended(s, x - 1)
    BY <1>4, EndedSteps
  <2>2. QED
    BY <1>4, <1>7, <2>1
<1>9. \E i \in DOMAIN s : s[i].last /\ Ended(s, i) = k
  BY <1>1, <1>4, <1>8
<1>10. QED
  BY <1>1, <1>9, Zenon DEF EndOf

LEMMA EndOfOnly ==
  ASSUME NEW s \in Seq(Unit), NEW i \in 1 .. Len(s), s[i].last
  PROVE  /\ Ended(s, i) \in 1 .. Ended(s, Len(s))
         /\ EndOf(s, Ended(s, i)) = i
<1> DEFINE k == Ended(s, i)
           x == EndOf(s, k)
<1>1. Len(s) \in Nat
  BY LenProperties
<1>2. \A j \in 1 .. Len(s) : s[j].last => Ended(s, j) = Ended(s, j - 1) + 1
  BY EndedSteps
<1>3. i - 1 \in 0 .. Len(s) /\ i \in 0 .. Len(s) /\ Len(s) \in 0 .. Len(s)
  BY <1>1
<1>4. k \in 1 .. Ended(s, Len(s))
  <2>1. k = Ended(s, i - 1) + 1
    BY <1>2
  <2>2. Ended(s, i - 1) \in Nat /\ Ended(s, Len(s)) \in Nat /\ k <= Ended(s, Len(s))
    BY <1>1, <1>3, EndedSteps
  <2>3. QED
    BY <2>1, <2>2
<1> HIDE DEF k
<1>5. x \in 1 .. Len(s) /\ s[x].last /\ Ended(s, x) = k
  BY <1>4, EndOfIs
<1> HIDE DEF x
<1>6. ASSUME NEW j \in 1 .. Len(s), NEW l \in 1 .. Len(s), s[l].last, j < l
      PROVE  Ended(s, j) # Ended(s, l)
  <2>1. j \in 0 .. Len(s) /\ l - 1 \in 0 .. Len(s) /\ j <= l - 1
    BY <1>1, <1>6
  <2>2. Ended(s, j) <= Ended(s, l - 1) /\ Ended(s, l - 1) \in Nat /\ Ended(s, j) \in Nat
    BY <2>1, EndedSteps
  <2>3. Ended(s, l) = Ended(s, l - 1) + 1
    BY <1>2, <1>6
  <2>4. QED
    BY <2>2, <2>3
<1>7. ~(i < x) /\ ~(x < i)
  BY <1>5, <1>6 DEF k
<1>8. x = i
  BY <1>1, <1>5, <1>7
<1>9. QED
  BY <1>4, <1>8 DEF k, x

\* The ids of the messages that end, one for each end.
LEMMA WholesAre ==
  ASSUME NEW s \in Seq(Unit)
  PROVE  /\ Ended(s, Len(s)) \in Nat
         /\ Wholes(s) \in Seq(Nat)
         /\ Len(Wholes(s)) = Ended(s, Len(s))
         /\ \A i \in 1 .. Len(s) : s[i].last => Wholes(s)[Ended(s, i)] = s[i].id
<1> DEFINE n == Ended(s, Len(s))
<1>1. Len(s) \in Nat
  BY LenProperties
<1>2. n \in Nat
  BY <1>1, EndedSteps
<1>3. \A k \in 1 .. n : s[EndOf(s, k)].id \in Nat
  <2>1. SUFFICES ASSUME NEW k \in 1 .. n PROVE s[EndOf(s, k)].id \in Nat
    OBVIOUS
  <2>2. EndOf(s, k) \in 1 .. Len(s)
    BY EndOfIs
  <2>3. s[EndOf(s, k)] \in Unit
    BY <2>2, ElementOfSeq
  <2>4. QED
    BY <2>3 DEF Unit, Pin
<1>4. Wholes(s) = [k \in 1 .. n |-> s[EndOf(s, k)].id]
  BY DEF Wholes
<1> HIDE DEF n
<1>5. Wholes(s) \in Seq(Nat) /\ Len(Wholes(s)) = n
  BY <1>2, <1>3, <1>4
<1>6. ASSUME NEW i \in 1 .. Len(s), s[i].last
      PROVE  Wholes(s)[Ended(s, i)] = s[i].id
  <2>1. Ended(s, i) \in 1 .. n /\ EndOf(s, Ended(s, i)) = i
    BY <1>6, EndOfOnly DEF n
  <2>2. Wholes(s)[Ended(s, i)] = s[EndOf(s, Ended(s, i))].id
    BY <1>4, <2>1
  <2>3. QED
    BY <2>1, <2>2
<1>7. QED
  BY <1>2, <1>5, <1>6 DEF n

\* Of two streams in a row, the messages that end in the first, then the others.
LEMMA EndedCat ==
  ASSUME NEW s \in Seq(Unit), NEW t \in Seq(Unit)
  PROVE  /\ \A i \in 0 .. Len(s) : Ended(Cat(s, t), i) = Ended(s, i)
         /\ \A i \in 0 .. Len(t) :
               Ended(Cat(s, t), Len(s) + i) = Ended(s, Len(s)) + Ended(t, i)
<1> DEFINE r == Cat(s, t)
           bad1 == {i \in 0 .. Len(s) : Ended(r, i) # Ended(s, i)}
           bad2 == {i \in 0 .. Len(t) :
                       Ended(r, Len(s) + i) # Ended(s, Len(s)) + Ended(t, i)}
<1>1. /\ Len(s) \in Nat /\ Len(t) \in Nat /\ r \in Seq(Unit)
      /\ Len(r) = Len(s) + Len(t)
      /\ \A i \in 1 .. Len(s) + Len(t) : r[i] = IF i <= Len(s) THEN s[i] ELSE t[i - Len(s)]
  BY ConcatProperties, LenProperties DEF Cat
<1> HIDE DEF r
<1>2. /\ Ended(r, 0) = 0 /\ Ended(s, 0) = 0 /\ Ended(t, 0) = 0
      /\ \A i \in 0 .. Len(s) : Ended(s, i) \in Nat
      /\ \A i \in 0 .. Len(t) : Ended(t, i) \in Nat
      /\ \A i \in 0 .. Len(r) : Ended(r, i) \in Nat
  BY <1>1, EndedSteps
<1>3. \A i \in 1 .. Len(s) :
         Ended(s, i) = IF s[i].last THEN Ended(s, i - 1) + 1 ELSE Ended(s, i - 1)
  BY EndedSteps
<1>4. \A i \in 1 .. Len(t) :
         Ended(t, i) = IF t[i].last THEN Ended(t, i - 1) + 1 ELSE Ended(t, i - 1)
  BY EndedSteps
<1>5. \A i \in 1 .. Len(r) :
         Ended(r, i) = IF r[i].last THEN Ended(r, i - 1) + 1 ELSE Ended(r, i - 1)
  BY <1>1, EndedSteps
<1>6. bad1 = {}
  <2>1. SUFFICES ASSUME bad1 # {} PROVE FALSE
    OBVIOUS
  <2>2. bad1 \in SUBSET Nat
    BY <1>1
  <2> HIDE DEF bad1
  <2>3. PICK x \in bad1 : \A y \in bad1 : ~ (<<y, x>> \in Less)
    BY <2>1, <2>2, LessWellFounded, WFMin, Zenon
  <2>4. x \in 0 .. Len(s) /\ Ended(r, x) # Ended(s, x)
    BY <2>3 DEF bad1
  <2>5. x # 0
    BY <1>2, <2>4
  <2>6. x \in 1 .. Len(s) /\ x \in 1 .. Len(r) /\ x \in 1 .. Len(s) + Len(t)
    BY <1>1, <2>4, <2>5
  <2>7. x - 1 \in 0 .. Len(s) /\ <<x - 1, x>> \in Less
    BY <1>1, <2>6 DEF Less
  <2>8. Ended(r, x - 1) = Ended(s, x - 1)
    BY <2>3, <2>7 DEF bad1
  <2>9. r[x] = s[x]
    BY <1>1, <2>6
  <2>10. QED
    BY <1>3, <1>5, <2>4, <2>6, <2>8, <2>9
<1>7. Ended(r, Len(s)) = Ended(s, Len(s))
  <2>1. Len(s) \in 0 .. Len(s)
    BY <1>1
  <2>2. QED
    BY <1>6, <2>1
<1>8. bad2 = {}
  <2>1. SUFFICES ASSUME bad2 # {} PROVE FALSE
    OBVIOUS
  <2>2. bad2 \in SUBSET Nat
    BY <1>1
  <2> HIDE DEF bad2
  <2>3. PICK x \in bad2 : \A y \in bad2 : ~ (<<y, x>> \in Less)
    BY <2>1, <2>2, LessWellFounded, WFMin, Zenon
  <2>4. x \in 0 .. Len(t) /\ Ended(r, Len(s) + x) # Ended(s, Len(s)) + Ended(t, x)
    BY <2>3 DEF bad2
  <2>5. x # 0
    <3>1. Len(s) + 0 = Len(s) /\ Len(s) \in 0 .. Len(s)
      BY <1>1
    <3>2. Ended(s, Len(s)) \in Nat
      BY <1>2, <3>1
    <3>3. QED
      BY <1>2, <1>7, <2>4, <3>1, <3>2
  <2>6. /\ x \in 1 .. Len(t) /\ Len(s) + x \in 1 .. Len(r)
        /\ Len(s) + x \in 1 .. Len(s) + Len(t)
        /\ (Len(s) + x) - 1 = Len(s) + (x - 1)
        /\ ~(Len(s) + x <= Len(s)) /\ (Len(s) + x) - Len(s) = x
    BY <1>1, <2>4, <2>5
  <2>7. x - 1 \in 0 .. Len(t) /\ <<x - 1, x>> \in Less
    BY <1>1, <2>6 DEF Less
  <2>8. Ended(r, Len(s) + (x - 1)) = Ended(s, Len(s)) + Ended(t, x - 1)
    BY <2>3, <2>7 DEF bad2
  <2>9. r[Len(s) + x] = t[x]
    BY <1>1, <2>6
  <2>10. Ended(s, Len(s)) \in Nat /\ Ended(t, x - 1) \in Nat
    <3>1. Len(s) \in 0 .. Len(s)
      BY <1>1
    <3>2. QED
      BY <1>2, <2>7, <3>1
  <2>11. Ended(r, Len(s) + x) = IF t[x].last THEN Ended(r, Len(s) + (x - 1)) + 1
                                ELSE Ended(r, Len(s) + (x - 1))
    BY <1>5, <2>6, <2>9
  <2>12. Ended(t, x) = IF t[x].last THEN Ended(t, x - 1) + 1 ELSE Ended(t, x - 1)
    BY <1>4, <2>6
  <2>13. QED
    BY <2>4, <2>8, <2>10, <2>11, <2>12
<1>9. QED
  BY <1>6, <1>8 DEF r

LEMMA WholesCat ==
  ASSUME NEW s \in Seq(Unit), NEW t \in Seq(Unit)
  PROVE  Wholes(Cat(s, t)) = Wholes(s) \o Wholes(t)
<1> DEFINE r == Cat(s, t)
           ws == Wholes(s)
           wt == Wholes(t)
           wr == Wholes(r)
<1>1. /\ Len(s) \in Nat /\ Len(t) \in Nat /\ r \in Seq(Unit)
      /\ Len(r) = Len(s) + Len(t)
      /\ \A i \in 1 .. Len(s) + Len(t) : r[i] = IF i <= Len(s) THEN s[i] ELSE t[i - Len(s)]
  BY ConcatProperties, LenProperties DEF Cat
<1>2. /\ \A i \in 0 .. Len(s) : Ended(r, i) = Ended(s, i)
      /\ \A i \in 0 .. Len(t) : Ended(r, Len(s) + i) = Ended(s, Len(s)) + Ended(t, i)
  BY EndedCat
<1> HIDE DEF r
<1>3. /\ ws \in Seq(Nat) /\ Len(ws) = Ended(s, Len(s)) /\ Len(ws) \in Nat
      /\ \A i \in 1 .. Len(s) : s[i].last => ws[Ended(s, i)] = s[i].id
  BY WholesAre
<1>4. /\ wt \in Seq(Nat) /\ Len(wt) = Ended(t, Len(t)) /\ Len(wt) \in Nat
      /\ \A i \in 1 .. Len(t) : t[i].last => wt[Ended(t, i)] = t[i].id
  BY WholesAre
<1>5. /\ wr \in Seq(Nat) /\ Len(wr) = Ended(r, Len(r))
      /\ \A i \in 1 .. Len(r) : r[i].last => wr[Ended(r, i)] = r[i].id
  BY <1>1, WholesAre
<1> HIDE DEF ws, wt, wr
<1>6. Len(wr) = Len(ws) + Len(wt)
  <2>1. Len(t) \in 0 .. Len(t)
    BY <1>1
  <2>2. QED
    BY <1>1, <1>2, <1>3, <1>4, <1>5, <2>1
<1>7. /\ ws \o wt \in Seq(Nat) /\ Len(ws \o wt) = Len(ws) + Len(wt)
      /\ \A k \in 1 .. Len(ws) + Len(wt) :
            (ws \o wt)[k] = IF k <= Len(ws) THEN ws[k] ELSE wt[k - Len(ws)]
  BY <1>3, <1>4, ConcatProperties
<1>8. ASSUME NEW k \in 1 .. Len(wr) PROVE wr[k] = (ws \o wt)[k]
  <2>1. CASE k <= Len(ws)
    <3>1. k \in 1 .. Ended(s, Len(s)) /\ k \in 1 .. Len(ws) + Len(wt)
      BY <1>3, <1>4, <1>6, <2>1
    <3>2. PICK i \in 1 .. Len(s) : s[i].last /\ Ended(s, i) = k
      BY <3>1, EndOfIs
    <3>3. i \in 1 .. Len(r) /\ i \in 0 .. Len(s) /\ i \in 1 .. Len(s) + Len(t) /\ i <= Len(s)
      BY <1>1, <3>2
    <3>4. r[i] = s[i] /\ Ended(r, i) = k
      BY <1>1, <1>2, <3>2, <3>3
    <3>5. wr[k] = s[i].id
      BY <1>5, <3>2, <3>3, <3>4
    <3>6. ws[k] = s[i].id
      BY <1>3, <3>2
    <3>7. QED
      BY <1>7, <2>1, <3>1, <3>5, <3>6
  <2>2. CASE ~(k <= Len(ws))
    <3>1. /\ k - Len(ws) \in 1 .. Ended(t, Len(t)) /\ k \in 1 .. Len(ws) + Len(wt)
          /\ k \in Int
      BY <1>3, <1>4, <1>6, <2>2
    <3>2. PICK i \in 1 .. Len(t) : t[i].last /\ Ended(t, i) = k - Len(ws)
      BY <3>1, EndOfIs
    <3>3. /\ Len(s) + i \in 1 .. Len(r) /\ i \in 0 .. Len(t)
          /\ Len(s) + i \in 1 .. Len(s) + Len(t)
          /\ ~(Len(s) + i <= Len(s)) /\ (Len(s) + i) - Len(s) = i
      BY <1>1, <3>2
    <3>4. r[Len(s) + i] = t[i]
      BY <1>1, <3>3
    <3>5. Ended(r, Len(s) + i) = k
      <4>1. Ended(r, Len(s) + i) = Len(ws) + (k - Len(ws))
        BY <1>2, <1>3, <3>2, <3>3
      <4>2. QED
        BY <1>3, <3>1, <4>1
    <3>6. wr[k] = t[i].id
      BY <1>5, <3>2, <3>3, <3>4, <3>5
    <3>7. wt[k - Len(ws)] = t[i].id
      BY <1>4, <3>2
    <3>8. QED
      BY <1>7, <2>2, <3>1, <3>6, <3>7
  <2>3. QED
    BY <2>1, <2>2
<1>9. wr = ws \o wt
  BY <1>5, <1>6, <1>7, <1>8, SeqEqual
<1>10. QED
  BY <1>9 DEF r, ws, wt, wr

\* One message, or what is missing in front of its end: only the last is marked.
LEMMA WholesOne ==
  ASSUME NEW s \in Seq(Unit), Len(s) # 0, s[Len(s)].last,
         \A i \in 1 .. Len(s) - 1 : ~s[i].last
  PROVE  Wholes(s) = <<s[Len(s)].id>>
<1> DEFINE n == Len(s)
           some == {i \in 0 .. n - 1 : Ended(s, i) # 0}
<1>1. n \in Nat /\ n \in 1 .. n /\ n - 1 \in 0 .. n - 1
  BY LenProperties
<1>2. /\ Ended(s, 0) = 0
      /\ \A i \in 1 .. n :
            Ended(s, i) = IF s[i].last THEN Ended(s, i - 1) + 1 ELSE Ended(s, i - 1)
  BY EndedSteps
<1> HIDE DEF n
<1>3. some = {}
  <2>1. SUFFICES ASSUME some # {} PROVE FALSE
    OBVIOUS
  <2>2. some \in SUBSET Nat
    BY <1>1
  <2> HIDE DEF some
  <2>3. PICK x \in some : \A y \in some : ~ (<<y, x>> \in Less)
    BY <2>1, <2>2, LessWellFounded, WFMin, Zenon
  <2>4. x \in 0 .. n - 1 /\ Ended(s, x) # 0
    BY <2>3 DEF some
  <2>5. x # 0
    BY <1>2, <2>4
  <2>6. x - 1 \in 0 .. n - 1 /\ x \in 1 .. n /\ x \in 1 .. n - 1 /\ <<x - 1, x>> \in Less
    BY <1>1, <2>4, <2>5 DEF Less
  <2>7. Ended(s, x - 1) = 0
    BY <2>3, <2>6 DEF some
  <2>8. ~s[x].last
    BY <2>6 DEF n
  <2>9. QED
    BY <1>2, <2>4, <2>6, <2>7, <2>8
<1>4. Ended(s, n - 1) = 0
  BY <1>1, <1>3
<1>5. Ended(s, n) = 1
  BY <1>1, <1>2, <1>4 DEF n
<1>6. /\ Wholes(s) \in Seq(Nat) /\ Len(Wholes(s)) = 1
      /\ Wholes(s)[1] = s[n].id
  BY <1>1, <1>5, WholesAre DEF n
<1> DEFINE w == Wholes(s)
           x == s[n].id
<1> HIDE DEF w, x
<1>7. w \in Seq(Nat) /\ Len(w) = 1 /\ w[1] = x
  BY <1>6 DEF w, x
<1>8. x \in Nat
  <2>1. 1 \in 1 .. Len(w)
    BY <1>7
  <2>2. w[1] \in Nat
    BY <1>7, <2>1, ElementOfSeq
  <2>3. QED
    BY <1>7, <2>2
<1>9. <<x>> \in Seq(Nat) /\ Len(<<x>>) = 1 /\ <<x>>[1] = x
  BY <1>8
<1>10. w = <<x>>
  BY <1>7, <1>9, SeqEqual
<1>11. QED
  BY <1>10 DEF n, w, x

LEMMA WholesNone == Wholes(<<>>) = <<>>
<1>1. <<>> \in Seq(Unit) /\ Len(<<>>) = 0
  BY EmptySeq
<1>2. Ended(<<>>, 0) = 0
  BY <1>1, EndedSteps
<1>3. Wholes(<<>>) \in Seq(Nat) /\ Len(Wholes(<<>>)) = 0
  BY <1>1, <1>2, WholesAre
<1>4. QED
  BY <1>3, EmptySeq

-----------------------------------------------------------------------------
(* Every step.                                                             *)

LEMMA WireInvInit == Init => WireInv
<1>1. SUFFICES ASSUME Init PROVE WireInv
  OBVIOUS
<1>2. <<>> \in Seq(Unit) /\ Len(<<>>) = 0
  BY EmptySeq
<1>3. inbuf = [e \in End |-> <<>>] /\ outbuf = [e \in End |-> <<>>] /\ pipe = [e \in End |-> <<>>]
  BY <1>1 DEF Init
<1>4. Typed
  BY <1>1, <1>2, <1>3, WireAssumption DEF Init, Typed
<1>5. ASSUME NEW e \in End PROVE Marked(Stream(e))
  <2>1. Stream(e) = (<<>> \o <<>>) \o <<>>
    BY <1>3, PeerFacts DEF Stream
  <2>2. Stream(e) = <<>>
    BY <2>1, <1>2, ConcatEmptySeq
  <2>3. QED
    BY <1>2, <2>2 DEF Marked
<1>6. IdleHasNone
  BY <1>2, <1>3 DEF IdleHasNone, NoLast
<1>7. QED
  BY <1>4, <1>5, <1>6 DEF WireInv, StreamsMarked

\* The end that dies has nothing any more; what it has sent may be cut off.
LEMMA DieKeeps ==
  ASSUME WireInv, NEW e \in End, Die(e), crashes' \in Nat
  PROVE  WireInv'
<1> USE DEF WireInv
<1>1. <<>> \in Seq(Unit) /\ Len(<<>>) = 0
  BY EmptySeq
<1>2. PICK left \in 0 .. Len(pipe[Peer(e)]) :
         pipe' = [pipe EXCEPT ![e] = <<>>, ![Peer(e)] = SubSeq(@, 1, left)]
  BY DEF Die
<1>3. pipe[Peer(e)] \in Seq(Unit) /\ Len(pipe[Peer(e)]) <= Room
  BY PeerFacts DEF Typed
<1>4. SubSeq(pipe[Peer(e)], 1, left) \in Seq(Unit) /\ Len(SubSeq(pipe[Peer(e)], 1, left)) <= Room
  BY <1>3, PartOf, LenProperties, WireAssumption
<1>5. pipe' \in [End -> Seq(Unit)] /\ \A d \in End : Len(pipe'[d]) <= Room
  <2>1. Len(<<>>) <= Room
    BY <1>1, WireAssumption
  <2>2. /\ pipe'[e] = <<>>
        /\ pipe'[Peer(e)] = SubSeq(pipe[Peer(e)], 1, left)
        /\ pipe' = [d \in End |-> pipe'[d]]
    BY <1>2, PeerFacts DEF Typed
  <2>3. \A d \in End : d = e \/ d = Peer(e)
    BY PeerFacts
  <2>4. \A d \in End : pipe'[d] \in Seq(Unit) /\ Len(pipe'[d]) <= Room
    BY <1>1, <1>4, <2>1, <2>2, <2>3
  <2>5. QED
    BY <2>2, <2>4
<1>6. Typed'
  BY <1>1, <1>5 DEF Typed, Die
<1>7. StreamsMarked'
  <2>1. pc'[e] = "dead"
    BY DEF Die, Typed
  <2>2. \A d \in End : d = e \/ Peer(d) = e
    BY PeerFacts
  <2>3. QED
    BY <2>1, <2>2 DEF StreamsMarked, Alive
<1>8. IdleHasNone'
  BY <1>1 DEF IdleHasNone, NoLast, Die, Typed
<1>9. QED
  BY <1>6, <1>7, <1>8

\* As much as is sent at once fits in the socket.
LEMMA SendableFits ==
  ASSUME Typed, NEW e \in End, NEW units \in Seq(Unit)
  PROVE  /\ Sendable(e, units) \in 0 .. Len(units)
         /\ Len(pipe[Peer(e)]) + Sendable(e, units) <= Room
<1>1. Len(units) \in Nat /\ Len(pipe[Peer(e)]) \in Nat /\ Len(pipe[Peer(e)]) <= Room
  BY PeerFacts, LenProperties DEF Typed
<1>2. QED
  <2>1. CASE Alive(Peer(e))
    <3>1. Sendable(e, units) = Least(Len(units), Room - Len(pipe[Peer(e)]))
      BY <2>1 DEF Sendable
    <3>2. Room - Len(pipe[Peer(e)]) \in Nat
      BY <1>1, WireAssumption
    <3>3. \A x, y \in Nat : Least(x, y) \in Nat /\ Least(x, y) <= x /\ Least(x, y) <= y
      BY DEF Least
    <3>4. /\ Sendable(e, units) \in Nat
          /\ Sendable(e, units) <= Len(units)
          /\ Sendable(e, units) <= Room - Len(pipe[Peer(e)])
      BY <1>1, <3>1, <3>2, <3>3, Zenon
    <3> HIDE DEF Sendable
    <3>5. QED
      BY <1>1, <3>4, WireAssumption
  <2>2. CASE ~Alive(Peer(e))
    BY <1>1, <2>2, WireAssumption DEF Sendable
  <2>3. QED
    BY <2>1, <2>2

\* What is written joins what is on its way.
LEMMA IntoFits ==
  ASSUME Typed, NEW e \in End, NEW units \in Seq(Unit), NEW n \in 0 .. Len(units),
         Len(pipe[Peer(e)]) + n <= Room, pipe' = Into(e, units, n)
  PROVE  /\ pipe' \in [End -> Seq(Unit)]
         /\ \A d \in End : Len(pipe'[d]) <= Room
         /\ pipe'[Peer(e)] = pipe[Peer(e)] \o SubSeq(units, 1, n)
         /\ pipe'[e] = pipe[e]
<1>1. SubSeq(units, 1, n) \in Seq(Unit) /\ Len(SubSeq(units, 1, n)) = n
  BY PartOf
<1>2. pipe[Peer(e)] \in Seq(Unit) /\ Peer(e) \in End /\ Peer(e) # e
  BY PeerFacts DEF Typed
<1>3. /\ pipe[Peer(e)] \o SubSeq(units, 1, n) \in Seq(Unit)
      /\ Len(pipe[Peer(e)] \o SubSeq(units, 1, n)) = Len(pipe[Peer(e)]) + n
  BY <1>1, <1>2, ConcatProperties, ZenonT(30)
<1>4. pipe' = [pipe EXCEPT ![Peer(e)] = pipe[Peer(e)] \o SubSeq(units, 1, n)]
  BY DEF Into
<1>5. QED
  BY <1>2, <1>3, <1>4 DEF Typed

\* A message joins the stream to the other end, at once, later or in part.
LEMMA SendCmdKeeps ==
  ASSUME WireInv, NEW e \in End, NEW m \in Nat,
         m # Pin => m \in 1 .. Len(Size[e]) /\ ~TooLong(e, m),
         SendCmd(e, m), UNCHANGED <<pc, inbuf, crashes>>, made' \in [End -> Nat]
  PROVE  WireInv' /\ Joins(e, m)
<1> DEFINE u   == Units(e, m)
           now == IF outbuf[e] = <<>> THEN Sendable(e, u) ELSE 0
           p   == Peer(e)
<1>1. u \in Seq(Unit) /\ Marked(u)
  BY UnitsMarked
<1>2. p \in End /\ p # e /\ Peer(p) = e
  BY PeerFacts
<1>3. now \in 0 .. Len(u) /\ Len(pipe[p]) + now <= Room
  <2>1. Len(u) \in Nat /\ Len(pipe[p]) \in Nat /\ Len(pipe[p]) <= Room
    BY <1>1, <1>2, LenProperties DEF WireInv, Typed
  <2>2. QED
    BY <1>1, <2>1, SendableFits DEF WireInv
<1>4. /\ pipe' = Into(e, u, now)
      /\ outbuf' = [outbuf EXCEPT ![e] = @ \o SubSeq(u, now + 1, Len(u))]
  BY DEF SendCmd
<1>5. outbuf[e] # <<>> => now = 0
  OBVIOUS
<1> HIDE DEF u, now, p
<1>6. /\ pipe' \in [End -> Seq(Unit)]
      /\ \A d \in End : Len(pipe'[d]) <= Room
      /\ pipe'[p] = pipe[p] \o SubSeq(u, 1, now)
      /\ pipe'[e] = pipe[e]
  BY <1>1, <1>3, <1>4, IntoFits DEF WireInv, p
<1>7. /\ inbuf[p] \in Seq(Unit) /\ pipe[p] \in Seq(Unit) /\ outbuf[e] \in Seq(Unit)
      /\ SubSeq(u, 1, now) \in Seq(Unit) /\ SubSeq(u, now + 1, Len(u)) \in Seq(Unit)
  BY <1>1, <1>2, <1>3, PartOf DEF WireInv, Typed
<1>8. outbuf' \in [End -> Seq(Unit)]
  BY <1>4, <1>7, ConcatProperties DEF WireInv, Typed
<1>9. Typed'
  BY <1>6, <1>8 DEF WireInv, Typed
<1>10. Stream(p)' = Stream(p) \o u
  <2> DEFINE a == SubSeq(u, 1, now)
             b == SubSeq(u, now + 1, Len(u))
  <2>1. a \o b = u
    BY <1>1, <1>3, PartsMeet
  <2>2. outbuf[e] = <<>> \/ (a = <<>> /\ b = u)
    <3>1. now = 0 => a = <<>>
      BY <1>1, <1>3, SubSeqEmpty
    <3>2. a = <<>> => b = u
      BY <1>7, <2>1, ConcatEmptySeq
    <3>3. QED
      BY <1>5, <3>1, <3>2
  <2>3. Stream(p)' = Cat(Cat(inbuf[p], Cat(pipe[p], a)), Cat(outbuf[e], b))
    BY <1>2, <1>4, <1>6, <1>7 DEF Stream, WireInv, Typed, Cat
  <2>4. Stream(p) = Cat(Cat(inbuf[p], pipe[p]), outbuf[e])
    BY <1>2 DEF Stream, Cat
  <2>5. Cat(a, b) = u
    BY <2>1 DEF Cat
  <2>6. a \in Seq(Unit) /\ b \in Seq(Unit)
    BY <1>7
  <2> HIDE DEF a, b
  <2>7. Cat(Cat(inbuf[p], Cat(pipe[p], a)), Cat(outbuf[e], b))
           = Cat(Cat(Cat(inbuf[p], pipe[p]), outbuf[e]), u)
    BY <1>1, <1>7, <2>2, <2>5, <2>6, CatBetween, SMTT(30)
  <2>8. QED
    BY <2>3, <2>4, <2>7 DEF Cat
<1>11. Stream(e)' = Stream(e)
  BY <1>2, <1>4, <1>6, PeerFacts DEF Stream, WireInv, Typed, p
<1>12. Stream(p) \in Seq(Unit)
  BY <1>2, <1>7, ConcatProperties DEF Stream
<1>13. StreamsMarked'
  <2>1. ASSUME Alive(e), Alive(p) PROVE Marked(Stream(p)') /\ Marked(Stream(e)')
    <3>1. Marked(Stream(p)) /\ Marked(Stream(e))
      BY <1>2, <2>1 DEF WireInv, StreamsMarked, p
    <3>2. QED
      BY <1>1, <1>10, <1>11, <1>12, <3>1, MarkedBoth
  <2>2. \A d \in End : d = e \/ d = p
    BY PeerFacts DEF p
  <2>3. \A d \in End : Alive(d)' = Alive(d)
    BY DEF Alive
  <2>4. QED
    BY <1>2, <2>1, <2>2, <2>3, PeerFacts DEF StreamsMarked, p, Marked
<1>14. IdleHasNone'
  BY DEF WireInv, IdleHasNone
<1>15. Joins(e, m)
  <2>1. \A d \in End : Alive(d)' = Alive(d)
    BY DEF Alive
  <2>2. Stream(p)' = Cat(Stream(p), u) /\ OneMessage(u) /\ u[Len(u)].id = m
    BY <1>10, UnitsMarked DEF u, Cat
  <2>3. QED
    BY <1>11, <2>1, <2>2 DEF Joins, p
<1>16. QED
  BY <1>9, <1>13, <1>14, <1>15 DEF WireInv

\* What Alive and the streams are read from.
LEMMA SameStreams ==
  ASSUME WireInv, \A e \in End : Alive(e)' => Alive(e),
         \A e \in End : Alive(e) /\ Alive(Peer(e)) => Marked(Stream(e)')
  PROVE  StreamsMarked'
BY PeerFacts DEF StreamsMarked, WireInv, Marked

LEMMA SendKeeps ==
  ASSUME WireInv, NEW e \in End, Send(e)
  PROVE  WireInv' /\ (SameStream \/ \E m \in Content : Joins(e, m))
<1>1. made[e] \in Nat /\ made[e] < Len(Size[e]) /\ made' \in [End -> Nat]
  <2>1. Size[e] \in Seq(Nat \ {0})
    BY WireAssumption DEF End
  <2>2. QED
    BY <2>1, LenProperties DEF Send, WireInv, Typed
<1>2. CASE TooLong(e, made[e] + 1)
  <2>1. UNCHANGED <<pc, inbuf, outbuf, pipe, crashes>>
    BY <1>2 DEF Send
  <2>2. Typed' /\ IdleHasNone'
    BY <1>1, <2>1 DEF WireInv, Typed, IdleHasNone
  <2>3. \A d \in End : Stream(d)' = Stream(d) /\ Alive(d)' = Alive(d)
    BY <2>1 DEF Stream, Alive
  <2>4. StreamsMarked'
    BY <2>3, SameStreams DEF WireInv, StreamsMarked
  <2>5. QED
    BY <2>2, <2>3, <2>4 DEF WireInv, SameStream
<1>3. CASE ~TooLong(e, made[e] + 1)
  <2>1. SendCmd(e, made[e] + 1) /\ UNCHANGED <<pc, inbuf, crashes>>
    BY <1>3 DEF Send
  <2>2. made[e] + 1 \in 1 .. Len(Size[e]) /\ made[e] + 1 \in Nat
    <3>1. Size[e] \in Seq(Nat \ {0})
      BY WireAssumption DEF End
    <3>2. Len(Size[e]) \in Nat
      BY <3>1, LenProperties
    <3>3. QED
      BY <1>1, <3>2
  <2>3. WireInv' /\ Joins(e, made[e] + 1)
    BY <1>1, <1>3, <2>1, <2>2, SendCmdKeeps
  <2>4. made[e] + 1 \in Content
    BY <2>2 DEF Content, End
  <2>5. QED
    BY <2>3, <2>4
<1>4. QED
  BY <1>2, <1>3

LEMMA PingKeeps ==
  ASSUME WireInv, NEW e \in End, Ping(e)
  PROVE  WireInv' /\ \E m \in Content : Joins(e, m)
<1>1. SendCmd(e, Pin) /\ UNCHANGED <<pc, inbuf, crashes>> /\ made' \in [End -> Nat]
  BY DEF Ping, WireInv, Typed
<1>2. Pin \in Nat /\ Pin \in Content
  BY DEF Pin, Content
<1>3. QED
  BY <1>1, <1>2, SendCmdKeeps

\* recv(): the stream is the same, a little more of it in inbuf.
LEMMA ReadKeeps ==
  ASSUME WireInv, NEW e \in End, NEW n \in 0 .. Len(pipe[e]),
         inbuf' = [inbuf EXCEPT ![e] = @ \o SubSeq(pipe[e], 1, n)],
         pipe' = [pipe EXCEPT ![e] = SubSeq(@, n + 1, Len(@))],
         pc' = [pc EXCEPT ![e] = "read"], pc[e] = "idle",
         UNCHANGED <<outbuf, made, crashes>>
  PROVE  WireInv' /\ SameStream
<1> DEFINE a == SubSeq(pipe[e], 1, n)
           b == SubSeq(pipe[e], n + 1, Len(pipe[e]))
           p == Peer(e)
<1>1. /\ inbuf[e] \in Seq(Unit) /\ pipe[e] \in Seq(Unit) /\ outbuf[p] \in Seq(Unit)
      /\ p \in End /\ p # e /\ Peer(p) = e
  BY PeerFacts DEF WireInv, Typed
<1>2. a \in Seq(Unit) /\ b \in Seq(Unit) /\ Len(b) = Len(pipe[e]) - n
  BY <1>1, PartOf
<1>3. Cat(a, b) = pipe[e]
  BY <1>1, PartsMeet DEF Cat
<1>4. /\ inbuf' = [inbuf EXCEPT ![e] = inbuf[e] \o a]
      /\ pipe' = [pipe EXCEPT ![e] = b]
  OBVIOUS
<1> HIDE DEF a, b, p
<1>5. Len(b) <= Room
  BY <1>1, <1>2, LenProperties, WireAssumption DEF WireInv, Typed
<1>6. inbuf[e] \o a \in Seq(Unit)
  BY <1>1, <1>2, ConcatProperties
<1>7. Typed'
  <2>1. /\ inbuf \in [End -> Seq(Unit)] /\ pipe \in [End -> Seq(Unit)]
        /\ \A d \in End : Len(pipe[d]) <= Room
        /\ pc \in [End -> {"idle", "read", "handled", "dead"}]
        /\ outbuf \in [End -> Seq(Unit)] /\ made \in [End -> Nat] /\ crashes \in Nat
    BY DEF WireInv, Typed
  <2>2. inbuf' \in [End -> Seq(Unit)]
    BY <1>4, <1>6, <2>1
  <2>3. pipe' \in [End -> Seq(Unit)] /\ \A d \in End : Len(pipe'[d]) <= Room
    BY <1>2, <1>4, <1>5, <2>1
  <2>4. pc' \in [End -> {"idle", "read", "handled", "dead"}]
    BY <2>1
  <2>5. QED
    BY <2>1, <2>2, <2>3, <2>4 DEF Typed
<1>8. inbuf'[e] = inbuf[e] \o a /\ pipe'[e] = b /\ inbuf'[p] = inbuf[p] /\ pipe'[p] = pipe[p]
  BY <1>1, <1>4 DEF WireInv, Typed
<1>9. Stream(e)' = Stream(e)
  <2>1. Stream(e)' = Cat(Cat(Cat(inbuf[e], a), b), outbuf[p])
    BY <1>8 DEF Stream, Cat, p
  <2>2. Cat(Cat(inbuf[e], a), b) = Cat(inbuf[e], pipe[e])
    BY <1>1, <1>2, <1>3, CatGroups
  <2>3. QED
    BY <2>1, <2>2 DEF Stream, Cat, p
<1>10. Stream(p)' = Stream(p)
  BY <1>1, <1>8 DEF Stream
<1>11. \A d \in End : d = e \/ d = p
  BY PeerFacts DEF p
<1>12. \A d \in End : Alive(d)' = Alive(d)
  BY DEF Alive, WireInv, Typed
<1>13. StreamsMarked'
  BY <1>9, <1>10, <1>11, <1>12, SameStreams DEF WireInv, StreamsMarked
<1>14. IdleHasNone'
  BY <1>1, <1>8, <1>11 DEF WireInv, IdleHasNone, Typed, NoLast
<1>15. SameStream
  BY <1>9, <1>10, <1>11, <1>12 DEF SameStream
<1>16. QED
  BY <1>7, <1>13, <1>14, <1>15 DEF WireInv

\* An end that has read nothing.
LEMMA LookKeeps ==
  ASSUME WireInv, NEW e \in End, pc' = [pc EXCEPT ![e] = "read"], pc[e] = "idle",
         UNCHANGED <<inbuf, outbuf, pipe, made, crashes>>
  PROVE  WireInv' /\ SameStream
<1>1. Typed' /\ IdleHasNone'
  BY DEF WireInv, Typed, IdleHasNone, NoLast
<1>2. \A d \in End : Stream(d)' = Stream(d)
  BY DEF Stream
<1>3. \A d \in End : Alive(d)' = Alive(d)
  BY DEF Alive, WireInv, Typed
<1>4. StreamsMarked'
  BY <1>2, <1>3, SameStreams DEF WireInv, StreamsMarked
<1>5. QED
  BY <1>1, <1>2, <1>3, <1>4 DEF WireInv, SameStream

LEMMA NoticeKeeps ==
  ASSUME WireInv, NEW e \in End, Notice(e)
  PROVE  WireInv' /\ (SameStream \/ (Alive(e) /\ Die(e)))
<1>0. pc[e] = "idle" /\ crashes' = crashes
  BY DEF Notice
<1>1. CASE "R" \notin Passed(e)
  BY <1>0, <1>1, LookKeeps DEF Notice
<1>2. CASE "R" \in Passed(e) /\ (Len(inbuf[e]) = InSize \/ pipe[e] = <<>>)
  <2>1. Die(e) /\ Alive(e)
    BY <1>0, <1>2 DEF Notice, Alive
  <2>2. QED
    BY <1>0, <2>1, DieKeeps DEF WireInv, Typed
<1>3. CASE "R" \in Passed(e) /\ ~(Len(inbuf[e]) = InSize \/ pipe[e] = <<>>)
  <2>1. PICK n \in 1 .. Least(InSize - Len(inbuf[e]), Len(pipe[e])) :
           /\ inbuf' = [inbuf EXCEPT ![e] = @ \o SubSeq(pipe[e], 1, n)]
           /\ pipe'  = [pipe  EXCEPT ![e] = SubSeq(@, n + 1, Len(@))]
    BY <1>3 DEF Notice
  <2>2. Len(inbuf[e]) \in Nat /\ Len(pipe[e]) \in Nat
    BY LenProperties DEF WireInv, Typed
  <2>3. n \in 0 .. Len(pipe[e])
    BY <2>2, WireAssumption DEF Least
  <2>4. pc' = [pc EXCEPT ![e] = "read"] /\ UNCHANGED <<outbuf, made, crashes>>
    BY <1>0, <1>3 DEF Notice
  <2>5. QED
    BY <1>0, <2>1, <2>3, <2>4, ReadKeeps
<1>4. QED
  BY <1>1, <1>2, <1>3

\* handleMsg: the stream loses the message at its start.
LEMMA TakeKeeps ==
  ASSUME WireInv, NEW e \in End, Take(e)
  PROVE  WireInv' /\ Leaves(e) /\ Alive(e)
<1> DEFINE k == Whole(inbuf[e])
           p == Peer(e)
           a == SubSeq(inbuf[e], 1, k)
           b == SubSeq(inbuf[e], k + 1, Len(inbuf[e]))
           r == Cat(pipe[e], outbuf[p])
<1>1. /\ inbuf[e] \in Seq(Unit) /\ pipe[e] \in Seq(Unit) /\ outbuf[p] \in Seq(Unit)
      /\ p \in End /\ p # e /\ Peer(p) = e
  BY PeerFacts DEF WireInv, Typed
<1>2. k \in 0 .. Len(inbuf[e])
  BY <1>1, WholeOf, LenProperties DEF Take
<1>3. inbuf' = [inbuf EXCEPT ![e] = b] /\ pc' = [pc EXCEPT ![e] = "handled"]
      /\ pc[e] # "dead" /\ UNCHANGED <<outbuf, pipe, made, crashes>>
  BY DEF Take
<1> HIDE DEF k, p
<1>4. a \in Seq(Unit) /\ b \in Seq(Unit) /\ Len(a) = k
  BY <1>1, <1>2, PartOf
<1>5. Cat(a, b) = inbuf[e]
  BY <1>1, <1>2, PartsMeet DEF Cat
<1> HIDE DEF a, b
<1>6. r \in Seq(Unit)
  BY <1>1, CatFacts
<1>7. Typed'
  BY <1>3, <1>4 DEF WireInv, Typed
<1>8. inbuf'[e] = b /\ inbuf'[p] = inbuf[p]
  BY <1>1, <1>3 DEF WireInv, Typed
<1>9. Stream(e) = Cat(a, Stream(e)') /\ Stream(e)' \in Seq(Unit)
  <2>1. Stream(e) = Cat(inbuf[e], r)
    <3>1. Stream(e) = Cat(Cat(inbuf[e], pipe[e]), outbuf[p])
      BY DEF Stream, Cat, p
    <3>2. QED
      BY <1>1, <3>1, CatGroups
  <2>2. Stream(e)' = Cat(b, r)
    <3>1. Stream(e)' = Cat(Cat(b, pipe[e]), outbuf[p])
      BY <1>3, <1>8 DEF Stream, Cat, p
    <3>2. QED
      BY <1>1, <1>4, <3>1, CatGroups
  <2> HIDE DEF r
  <2>3. Cat(Cat(a, b), r) = Cat(a, Cat(b, r))
    BY <1>4, <1>6, CatGroups
  <2>4. Cat(b, r) \in Seq(Unit)
    BY <1>4, <1>6, CatFacts
  <2>5. QED
    BY <1>5, <2>1, <2>2, <2>3, <2>4
<1>10. Marked(Stream(e)) => Marked(Stream(e)')
  <2> DEFINE t == Stream(e)'
  <2> HIDE DEF t, r
  <2>1. t \in Seq(Unit) /\ Stream(e) = a \o t
    BY <1>9 DEF Cat, t
  <2> HIDE DEF Stream
  <2>2. /\ Len(a) \in Nat /\ Len(t) \in Nat /\ Len(a \o t) = Len(a) + Len(t)
        /\ a \o t \in Seq(Unit)
        /\ \A i \in 1 .. Len(a) + Len(t) : (a \o t)[i] = IF i <= Len(a) THEN a[i] ELSE t[i - Len(a)]
    BY <1>4, <2>1, ConcatProperties, LenProperties
  <2>3. ASSUME Marked(a \o t), NEW i \in 1 .. Len(t)
        PROVE  \E j \in i .. Len(t) : j - i < Limit - 1 /\ t[j].last
    <3>1. i + Len(a) \in 1 .. Len(a \o t)
      BY <2>2
    <3>2. PICK j \in i + Len(a) .. Len(a \o t) :
             j - (i + Len(a)) < Limit - 1 /\ (a \o t)[j].last
      BY <2>3, <3>1 DEF Marked
    <3>3. /\ j \in 1 .. Len(a) + Len(t) /\ ~(j <= Len(a))
          /\ j - Len(a) \in i .. Len(t) /\ (j - Len(a)) - i < Limit - 1
      BY <2>2, <3>2, WireAssumption
    <3>4. (a \o t)[j] = t[j - Len(a)]
      BY <2>2, <3>3
    <3>5. QED
      BY <3>2, <3>3, <3>4
  <2>4. Marked(a \o t) => Marked(t)
    BY <2>3 DEF Marked
  <2>5. QED
    BY <2>1, <2>4 DEF t
<1>11. Stream(p)' = Stream(p)
  BY <1>1, <1>3, <1>8 DEF Stream
<1>12. \A d \in End : d = e \/ d = p
  BY PeerFacts DEF p
<1>13. \A d \in End : Alive(d)' = Alive(d)
  BY <1>3 DEF Alive, WireInv, Typed
<1>14. StreamsMarked'
  BY <1>10, <1>11, <1>12, <1>13, SameStreams DEF WireInv, StreamsMarked
<1>15. IdleHasNone'
  BY <1>1, <1>3, <1>8, <1>12 DEF WireInv, IdleHasNone, Typed
<1>16. OneMessage(a)
  <2>1. Whole(inbuf[e]) # 0
    BY DEF Take
  <2>2. /\ k \in 1 .. Len(inbuf[e]) /\ inbuf[e][k].last
        /\ \A j \in 1 .. k - 1 : ~inbuf[e][j].last
    BY <1>1, <2>1, WholeOf DEF k
  <2>3. \A i \in 1 .. k : a[i] = inbuf[e][i]
    BY <1>1, <1>2, PartOf DEF a
  <2>4. k \in Nat /\ k # 0 /\ k \in 1 .. k /\ \A j \in 1 .. k - 1 : j \in 1 .. k
    BY <1>2, <2>2
  <2>5. a[k].last /\ \A j \in 1 .. k - 1 : ~a[j].last
    BY <2>2, <2>3, <2>4
  <2>6. QED
    BY <1>4, <2>4, <2>5 DEF OneMessage
<1>17. Leaves(e) /\ Alive(e)
  BY <1>3, <1>9, <1>11, <1>13, <1>16 DEF Leaves, p, Alive
<1>18. QED
  BY <1>7, <1>14, <1>15, <1>17 DEF WireInv

\* Back in the loop, with what could be written of outbuf on its way.
LEMMA FinishKeeps ==
  ASSUME WireInv, NEW e \in End, Finish(e)
  PROVE  WireInv' /\ (SameStream \/ (Alive(e) /\ Die(e)))
<1>0. Whole(inbuf[e]) = 0 /\ pc[e] # "dead" /\ crashes' = crashes /\ crashes \in Nat
  BY DEF Finish, WireInv, Typed
<1>1. CASE Die(e)
  BY <1>0, <1>1, DieKeeps DEF Alive
<1>2. CASE ~Die(e)
  <2> DEFINE n == IF "W" \in seen[e] THEN Sendable(e, outbuf[e]) ELSE 0
             p == Peer(e)
             o == outbuf[e]
             a == SubSeq(o, 1, n)
             b == SubSeq(o, n + 1, Len(o))
  <2>1. /\ pipe' = Into(e, o, n)
        /\ outbuf' = [outbuf EXCEPT ![e] = b]
        /\ pc' = [pc EXCEPT ![e] = "idle"]
        /\ UNCHANGED <<inbuf, made>>
    BY <1>2 DEF Finish
  <2>2. /\ inbuf[e] \in Seq(Unit) /\ inbuf[p] \in Seq(Unit) /\ pipe[p] \in Seq(Unit)
        /\ o \in Seq(Unit) /\ p \in End /\ p # e /\ Peer(p) = e
        /\ Len(pipe[p]) <= Room /\ Len(pipe[p]) \in Nat /\ Len(o) \in Nat
    BY PeerFacts, LenProperties DEF WireInv, Typed
  <2>3. n \in 0 .. Len(o) /\ Len(pipe[p]) + n <= Room
    BY <2>2, SendableFits, SMTT(30) DEF WireInv
  <2> HIDE DEF n
  <2>4. a \in Seq(Unit) /\ b \in Seq(Unit)
    BY <2>2, <2>3, PartOf
  <2>5. Cat(a, b) = o
    BY <2>2, <2>3, PartsMeet DEF Cat
  <2>6. /\ pipe' \in [End -> Seq(Unit)]
        /\ \A d \in End : Len(pipe'[d]) <= Room
        /\ pipe'[p] = pipe[p] \o a
        /\ pipe'[e] = pipe[e]
    BY <2>1, <2>2, <2>3, IntoFits DEF WireInv
  <2> HIDE DEF p, o, a, b
  <2>7. Typed'
    BY <1>0, <2>1, <2>4, <2>6 DEF WireInv, Typed
  <2>8. outbuf'[e] = b /\ outbuf'[p] = outbuf[p]
    BY <2>1, <2>2 DEF WireInv, Typed
  <2>9. Stream(p)' = Stream(p)
    <3>1. Stream(p)' = Cat(Cat(inbuf[p], Cat(pipe[p], a)), b)
      BY <2>1, <2>2, <2>6, <2>8 DEF Stream, Cat
    <3>2. Stream(p) = Cat(Cat(inbuf[p], pipe[p]), o)
      BY <2>2 DEF Stream, Cat, o
    <3>3. Cat(inbuf[p], Cat(pipe[p], a)) = Cat(Cat(inbuf[p], pipe[p]), a)
      BY <2>2, <2>4, CatGroups
    <3>4. Cat(Cat(Cat(inbuf[p], pipe[p]), a), b) = Cat(Cat(inbuf[p], pipe[p]), o)
      <4>1. Cat(inbuf[p], pipe[p]) \in Seq(Unit)
        BY <2>2, CatFacts
      <4>2. QED
        BY <2>4, <2>5, <4>1, CatGroups
    <3>5. QED
      BY <3>1, <3>2, <3>3, <3>4
  <2>10. Stream(e)' = Stream(e)
    BY <2>1, <2>2, <2>6, <2>8 DEF Stream, p
  <2>11. \A d \in End : d = e \/ d = p
    BY PeerFacts DEF p
  <2>12. \A d \in End : Alive(d)' = Alive(d)
    BY <1>0, <2>1 DEF Alive, WireInv, Typed
  <2>13. StreamsMarked'
    BY <2>9, <2>10, <2>11, <2>12, SameStreams DEF WireInv, StreamsMarked
  <2>14. NoLast(inbuf[e])
    <3>1. Len(inbuf[e]) \in Nat
      BY <2>2, LenProperties
    <3>2. QED
      BY <1>0, <2>2, <3>1, WholeOf
  <2>15. IdleHasNone'
    BY <2>1, <2>2, <2>11, <2>14 DEF WireInv, IdleHasNone, Typed, NoLast
  <2>16. SameStream
    BY <2>9, <2>10, <2>11, <2>12 DEF SameStream
  <2>17. QED
    BY <2>7, <2>13, <2>15, <2>16 DEF WireInv
<1>3. QED
  BY <1>1, <1>2

LEMMA WireInvStep == WireInv /\ [Next]_vars => WireInv'
<1>1. SUFFICES ASSUME WireInv, [Next]_vars PROVE WireInv'
  OBVIOUS
<1>2. CASE UNCHANGED vars
  <2>1. UNCHANGED <<pc, inbuf, outbuf, pipe, made, crashes>>
    BY <1>2 DEF vars
  <2>2. Typed' /\ IdleHasNone'
    BY <1>1, <2>1 DEF WireInv, Typed, IdleHasNone
  <2>3. \A d \in End : Stream(d)' = Stream(d) /\ Alive(d)' = Alive(d)
    BY <2>1 DEF Stream, Alive
  <2>4. StreamsMarked'
    BY <1>1, <2>3, SameStreams DEF WireInv, StreamsMarked
  <2>5. QED
    BY <2>2, <2>4 DEF WireInv
<1>3. ASSUME NEW e \in End, Loop(e) PROVE WireInv'
  <2>1. CASE Notice(e)
    BY <1>1, <2>1, NoticeKeeps
  <2>2. CASE Settle(e)
    <3>1. UNCHANGED <<pc, inbuf, outbuf, pipe, made, crashes>>
      BY <2>2 DEF Settle
    <3>2. Typed' /\ IdleHasNone'
      BY <1>1, <3>1 DEF WireInv, Typed, IdleHasNone
    <3>3. \A d \in End : Stream(d)' = Stream(d) /\ Alive(d)' = Alive(d)
      BY <3>1 DEF Stream, Alive
    <3>4. StreamsMarked'
      BY <1>1, <3>3, SameStreams DEF WireInv, StreamsMarked
    <3>5. QED
      BY <3>2, <3>4 DEF WireInv
  <2>3. CASE Take(e)
    BY <1>1, <2>3, TakeKeeps
  <2>4. CASE Finish(e)
    BY <1>1, <2>4, FinishKeeps
  <2>5. QED
    BY <1>3, <2>1, <2>2, <2>3, <2>4 DEF Loop
<1>4. ASSUME NEW e \in End, Send(e) PROVE WireInv'
  BY <1>1, <1>4, SendKeeps
<1>5. ASSUME NEW e \in End, Ping(e) PROVE WireInv'
  BY <1>1, <1>5, PingKeeps
<1>6. ASSUME NEW e \in End, Crash(e) PROVE WireInv'
  <2>1. Die(e) /\ crashes' \in Nat
    BY <1>1, <1>6 DEF Crash, WireInv, Typed
  <2>2. QED
    BY <1>1, <2>1, DieKeeps
<1>7. QED
  BY <1>1, <1>2, <1>3, <1>4, <1>5, <1>6 DEF Next

-----------------------------------------------------------------------------
(* The connection.                                                         *)

\* An idle end of a living connection has room in inbuf.
LEMMA IdleHasRoom ==
  ASSUME WireInv, NEW e \in End, pc[e] = "idle", Alive(Peer(e))
  PROVE  Len(inbuf[e]) # InSize
<1>1. SUFFICES ASSUME Len(inbuf[e]) = InSize PROVE FALSE
  OBVIOUS
<1>2. inbuf[e] \in Seq(Unit) /\ pipe[e] \in Seq(Unit) /\ outbuf[Peer(e)] \in Seq(Unit)
  BY PeerFacts DEF WireInv, Typed
<1>3. Marked(Stream(e)) /\ NoLast(inbuf[e])
  BY DEF WireInv, StreamsMarked, IdleHasNone, Alive
<1> DEFINE r == Cat(pipe[e], outbuf[Peer(e)])
<1>4. r \in Seq(Unit) /\ Stream(e) = inbuf[e] \o r
  <2>1. Stream(e) = Cat(Cat(inbuf[e], pipe[e]), outbuf[Peer(e)])
    BY DEF Stream, Cat
  <2>2. Stream(e) = Cat(inbuf[e], r)
    BY <1>2, <2>1, CatGroups
  <2>3. r \in Seq(Unit)
    BY <1>2, CatFacts
  <2> HIDE DEF r
  <2>4. QED
    BY <2>2, <2>3 DEF Cat
<1> HIDE DEF r, Stream
<1>5. /\ Len(r) \in Nat /\ Len(inbuf[e] \o r) = Len(inbuf[e]) + Len(r)
      /\ \A i \in 1 .. Len(inbuf[e]) + Len(r) :
            (inbuf[e] \o r)[i] = IF i <= Len(inbuf[e]) THEN inbuf[e][i] ELSE r[i - Len(inbuf[e])]
  BY <1>2, <1>4, ConcatProperties, LenProperties
<1>6. 1 \in 1 .. Len(inbuf[e] \o r)
  BY <1>1, <1>5, WireAssumption
<1>7. PICK j \in 1 .. Len(inbuf[e] \o r) : j - 1 < Limit - 1 /\ (inbuf[e] \o r)[j].last
  BY <1>3, <1>4, <1>6 DEF Marked
<1>8. j \in 1 .. Len(inbuf[e]) /\ j \in 1 .. Len(inbuf[e]) + Len(r)
  BY <1>1, <1>5, <1>7, WireAssumption
<1>9. (inbuf[e] \o r)[j] = inbuf[e][j]
  BY <1>5, <1>8
<1>10. QED
  BY <1>3, <1>7, <1>8, <1>9 DEF NoLast

\* The room EV_WRITE was passed on for is there until a message is handled.
RoomWhileRead ==
    /\ seen \in [End -> SUBSET {"R", "W"}]
    /\ \A e \in End : pc[e] = "read" /\ "W" \in seen[e] /\ Alive(Peer(e)) =>
                      Len(pipe[Peer(e)]) < Room

LEMMA RoomInit == Init => RoomWhileRead
BY DEF Init, RoomWhileRead

\* An end that dies takes the connection from the other.
LEMMA RoomDies ==
  ASSUME Typed, RoomWhileRead, NEW e \in End, Die(e)
  PROVE  RoomWhileRead'
<1>1. seen' = [seen EXCEPT ![e] = {}] /\ pc' = [pc EXCEPT ![e] = "dead"]
  BY DEF Die
<1>2. pc'[e] = "dead" /\ \A d \in End : d = e \/ Peer(d) = e
  BY <1>1 DEF Typed, End, Peer
<1>3. QED
  BY <1>1, <1>2 DEF RoomWhileRead, Alive

\* Only the end itself takes room from its direction of the socket.
LEMMA RoomSends ==
  ASSUME Typed, RoomWhileRead, NEW e \in End, pc'[e] # "read",
         \A d \in End : d # e => pc'[d] = pc[d] /\ seen'[d] = seen[d],
         seen' \in [End -> SUBSET {"R", "W"}],
         Alive(e)' = Alive(e), pipe'[e] = pipe[e]
  PROVE  RoomWhileRead'
<1>1. \A d \in End : d = e \/ Peer(d) = e
  BY DEF End, Peer
<1>2. QED
  BY <1>1 DEF RoomWhileRead, Alive

LEMMA RoomNotices ==
  ASSUME Typed, RoomWhileRead, NEW e \in End, Notice(e)
  PROVE  RoomWhileRead'
<1>1. CASE Die(e)
  BY <1>1, RoomDies
<1>2. CASE ~Die(e)
  <2> DEFINE p == Peer(e)
  <2>1. p \in End /\ p # e /\ Peer(p) = e /\ \A d \in End : d = e \/ d = p
    BY PeerFacts
  <2>2. /\ pc' = [pc EXCEPT ![e] = "read"] /\ seen' = [seen EXCEPT ![e] = Passed(e)]
        /\ pc[e] = "idle"
    BY <1>2 DEF Notice
  <2>3. pipe'[p] = pipe[p] /\ Len(pipe'[e]) <= Len(pipe[e])
    <3>1. Len(pipe[e]) \in Nat /\ pipe[e] \in Seq(Unit) /\ Len(inbuf[e]) \in Nat
      BY LenProperties DEF Typed
    <3>2. CASE "R" \notin Passed(e)
      BY <1>2, <3>1, <3>2 DEF Notice
    <3>3. CASE "R" \in Passed(e)
      <4>1. PICK n \in 1 .. Least(InSize - Len(inbuf[e]), Len(pipe[e])) :
               pipe' = [pipe EXCEPT ![e] = SubSeq(@, n + 1, Len(@))]
        BY <1>2, <3>3 DEF Notice
      <4>2. n \in 0 .. Len(pipe[e])
        BY <3>1, WireAssumption DEF Least
      <4>3. Len(SubSeq(pipe[e], n + 1, Len(pipe[e]))) = Len(pipe[e]) - n
        BY <3>1, <4>2, PartOf
      <4>4. pipe'[p] = pipe[p] /\ pipe'[e] = SubSeq(pipe[e], n + 1, Len(pipe[e]))
        BY <2>1, <4>1 DEF Typed
      <4>5. QED
        BY <3>1, <4>2, <4>3, <4>4
    <3>4. QED
      BY <3>2, <3>3
  <2>4. Passed(e) \subseteq {"R", "W"} /\ Passed(e) \subseteq Ready(e)
    BY DEF Passed, LibeventPassed, Ready
  <2>5. seen' \in [End -> SUBSET {"R", "W"}]
    BY <2>2, <2>4 DEF RoomWhileRead
  <2>6. Alive(e)' = Alive(e) /\ Alive(p)' = Alive(p)
    BY <2>1, <2>2 DEF Typed, Alive
  <2>7. "W" \in seen'[e] /\ Alive(p)' => Len(pipe'[p]) < Room
    <3>1. seen'[e] = Passed(e)
      BY <2>2 DEF RoomWhileRead
    <3>2. QED
      BY <2>3, <2>4, <2>6, <3>1 DEF Ready
  <2>8. pc'[p] = "read" /\ "W" \in seen'[p] /\ Alive(e)' => Len(pipe'[e]) < Room
    <3>1. pc'[p] = pc[p] /\ seen'[p] = seen[p]
      BY <2>1, <2>2 DEF Typed, RoomWhileRead
    <3>2. pc[p] = "read" /\ "W" \in seen[p] /\ Alive(e) => Len(pipe[e]) < Room
      BY <2>1 DEF RoomWhileRead
    <3>3. Len(pipe[e]) \in Nat /\ Len(pipe'[e]) \in Int
      <4>1. Len(pipe[e]) \in Nat
        BY LenProperties DEF Typed
      <4>2. QED
        BY <2>3, <4>1
    <3>4. QED
      BY <2>3, <2>6, <3>1, <3>2, <3>3, WireAssumption
  <2>9. QED
    BY <2>1, <2>5, <2>7, <2>8 DEF RoomWhileRead
<1>3. QED
  BY <1>1, <1>2

LEMMA RoomStep == WireInv /\ RoomWhileRead /\ [Next]_vars => RoomWhileRead'
<1>1. SUFFICES ASSUME WireInv, RoomWhileRead, [Next]_vars PROVE RoomWhileRead'
  OBVIOUS
<1>2. /\ Typed /\ seen \in [End -> SUBSET {"R", "W"}]
      /\ pc \in [End -> {"idle", "read", "handled", "dead"}]
      /\ pipe \in [End -> Seq(Unit)]
  BY <1>1 DEF WireInv, Typed, RoomWhileRead
<1>3. CASE UNCHANGED <<pc, seen, pipe>>
  BY <1>1, <1>3 DEF RoomWhileRead, Alive
<1>4. ASSUME NEW e \in End, Notice(e) PROVE RoomWhileRead'
  BY <1>1, <1>2, <1>4, RoomNotices
<1>5. ASSUME NEW e \in End, Take(e) PROVE RoomWhileRead'
  <2>1. /\ pc' = [pc EXCEPT ![e] = "handled"] /\ pc[e] # "dead"
        /\ UNCHANGED <<seen, pipe>>
    BY <1>5 DEF Take
  <2>2. Alive(e)' = Alive(e) /\ pc'[e] # "read"
    BY <1>2, <2>1 DEF Alive
  <2>3. QED
    BY <1>1, <1>2, <2>1, <2>2, RoomSends
<1>6. ASSUME NEW e \in End, Send(e) \/ Ping(e) PROVE RoomWhileRead'
  <2>1. UNCHANGED <<pc, seen>> /\ pc[e] # "read"
    BY <1>6 DEF Send, Ping
  <2>2. pipe'[e] = pipe[e]
    BY <1>2, <1>6, PeerFacts DEF Send, Ping, SendCmd, Into
  <2>3. Alive(e)' = Alive(e)
    BY <2>1 DEF Alive
  <2>4. QED
    BY <1>1, <1>2, <2>1, <2>2, <2>3, RoomSends
<1>7. ASSUME NEW e \in End, Finish(e) PROVE RoomWhileRead'
  <2>1. CASE Die(e)
    BY <1>1, <1>2, <2>1, RoomDies
  <2>2. CASE ~Die(e)
    <3>1. /\ pc' = [pc EXCEPT ![e] = "idle"] /\ seen' = [seen EXCEPT ![e] = {}]
          /\ pc[e] # "dead"
          /\ \E n : pipe' = Into(e, outbuf[e], n)
      BY <1>7, <2>2 DEF Finish
    <3>2. pipe'[e] = pipe[e]
      BY <1>2, <3>1, PeerFacts DEF Into
    <3>3. Alive(e)' = Alive(e) /\ pc'[e] # "read"
      BY <1>2, <3>1 DEF Alive
    <3>4. seen' \in [End -> SUBSET {"R", "W"}]
      BY <1>2, <3>1
    <3>5. \A d \in End : d # e => pc'[d] = pc[d] /\ seen'[d] = seen[d]
      BY <1>2, <3>1
    <3>6. QED
      BY <1>1, <1>2, <3>2, <3>3, <3>4, <3>5, RoomSends
  <2>3. QED
    BY <2>1, <2>2
<1>8. ASSUME NEW e \in End, Crash(e) PROVE RoomWhileRead'
  BY <1>1, <1>2, <1>8, RoomDies DEF Crash
<1>9. ASSUME NEW e \in End, Settle(e) PROVE UNCHANGED <<pc, seen, pipe>>
  BY <1>9 DEF Settle
<1>10. QED
  BY <1>1, <1>3, <1>4, <1>5, <1>6, <1>7, <1>8, <1>9 DEF Next, Loop, vars

\* An end breaks the connection only after the other has, or dies by itself, or has
\* filled the socket with its answers.
Broken ==
    \A e \in End : Alive(e) /\ pc'[e] = "dead" =>
        \/ ~Alive(Peer(e)) \/ crashes' # crashes
        \/ pc[e] = "handled" /\ Overfilled(e)

LEMMA BreaksKnown == WireInv /\ RoomWhileRead /\ [Next]_vars => Broken
<1>1. SUFFICES ASSUME WireInv, RoomWhileRead, [Next]_vars, NEW e \in End,
                      Alive(e), pc'[e] = "dead", Alive(Peer(e)), crashes' = crashes,
                      ~(pc[e] = "handled" /\ Overfilled(e))
               PROVE  FALSE
  BY DEF Broken
<1>2. pc \in [End -> {"idle", "read", "handled", "dead"}] /\ crashes \in Nat
  BY <1>1 DEF WireInv, Typed
<1>3. ~UNCHANGED pc
  BY <1>1 DEF Alive
<1>4. ~ \E d \in End : Send(d) \/ Ping(d) \/ Settle(d)
  BY <1>3 DEF Send, Ping, Settle
<1>5. ~ \E d \in End : Crash(d)
  BY <1>1, <1>2 DEF Crash
<1>6. ~ \E d \in End : Take(d)
  BY <1>1, <1>2 DEF Take, Alive
<1>7. ASSUME NEW d \in End, Notice(d) PROVE FALSE
  <2>1. d = e
    BY <1>1, <1>2, <1>7 DEF Notice, Die, Alive
  <2>2. "R" \in Passed(e) /\ (Len(inbuf[e]) = InSize \/ pipe[e] = <<>>)
    BY <1>1, <1>2, <1>7, <2>1 DEF Notice
  <2>3. "R" \in Ready(e)
    BY <2>2 DEF Passed, LibeventPassed
  <2>4. pipe[e] # <<>>
    BY <1>1, <2>3 DEF Ready
  <2>5. Len(inbuf[e]) # InSize
    BY <1>1, <1>7, <2>1, IdleHasRoom DEF Notice
  <2>6. QED
    BY <2>2, <2>4, <2>5
<1>8. ASSUME NEW d \in End, Finish(d) PROVE FALSE
  <2>1. d = e
    BY <1>1, <1>2, <1>8 DEF Finish, Die, Alive
  <2>2. Overfilled(e) /\ pc[e] \in {"read", "handled"}
    BY <1>1, <1>2, <1>8, <2>1 DEF Finish
  <2>3. pc[e] = "read" /\ "W" \in seen[e] /\ Len(pipe[Peer(e)]) = Room
    BY <1>1, <2>2 DEF Overfilled
  <2>4. Len(pipe[Peer(e)]) < Room
    BY <1>1, <2>3 DEF RoomWhileRead
  <2>5. QED
    BY <2>3, <2>4, WireAssumption
<1>9. QED
  BY <1>1, <1>3, <1>4, <1>5, <1>6, <1>7, <1>8 DEF Next, Loop, vars

\* Under an end that lives a connection is broken only by a handler whose own
\* answers have filled the socket, however messages are cut up and buffered: never
\* by a full inbuf, and never by a callback that only writes what was left over.
THEOREM BreaksAreAnswers == Spec => BrokenAnswering
<1>1. WireInv /\ RoomWhileRead /\ [Next]_vars => [Broken]_vars
  BY BreaksKnown
<1>2. [Broken]_vars => [\A e \in End : Alive(e) /\ pc'[e] = "dead" =>
                           \/ ~Alive(Peer(e)) \/ crashes' # crashes
                           \/ pc[e] = "handled" /\ Overfilled(e)]_vars
  BY DEF Broken
<1>3. QED
  BY WireInvInit, WireInvStep, RoomInit, RoomStep, <1>1, <1>2, PTL
     DEF Spec, BrokenAnswering

-----------------------------------------------------------------------------
(* The connection implements Channel.                                      *)

LEMMA StreamsAreUnits ==
  ASSUME WireInv, NEW e \in End
  PROVE  Stream(e) \in Seq(Unit)
<1>1. inbuf[e] \in Seq(Unit) /\ pipe[e] \in Seq(Unit) /\ outbuf[Peer(e)] \in Seq(Unit)
  BY PeerFacts DEF WireInv, Typed
<1>2. QED
  BY <1>1, ConcatProperties DEF Stream

\* The mail of Channel is what Underway makes of the streams.
LEMMA UnderwayIs ==
  \A e \in End : Underway(e) = IF Alive(e) THEN Wholes(Stream(e)) ELSE <<>>
BY DEF Underway, Stream

LEMMA UnderwayNext ==
  \A e \in End : Underway(e)' = IF Alive(e)' THEN Wholes(Stream(e)') ELSE <<>>
BY DEF Underway, Stream

LEMMA StepStreams ==
  ASSUME WireInv, Next
  PROVE  \/ SameStream
         \/ \E e \in End : Alive(e) /\ \E m \in Content : Joins(e, m)
         \/ \E e \in End : Alive(e) /\ (Leaves(e) \/ Die(e))
<1>1. ASSUME NEW e \in End, Send(e)
      PROVE  SameStream \/ (Alive(e) /\ \E m \in Content : Joins(e, m))
  BY <1>1, SendKeeps DEF Send, Alive
<1>2. ASSUME NEW e \in End, Ping(e)
      PROVE  Alive(e) /\ \E m \in Content : Joins(e, m)
  BY <1>2, PingKeeps DEF Ping, Alive
<1>3. ASSUME NEW e \in End, Notice(e)
      PROVE  SameStream \/ (Alive(e) /\ Die(e))
  BY <1>3, NoticeKeeps
<1>4. ASSUME NEW e \in End, Settle(e)
      PROVE  SameStream
  BY <1>4 DEF Settle, SameStream, Stream, Alive
<1>5. ASSUME NEW e \in End, Take(e)
      PROVE  Alive(e) /\ Leaves(e)
  BY <1>5, TakeKeeps
<1>6. ASSUME NEW e \in End, Finish(e)
      PROVE  SameStream \/ (Alive(e) /\ Die(e))
  BY <1>6, FinishKeeps
<1>7. ASSUME NEW e \in End, Crash(e)
      PROVE  Alive(e) /\ Die(e)
  BY <1>7 DEF Crash
<1>8. QED
  BY <1>1, <1>2, <1>3, <1>4, <1>5, <1>6, <1>7 DEF Next, Loop

Mail == [e \in End |-> Underway(e)]

Open == [e \in End |-> Alive(e)]

LEMMA SameStutters ==
  ASSUME WireInv, SameStream
  PROVE  UNCHANGED <<Mail, Open>>
<1>1. \A e \in End : Underway(e)' = Underway(e) /\ Alive(e)' = Alive(e)
  BY UnderwayIs, UnderwayNext DEF SameStream
<1>2. QED
  BY <1>1 DEF Mail, Open

\* A message joins what is on its way to an end that lives.
LEMMA JoinPuts ==
  ASSUME WireInv, NEW e \in End, Alive(e), NEW m \in Content, Joins(e, m)
  PROVE  Link!Put(e, m) \/ UNCHANGED <<Mail, Open>>
<1> DEFINE p == Peer(e)
<1>1. PICK u : OneMessage(u) /\ u[Len(u)].id = m /\ Stream(p)' = Cat(Stream(p), u)
  BY DEF Joins
<1>2. p \in End /\ p # e /\ \A d \in End : d = e \/ d = p
  BY PeerFacts
<1>3. Stream(e)' = Stream(e) /\ \A d \in End : Alive(d)' = Alive(d)
  BY DEF Joins
<1> HIDE DEF p
<1>4. Underway(e)' = Underway(e)
  BY <1>3, UnderwayIs, UnderwayNext
<1>5. CASE ~Alive(p)
  <2>1. Underway(p)' = Underway(p)
    BY <1>2, <1>3, <1>5, UnderwayIs, UnderwayNext
  <2>2. QED
    BY <1>2, <1>3, <1>4, <2>1 DEF Mail, Open
<1>6. CASE Alive(p)
  <2>1. Wholes(u) = <<m>> /\ u \in Seq(Unit)
    BY <1>1, WholesOne DEF OneMessage
  <2>2. Stream(p) \in Seq(Unit) /\ Wholes(Stream(p)) \in Seq(Nat)
    BY <1>2, StreamsAreUnits, WholesAre
  <2>3. Wholes(Cat(Stream(p), u)) = Wholes(Stream(p)) \o <<m>>
    BY <2>1, <2>2, WholesCat
  <2>4. m \in Nat
    <3>1. Size[1] \in Seq(Nat \ {0}) /\ Size[2] \in Seq(Nat \ {0})
      BY WireAssumption
    <3>2. Len(Size[1]) \in Nat /\ Len(Size[2]) \in Nat
      BY <3>1, LenProperties
    <3>3. QED
      BY <3>2 DEF Content, Pin
  <2>5. Underway(p)' = Append(Underway(p), m)
    <3>1. Underway(p) = Wholes(Stream(p)) /\ Underway(p)' = Wholes(Stream(p)')
      BY <1>2, <1>3, <1>6, UnderwayIs, UnderwayNext
    <3>2. Append(Wholes(Stream(p)), m) = Wholes(Stream(p)) \o <<m>>
      BY <2>2, <2>4, AppendIsConcat
    <3>3. QED
      BY <1>1, <2>3, <3>1, <3>2
  <2>6. Mail' = [Mail EXCEPT ![p] = Append(@, m)] /\ Open' = Open
    BY <1>2, <1>3, <1>4, <2>5 DEF Mail, Open
  <2>7. Open[e] /\ Open[p]
    BY <1>2, <1>6 DEF Open
  <2>8. Link!Put(e, m)
    BY <2>6, <2>7 DEF Link!Put, Mail, Open, p
  <2>9. QED
    BY <2>8
<1>7. QED
  BY <1>5, <1>6

\* The first message on its way to an end is the one it handles.
LEMMA LeaveGets ==
  ASSUME WireInv, NEW e \in End, Alive(e), Leaves(e)
  PROVE  Link!Get(e)
<1> DEFINE p == Peer(e)
           t == Stream(e)'
<1>1. PICK a : OneMessage(a) /\ Stream(e) = Cat(a, t)
  BY DEF Leaves
<1>2. p \in End /\ p # e /\ \A d \in End : d = e \/ d = p
  BY PeerFacts
<1>3. Stream(p)' = Stream(p) /\ \A d \in End : Alive(d)' = Alive(d)
  BY DEF Leaves
<1>4. t \in Seq(Unit)
  BY DEF Leaves
<1>5. Underway(p)' = Underway(p)
  BY <1>2, <1>3, UnderwayIs, UnderwayNext
<1>6. Underway(e) = Wholes(Stream(e)) /\ Underway(e)' = Wholes(t)
  BY <1>3, UnderwayIs, UnderwayNext
<1> HIDE DEF p, t
<1>7. a \in Seq(Unit) /\ Wholes(a) = <<a[Len(a)].id>>
  BY <1>1, WholesOne DEF OneMessage
<1> DEFINE x == a[Len(a)].id
           w == Wholes(t)
<1>8. x \in Nat
  <2>1. Len(a) \in 1 .. Len(a)
    BY <1>1, <1>7, LenProperties DEF OneMessage
  <2>2. a[Len(a)] \in Unit
    BY <1>7, <2>1, ElementOfSeq
  <2>3. QED
    BY <2>2 DEF Unit, Pin
<1>9. w \in Seq(Nat)
  BY <1>4, WholesAre
<1>10. Underway(e) = <<x>> \o w
  BY <1>1, <1>4, <1>6, <1>7, WholesCat
<1> HIDE DEF x, w
<1>11. <<x>> \o w # <<>> /\ Tail(<<x>> \o w) = w
  <2>1. <<x>> \in Seq(Nat) /\ Len(<<x>>) = 1
    BY <1>8
  <2>2. /\ <<x>> \o w \in Seq(Nat) /\ Len(<<x>> \o w) = 1 + Len(w) /\ Len(w) \in Nat
        /\ \A i \in 1 .. 1 + Len(w) :
              (<<x>> \o w)[i] = IF i <= 1 THEN <<x>>[i] ELSE w[i - 1]
    BY <1>9, <2>1, ConcatProperties, LenProperties
  <2> DEFINE r == <<x>> \o w
  <2> HIDE DEF r
  <2>3. r # <<>>
    BY <2>2, EmptySeq DEF r
  <2>4. /\ Tail(r) \in Seq(Nat) /\ Len(Tail(r)) = Len(r) - 1
        /\ \A i \in 1 .. Len(Tail(r)) : Tail(r)[i] = r[i + 1]
    BY <2>2, <2>3, HeadTailProperties DEF r
  <2>5. Len(Tail(r)) = Len(w)
    BY <2>2, <2>4 DEF r
  <2>6. \A i \in 1 .. Len(w) : Tail(r)[i] = w[i]
    <3>1. SUFFICES ASSUME NEW i \in 1 .. Len(w) PROVE Tail(r)[i] = w[i]
      OBVIOUS
    <3>2. i + 1 \in 1 .. 1 + Len(w) /\ ~(i + 1 <= 1) /\ (i + 1) - 1 = i
      BY <2>2
    <3>3. r[i + 1] = w[i]
      BY <2>2, <3>2 DEF r
    <3>4. QED
      BY <2>4, <2>5, <3>3
  <2>7. Tail(r) = w
    BY <1>9, <2>4, <2>5, <2>6, SeqEqual
  <2>8. QED
    BY <2>3, <2>7 DEF r
<1>12. Underway(e) # <<>> /\ Underway(e)' = Tail(Underway(e))
  BY <1>6, <1>10, <1>11 DEF w
<1>13. Mail' = [Mail EXCEPT ![e] = Tail(@)] /\ Open' = Open
  BY <1>2, <1>3, <1>5, <1>12 DEF Mail, Open
<1>14. Open[e] /\ Mail[e] # <<>>
  BY <1>12 DEF Open, Mail
<1>15. QED
  BY <1>13, <1>14 DEF Link!Get, Mail, Open

\* The units left on their way to the other end are whole messages from the first
\* on, as far as messages are concerned.
LEMMA DieCloses ==
  ASSUME WireInv, NEW e \in End, Alive(e), Die(e)
  PROVE  Link!Close(e)
<1> DEFINE p == Peer(e)
<1>1. p \in End /\ p # e /\ Peer(p) = e /\ \A d \in End : d = e \/ d = p
  BY PeerFacts
<1>2. PICK left \in 0 .. Len(pipe[p]) :
         pipe' = [pipe EXCEPT ![e] = <<>>, ![p] = SubSeq(@, 1, left)]
  BY DEF Die
<1> HIDE DEF p
<1>3. /\ pc' = [pc EXCEPT ![e] = "dead"]
      /\ inbuf' = [inbuf EXCEPT ![e] = <<>>] /\ outbuf' = [outbuf EXCEPT ![e] = <<>>]
  BY DEF Die
<1>4. /\ inbuf \in [End -> Seq(Unit)] /\ pipe \in [End -> Seq(Unit)]
      /\ outbuf \in [End -> Seq(Unit)]
      /\ pc \in [End -> {"idle", "read", "handled", "dead"}]
  BY DEF WireInv, Typed
<1>5. ~Alive(e)' /\ Alive(p)' = Alive(p)
  BY <1>1, <1>3, <1>4 DEF Alive
<1>6. Underway(e)' = <<>>
  BY <1>5, UnderwayNext
<1>7. Open' = [Open EXCEPT ![e] = FALSE] /\ Open[e]
  <2>1. \A d \in End : Alive(d)' = IF d = e THEN FALSE ELSE Alive(d)
    BY <1>1, <1>3, <1>4 DEF Alive
  <2>2. Open' = [d \in End |-> Alive(d)']
    BY DEF Open
  <2>3. Open' = [d \in End |-> IF d = e THEN FALSE ELSE Open[d]]
    BY <2>1, <2>2 DEF Open
  <2>4. Open[e]
    BY DEF Open
  <2>5. DOMAIN Open = End
    BY DEF Open
  <2>6. QED
    BY <2>3, <2>4, <2>5
<1>8. CASE ~Alive(p)
  <2>1. Underway(p)' = <<>> /\ Underway(p) = <<>>
    BY <1>1, <1>5, <1>8, UnderwayIs, UnderwayNext
  <2>2. Mail[p] = <<>> /\ Len(<<>>) = 0
    BY <1>1, <2>1, EmptySeq DEF Mail
  <2>3. SubSeq(<<>>, 1, 0) = <<>>
    BY SubSeqEmpty
  <2>4. Mail' = [Mail EXCEPT ![e] = <<>>, ![p] = SubSeq(@, 1, 0)]
    BY <1>1, <1>6, <2>1, <2>2, <2>3 DEF Mail
  <2>5. 0 \in 0 .. Len(Mail[p])
    BY <2>2
  <2>6. QED
    BY <1>7, <2>4, <2>5 DEF Link!Close, Mail, Open, p
<1>9. CASE Alive(p)
  <2> DEFINE a == SubSeq(pipe[p], 1, left)
             b == SubSeq(pipe[p], left + 1, Len(pipe[p]))
             i == inbuf[p]
             o == outbuf[e]
             x == Cat(i, a)
             y == Cat(b, o)
  <2>1. i \in Seq(Unit) /\ pipe[p] \in Seq(Unit) /\ o \in Seq(Unit)
    BY <1>1, <1>4
  <2>2. a \in Seq(Unit) /\ b \in Seq(Unit)
    BY <2>1, PartOf
  <2>3. Cat(a, b) = pipe[p]
    BY <2>1, PartsMeet DEF Cat
  <2>4. /\ inbuf'[p] = i /\ pipe'[p] = a /\ outbuf'[e] = <<>>
    BY <1>1, <1>2, <1>3, <1>4
  <2>5. Stream(p) = Cat(Cat(i, pipe[p]), o)
    BY <1>1 DEF Stream, Cat
  <2>6. Stream(p)' = Cat(Cat(i, a), <<>>)
    BY <1>1, <2>4 DEF Stream, Cat
  <2> HIDE DEF a, b, i, o
  <2>7. x \in Seq(Unit) /\ y \in Seq(Unit)
    BY <2>1, <2>2, CatFacts
  <2>8. Stream(p)' = x
    BY <2>6, <2>7, CatFacts
  <2>9. Stream(p) = Cat(x, y)
    <3>1. Cat(i, Cat(a, b)) = Cat(x, b)
      BY <2>1, <2>2, CatGroups
    <3>2. Cat(Cat(x, b), o) = Cat(x, y)
      <4> HIDE DEF x
      <4>1. QED
        BY <2>1, <2>2, <2>7, CatGroups
    <3>3. QED
      BY <2>3, <2>5, <3>1, <3>2
  <2> HIDE DEF x, y
  <2> DEFINE wx == Wholes(x)
             wy == Wholes(y)
  <2>10. wx \in Seq(Nat) /\ wy \in Seq(Nat)
    BY <2>7, WholesAre
  <2>11. Underway(p) = wx \o wy /\ Underway(p)' = wx
    <3>1. Wholes(Cat(x, y)) = wx \o wy
      BY <2>7, WholesCat
    <3>2. QED
      BY <1>1, <1>5, <1>9, <2>8, <2>9, <3>1, UnderwayIs, UnderwayNext
  <2> HIDE DEF wx, wy
  <2>12. /\ Len(wx) \in 0 .. Len(wx \o wy)
         /\ SubSeq(wx \o wy, 1, Len(wx)) = wx
    <3>1. /\ wx \o wy \in Seq(Nat) /\ Len(wx \o wy) = Len(wx) + Len(wy)
          /\ Len(wx) \in Nat /\ Len(wy) \in Nat
      BY <2>10, ConcatProperties, LenProperties
    <3>2. CASE Len(wx) = 0
      <4>1. wx = <<>>
        BY <2>10, <3>2, EmptySeq
      <4>2. QED
        BY <3>1, <3>2, <4>1, SubSeqEmpty
    <3>3. CASE Len(wx) # 0
      <4>1. 1 \in 1 .. Len(wx) /\ Len(wx) \in 1 .. Len(wx)
        BY <3>1, <3>3
      <4>2. SubSeq(wx \o wy, 1, Len(wx)) = SubSeq(wx, 1, Len(wx))
        BY <2>10, <4>1, SubSeqOfConcat1
      <4>3. SubSeq(wx, 1, Len(wx)) = wx
        BY <2>10, SubSeqFull
      <4>4. QED
        BY <3>1, <4>2, <4>3
    <3>4. QED
      BY <3>2, <3>3
  <2>13. Mail[p] = wx \o wy
    BY <1>1, <2>11 DEF Mail
  <2>14. Mail' = [Mail EXCEPT ![e] = <<>>, ![p] = SubSeq(@, 1, Len(wx))]
    BY <1>1, <1>6, <2>11, <2>12, <2>13 DEF Mail
  <2>15. QED
    BY <1>7, <2>12, <2>13, <2>14 DEF Link!Close, Mail, Open, p
<1>10. QED
  BY <1>8, <1>9

LEMMA LinkInit == Init => Link!Init
<1>1. SUFFICES ASSUME Init PROVE Link!Init
  OBVIOUS
<1>2. \A e \in End : Stream(e) = <<>>
  <2>1. SUFFICES ASSUME NEW e \in End PROVE Stream(e) = <<>>
    OBVIOUS
  <2>2. inbuf[e] = <<>> /\ pipe[e] = <<>> /\ outbuf[Peer(e)] = <<>>
    BY <1>1, PeerFacts DEF Init
  <2>3. <<>> \in Seq(Unit)
    BY EmptySeq
  <2>4. QED
    BY <2>2, <2>3, ConcatEmptySeq DEF Stream
<1>3. \A e \in End : Alive(e)
  BY <1>1 DEF Init, Alive
<1>4. \A e \in End : Underway(e) = <<>>
  BY <1>2, <1>3, UnderwayIs, WholesNone
<1>5. QED
  BY <1>3, <1>4 DEF Link!Init

LEMMA LinkStep ==
  ASSUME WireInv, [Next]_vars
  PROVE  [Link!Next]_<<Mail, Open>>
<1>1. CASE UNCHANGED vars
  <2>1. SameStream
    BY <1>1 DEF vars, SameStream, Stream, Alive
  <2>2. QED
    BY <2>1, SameStutters
<1>2. CASE Next
  <2>1. CASE SameStream
    BY <2>1, SameStutters
  <2>2. ASSUME NEW e \in End, Alive(e), NEW m \in Content, Joins(e, m)
        PROVE  [Link!Next]_<<Mail, Open>>
    BY <2>2, JoinPuts DEF Link!Next
  <2>3. ASSUME NEW e \in End, Alive(e), Leaves(e)
        PROVE  Link!Next
    BY <2>3, LeaveGets DEF Link!Next
  <2>4. ASSUME NEW e \in End, Alive(e), Die(e)
        PROVE  Link!Next
    BY <2>4, DieCloses DEF Link!Next
  <2>5. QED
    BY <1>2, <2>1, <2>2, <2>3, <2>4, StepStreams
<1>3. QED
  BY <1>1, <1>2

\* Whatever is sent, however it is cut up, buffered and written, and whenever an
\* end dies, messages arrive whole, once and in the order they were sent, until
\* an end closes (sendCmd, conn_notify_core, kill_connection).
THEOREM LinkIsFifo == Spec => InOrder
<1>1. WireInv /\ [Next]_vars => [Link!Next]_<<Mail, Open>>
  BY LinkStep
<1>2. QED
  BY LinkInit, WireInvInit, WireInvStep, <1>1, PTL DEF Spec, InOrder, Link!Spec, Mail, Open

=============================================================================
