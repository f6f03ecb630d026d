------------------------------ MODULE EventOrder ------------------------------
(***************************************************************************)
(* Sequences of events that leave none out: what the proofs about the two  *)
(* Salesforce clients need of the queues between a subscription and the    *)
(* table.  An event is a number, older if it is smaller.                   *)
(***************************************************************************)
EXTENDS Integers, SequencesExt, SequenceTheorems, TLAPS

CONSTANT Event

(* Every event older than one in s is before it in s, or elsewhere in D.   *)
InOrder(s, D) ==
  \A i \in 1 .. Len(s) : \A e \in Event :
    e < s[i] => e \in D \/ \E j \in 1 .. i - 1 : s[j] = e

------------------------------------------------------------------------------
(* Sequences of events, and what is in them.                               *)
LEMMA SeqFacts ==
  ASSUME NEW s \in Seq(Event)
  PROVE  /\ Len(s) \in Nat /\ \A i \in 1 .. Len(s) : s[i] \in Event
         /\ ToSet(s) \subseteq Event
         /\ \A x : x \in ToSet(s) <=> \E i \in 1 .. Len(s) : s[i] = x
BY DEF ToSet

LEMMA EmptyFacts ==
  ToSet(<<>>) = {} /\ \A D : InOrder(<<>>, D)
BY DEF ToSet, InOrder

LEMMA InOrderMonotone ==
  ASSUME NEW s, NEW D, NEW E, InOrder(s, D), \A e \in Event : e \in D => e \in E
  PROVE  InOrder(s, E)
BY DEF InOrder

(* An event is put behind all that is older.                               *)
LEMMA InOrderAppend ==
  ASSUME NEW s \in Seq(Event), NEW x \in Event, NEW D, InOrder(s, D),
         \A e \in Event : e < x => e \in D \union ToSet(s)
  PROVE  InOrder(Append(s, x), D)
<1>1. /\ Len(Append(s, x)) = Len(s) + 1 /\ Len(s) \in Nat
      /\ \A i \in 1 .. Len(s) : Append(s, x)[i] = s[i]
      /\ Append(s, x)[Len(s) + 1] = x
  OBVIOUS
<1> SUFFICES ASSUME NEW i \in 1 .. Len(s) + 1, NEW e \in Event, e < Append(s, x)[i], e \notin D
             PROVE  \E j \in 1 .. i - 1 : Append(s, x)[j] = e
  BY <1>1 DEF InOrder
<1>2. CASE i \in 1 .. Len(s)
  <2>1. PICK j \in 1 .. i - 1 : s[j] = e
    BY <1>1, <1>2 DEF InOrder
  <2>2. j \in 1 .. Len(s)
    BY <1>1, <1>2
  <2> QED BY <1>1, <2>1, <2>2
<1>3. CASE i = Len(s) + 1
  <2>1. PICK j \in 1 .. Len(s) : s[j] = e
    BY <1>1, <1>3, SeqFacts
  <2> QED BY <1>1, <1>3, <2>1
<1> QED BY <1>1, <1>2, <1>3

LEMMA AppendFacts ==
  ASSUME NEW s \in Seq(Event), NEW x \in Event
  PROVE  Append(s, x) \in Seq(Event) /\ ToSet(Append(s, x)) = ToSet(s) \union {x}
<1>1. /\ Append(s, x) \in Seq(Event) /\ Len(Append(s, x)) = Len(s) + 1 /\ Len(s) \in Nat
      /\ \A i \in 1 .. Len(s) : Append(s, x)[i] = s[i]
      /\ Append(s, x)[Len(s) + 1] = x
  OBVIOUS
<1>2. ASSUME NEW y PROVE y \in ToSet(Append(s, x)) <=> y \in ToSet(s) \/ y = x
  <2>1. y \in ToSet(Append(s, x)) <=> \E i \in 1 .. Len(s) + 1 : Append(s, x)[i] = y
    BY ZenonT(60), <1>1, SeqFacts
  <2>2. y \in ToSet(s) <=> \E i \in 1 .. Len(s) : s[i] = y
    BY SeqFacts
  <2>3. \A i \in 1 .. Len(s) + 1 : i \in 1 .. Len(s) \/ i = Len(s) + 1
    BY <1>1
  <2> QED BY <1>1, <2>1, <2>2, <2>3
<1> QED BY <1>1, <1>2

(* The oldest of a stage goes on, and all before it are further.           *)
LEMMA TailFacts ==
  ASSUME NEW s \in Seq(Event), s # <<>>
  PROVE  /\ Head(s) \in Event /\ Tail(s) \in Seq(Event)
         /\ ToSet(s) = {Head(s)} \union ToSet(Tail(s))
         /\ Len(Tail(s)) = Len(s) - 1 /\ Len(s) > 0
<1>1. /\ Head(s) = s[1] /\ Tail(s) \in Seq(Event) /\ Len(Tail(s)) = Len(s) - 1
      /\ Len(s) \in Nat /\ Len(s) > 0
      /\ \A i \in 1 .. Len(s) - 1 : Tail(s)[i] = s[i + 1]
  OBVIOUS
<1>2. ASSUME NEW y PROVE y \in ToSet(s) <=> y = Head(s) \/ y \in ToSet(Tail(s))
  <2>1. y \in ToSet(s) <=> \E i \in 1 .. Len(s) : s[i] = y
    BY SeqFacts
  <2>2. y \in ToSet(Tail(s)) <=> \E i \in 1 .. Len(s) - 1 : Tail(s)[i] = y
    <3>1. PICK r \in Seq(Event) : r = Tail(s)
      BY <1>1
    <3>2. y \in ToSet(r) <=> \E i \in 1 .. Len(r) : r[i] = y
      BY SeqFacts
    <3> QED BY <1>1, <3>1, <3>2
  <2>3. \A i \in 1 .. Len(s) : i = 1 \/ (i - 1 \in 1 .. Len(s) - 1 /\ i = (i - 1) + 1)
    BY <1>1
  <2>4. 1 \in 1 .. Len(s) /\ \A i \in 1 .. Len(s) - 1 : i + 1 \in 1 .. Len(s)
    BY <1>1
  <2> QED BY <1>1, <2>1, <2>2, <2>3, <2>4
<1> QED BY <1>1, <1>2, SeqFacts

LEMMA InOrderTail ==
  ASSUME NEW s \in Seq(Event), s # <<>>, NEW D, InOrder(s, D)
  PROVE  /\ InOrder(Tail(s), D \union {Head(s)})
         /\ \A e \in Event : e < Head(s) => e \in D
<1>1. /\ Head(s) = s[1] /\ Len(Tail(s)) = Len(s) - 1
      /\ Len(s) \in Nat /\ Len(s) > 0
      /\ \A i \in 1 .. Len(s) - 1 : Tail(s)[i] = s[i + 1]
  OBVIOUS
<1>2. \A e \in Event : e < Head(s) => e \in D
  <2>1. 1 \in 1 .. Len(s)
    BY <1>1
  <2> QED BY <1>1, <2>1 DEF InOrder
<1>3. InOrder(Tail(s), D \union {Head(s)})
  <2> SUFFICES ASSUME NEW i \in 1 .. Len(s) - 1, NEW e \in Event, e < Tail(s)[i],
                      e \notin D, e # Head(s)
               PROVE  \E j \in 1 .. i - 1 : Tail(s)[j] = e
    BY <1>1 DEF InOrder
  <2>1. i + 1 \in 1 .. Len(s) /\ e < s[i + 1]
    BY <1>1
  <2>2. PICK j \in 1 .. i + 1 - 1 : s[j] = e
    BY <2>1 DEF InOrder
  <2>3. j # 1 /\ j - 1 \in 1 .. i - 1 /\ j - 1 \in 1 .. Len(s) - 1
    BY <1>1, <2>2
  <2>4. Tail(s)[j - 1] = s[j - 1 + 1] /\ j - 1 + 1 = j
    BY <1>1, <2>3
  <2> QED BY <2>2, <2>3, <2>4
<1> QED BY <1>2, <1>3

(* Of a stage that is cut off, the first n events join the one before it.  *)
LEMMA InOrderCut ==
  ASSUME NEW s \in Seq(Event), NEW t \in Seq(Event), NEW D, NEW n \in 0 .. Len(t),
         InOrder(s, D), InOrder(t, D \union ToSet(s))
  PROVE  /\ s \o SubSeq(t, 1, n) \in Seq(Event)
         /\ InOrder(s \o SubSeq(t, 1, n), D)
         /\ ToSet(s \o SubSeq(t, 1, n)) = ToSet(s) \union ToSet(SubSeq(t, 1, n))
         /\ ToSet(SubSeq(t, n + 1, Len(t))) \subseteq Event
         /\ ToSet(t) = ToSet(SubSeq(t, 1, n)) \union ToSet(SubSeq(t, n + 1, Len(t)))
<1> DEFINE p == SubSeq(t, 1, n)
           q == SubSeq(t, n + 1, Len(t))
           u == s \o p
<1>1. Len(s) \in Nat /\ Len(t) \in Nat /\ n \in Nat /\ n <= Len(t)
  OBVIOUS
<1>2. p \in Seq(Event) /\ Len(p) = n /\ \A i \in 1 .. n : p[i] = t[i]
  BY <1>1, SubSeqProperties
<1>3. q \in Seq(Event) /\ Len(q) = Len(t) - n /\ \A i \in 1 .. Len(t) - n : q[i] = t[n + i]
  <2>1. n + 1 \in 1 .. Len(t) + 1 /\ Len(t) \in n + 1 - 1 .. Len(t)
    BY <1>1
  <2>2. q \in Seq(Event) /\ Len(q) = Len(t) - (n + 1) + 1
        /\ \A i \in 1 .. Len(t) - (n + 1) + 1 : q[i] = t[n + 1 + i - 1]
    BY <1>1, SubSeqProperties, SMT
  <2> QED BY <1>1, <2>2
<1>4. /\ u \in Seq(Event) /\ Len(u) = Len(s) + n
      /\ \A i \in 1 .. Len(s) : u[i] = s[i]
      /\ \A i \in 1 .. n : u[Len(s) + i] = p[i]
  <2> HIDE DEF p
  <2>1. /\ u \in Seq(Event) /\ Len(u) = Len(s) + Len(p)
        /\ \A i \in 1 .. Len(s) + Len(p) : u[i] = IF i <= Len(s) THEN s[i] ELSE p[i - Len(s)]
    BY <1>2, ConcatProperties
  <2> QED BY <1>1, <1>2, <2>1
<1> HIDE DEF p, q, u
<1>5. ToSet(u) = ToSet(s) \union ToSet(p)
  <2> SUFFICES ASSUME NEW y PROVE y \in ToSet(u) <=> y \in ToSet(s) \/ y \in ToSet(p)
    OBVIOUS
  <2>1. /\ y \in ToSet(u) <=> \E i \in 1 .. Len(s) + n : u[i] = y
        /\ y \in ToSet(s) <=> \E i \in 1 .. Len(s) : s[i] = y
        /\ y \in ToSet(p) <=> \E i \in 1 .. n : p[i] = y
    <3>1. y \in ToSet(u) <=> \E i \in 1 .. Len(u) : u[i] = y
      BY <1>4, SeqFacts
    <3>2. y \in ToSet(s) <=> \E i \in 1 .. Len(s) : s[i] = y
      BY SeqFacts
    <3>3. y \in ToSet(p) <=> \E i \in 1 .. Len(p) : p[i] = y
      BY <1>2, SeqFacts
    <3> QED BY <1>2, <1>4, <3>1, <3>2, <3>3
  <2>2. \A i \in 1 .. Len(s) + n :
          i \in 1 .. Len(s) \/ (i - Len(s) \in 1 .. n /\ i = Len(s) + (i - Len(s)))
    BY <1>1
  <2>3. (\A i \in 1 .. Len(s) : i \in 1 .. Len(s) + n)
        /\ \A i \in 1 .. n : Len(s) + i \in 1 .. Len(s) + n
    BY <1>1
  <2> QED BY <1>4, <2>1, <2>2, <2>3
<1>6. ToSet(t) = ToSet(p) \union ToSet(q)
  <2> SUFFICES ASSUME NEW y PROVE y \in ToSet(t) <=> y \in ToSet(p) \/ y \in ToSet(q)
    OBVIOUS
  <2>1. /\ y \in ToSet(t) <=> \E i \in 1 .. Len(t) : t[i] = y
        /\ y \in ToSet(p) <=> \E i \in 1 .. n : p[i] = y
        /\ y \in ToSet(q) <=> \E i \in 1 .. Len(t) - n : q[i] = y
    <3>1. y \in ToSet(t) <=> \E i \in 1 .. Len(t) : t[i] = y
      BY SeqFacts
    <3>2. y \in ToSet(p) <=> \E i \in 1 .. Len(p) : p[i] = y
      BY <1>2, SeqFacts
    <3>3. y \in ToSet(q) <=> \E i \in 1 .. Len(q) : q[i] = y
      BY <1>3, SeqFacts
    <3> QED BY <1>2, <1>3, <3>1, <3>2, <3>3
  <2>2. \A i \in 1 .. Len(t) :
          i \in 1 .. n \/ (i - n \in 1 .. Len(t) - n /\ i = n + (i - n))
    BY <1>1
  <2>3. (\A i \in 1 .. n : i \in 1 .. Len(t))
        /\ \A i \in 1 .. Len(t) - n : n + i \in 1 .. Len(t)
    BY <1>1
  <2>4. ASSUME NEW i \in 1 .. Len(t), t[i] = y PROVE y \in ToSet(p) \/ y \in ToSet(q)
    <3>1. CASE i \in 1 .. n
      BY <1>2, <2>1, <2>4, <3>1
    <3>2. CASE i - n \in 1 .. Len(t) - n /\ i = n + (i - n)
      <4>1. q[i - n] = t[n + (i - n)]
        BY <1>3, <3>2
      <4> QED BY <2>1, <2>4, <3>2, <4>1
    <3> QED BY <2>2, <3>1, <3>2
  <2>5. ASSUME NEW i \in 1 .. n, p[i] = y PROVE y \in ToSet(t)
    BY <1>2, <2>1, <2>3, <2>5
  <2>6. ASSUME NEW i \in 1 .. Len(t) - n, q[i] = y PROVE y \in ToSet(t)
    BY <1>3, <2>1, <2>3, <2>6
  <2> QED BY <2>1, <2>4, <2>5, <2>6
<1>7. InOrder(u, D)
  <2> SUFFICES ASSUME NEW i \in 1 .. Len(s) + n, NEW e \in Event, e < u[i], e \notin D
               PROVE  \E j \in 1 .. i - 1 : u[j] = e
    BY <1>4 DEF InOrder
  <2>1. CASE i \in 1 .. Len(s)
    <3>1. PICK j \in 1 .. i - 1 : s[j] = e
      BY <1>4, <2>1 DEF InOrder
    <3>2. j \in 1 .. Len(s)
      BY <1>1, <2>1
    <3> QED BY <1>4, <3>1, <3>2
  <2>2. CASE i \notin 1 .. Len(s)
    <3>1. i - Len(s) \in 1 .. n /\ i = Len(s) + (i - Len(s)) /\ i - Len(s) \in 1 .. Len(t)
      BY <1>1, <2>2
    <3>2. u[i] = t[i - Len(s)]
      BY <1>2, <1>4, <3>1
    <3>3. e \in ToSet(s) \/ \E j \in 1 .. i - Len(s) - 1 : t[j] = e
      BY <3>1, <3>2 DEF InOrder
    <3>4. CASE e \in ToSet(s)
      <4>1. PICK j \in 1 .. Len(s) : s[j] = e
        BY <3>4, SeqFacts
      <4>2. j \in 1 .. i - 1
        BY <1>1, <3>1
      <4> QED BY <1>4, <4>1, <4>2
    <3>5. CASE \E j \in 1 .. i - Len(s) - 1 : t[j] = e
      <4>1. PICK j \in 1 .. i - Len(s) - 1 : t[j] = e
        BY <3>5
      <4>2. j \in 1 .. n /\ Len(s) + j \in 1 .. i - 1
        BY <1>1, <3>1
      <4>3. u[Len(s) + j] = e
        BY <1>2, <1>4, <4>1, <4>2
      <4> QED BY <4>2, <4>3
    <3> QED BY <3>3, <3>4, <3>5
  <2> QED BY <2>1, <2>2
<1> QED BY <1>3, <1>4, <1>5, <1>6, <1>7, SeqFacts DEF p, q, u
(* A stage that ends joins the one before it as a whole.                   *)
LEMMA InOrderConcat ==
  ASSUME NEW s \in Seq(Event), NEW t \in Seq(Event), NEW D,
         InOrder(s, D), InOrder(t, D \union ToSet(s))
  PROVE  /\ s \o t \in Seq(Event)
         /\ InOrder(s \o t, D)
         /\ ToSet(s \o t) = ToSet(s) \union ToSet(t)
<1>1. Len(t) \in Nat /\ Len(t) \in 0 .. Len(t)
  OBVIOUS
<1>2. SubSeq(t, 1, Len(t)) = t
  <2>1. /\ SubSeq(t, 1, Len(t)) \in Seq(Event) /\ Len(SubSeq(t, 1, Len(t))) = Len(t)
        /\ \A i \in 1 .. Len(t) : SubSeq(t, 1, Len(t))[i] = t[i]
    BY <1>1, SubSeqProperties
  <2> QED BY <2>1, SeqEqual
<1>3. /\ s \o SubSeq(t, 1, Len(t)) \in Seq(Event)
      /\ InOrder(s \o SubSeq(t, 1, Len(t)), D)
      /\ ToSet(s \o SubSeq(t, 1, Len(t))) = ToSet(s) \union ToSet(SubSeq(t, 1, Len(t)))
  BY <1>1, InOrderCut
<1> QED BY <1>2, <1>3

==============================================================================
