----------------------------- MODULE StreamFacts -----------------------------
(***************************************************************************)
(* Facts about sequences that the proofs about the paths rest on.          *)
(***************************************************************************)
EXTENDS Integers, Sequences, SequenceTheorems, TLAPS

\* A sequence is its head followed by its tail.
LEMMA HeadThenTail ==
    ASSUME NEW S, NEW s \in Seq(S), s # <<>>
    PROVE  /\ Head(s) \in S /\ Tail(s) \in Seq(S)
           /\ s = <<Head(s)>> \o Tail(s)
<1>1. Head(s) \in S /\ Tail(s) \in Seq(S) /\ Len(Tail(s)) = Len(s) - 1
      /\ \A i \in 1..Len(Tail(s)) : Tail(s)[i] = s[i + 1]
  BY HeadTailProperties
<1>2. <<Head(s)>> \in Seq(S)
  BY <1>1
<1>3. s = <<Head(s)>> \o Tail(s)
  BY <1>1, <1>2
<1>4. QED
  BY <1>1, <1>3

\* The sequence with no tail has one element.
LEMMA NoTail ==
    ASSUME NEW S, NEW s \in Seq(S), s # <<>>, Tail(s) = <<>>
    PROVE  s = <<Head(s)>>
<1>1. s = <<Head(s)>> \o <<>> /\ Head(s) \in S
  BY HeadThenTail
<1>2. <<Head(s)>> \in Seq(S)
  BY <1>1
<1>3. <<Head(s)>> \o <<>> = <<Head(s)>>
  BY <1>2, ConcatEmptySeq
<1>4. QED
  BY <1>1, <1>3

\* Putting an element in front.
LEMMA InFront ==
    ASSUME NEW S, NEW x \in S, NEW s \in Seq(S)
    PROVE  /\ <<x>> \o s \in Seq(S)
           /\ <<x>> \o s # <<>>
           /\ Head(<<x>> \o s) = x
           /\ Tail(<<x>> \o s) = s
<1> DEFINE t == <<x>> \o s
<1>1. <<x>> \in Seq(S) /\ Len(<<x>>) = 1
  OBVIOUS
<1>2. t \in Seq(S) /\ Len(t) = Len(s) + 1 /\ t[1] = x /\ \A i \in 1..Len(s) : t[i + 1] = s[i]
  BY <1>1, ConcatProperties, LenProperties
<1>3. t # <<>>
  BY <1>2, LenProperties, EmptySeq
<1>4. Head(t) = x
  BY <1>2, <1>3
<1>5. Tail(t) \in Seq(S) /\ Len(Tail(t)) = Len(s) /\ \A i \in 1..Len(s) : Tail(t)[i] = s[i]
  <2> HIDE DEF t
  <2>1. Len(s) \in Nat
    BY LenProperties
  <2>2. QED
    BY <1>2, <1>3, <2>1, HeadTailProperties
<1>6. Tail(t) = s
  <2> HIDE DEF t
  <2>1. QED
    BY <1>5, SeqEqual
<1>7. QED
  BY <1>2, <1>3, <1>4, <1>6

\* What was there before something was put behind it is a prefix of the whole.
LEMMA PrefixOfConcat ==
    ASSUME NEW S, NEW s \in Seq(S), NEW t \in Seq(S)
    PROVE  SubSeq(s \o t, 1, Len(s)) = s
<1> DEFINE st == s \o t
<1>1. /\ st \in Seq(S) /\ Len(s) \in Nat /\ Len(t) \in Nat /\ Len(st) = Len(s) + Len(t)
      /\ \A i \in 1..Len(s) : st[i] = s[i] /\ st[i] \in S
  BY ConcatProperties, LenProperties, ElementOfSeq
<1> HIDE DEF st
<1>2. /\ SubSeq(st, 1, Len(s)) \in Seq(S)
      /\ Len(SubSeq(st, 1, Len(s))) = Len(s)
      /\ \A i \in 1..Len(s) : SubSeq(st, 1, Len(s))[i] = s[i]
  <2>1. /\ SubSeq(st, 1, Len(s)) \in Seq(S)
        /\ Len(SubSeq(st, 1, Len(s))) = IF 1 <= Len(s) THEN Len(s) - 1 + 1 ELSE 0
        /\ \A i \in 1..Len(s) - 1 + 1 : SubSeq(st, 1, Len(s))[i] = st[1 + i - 1]
    BY <1>1, SubSeqProperties
  <2>2. QED
    BY <1>1, <2>1
<1>3. QED
  BY <1>2, SeqEqual DEF st

\* A sequence is cut in two at any place.
LEMMA CutInTwo ==
    ASSUME NEW S, NEW s \in Seq(S), NEW n \in 0..Len(s)
    PROVE  /\ SubSeq(s, 1, n) \in Seq(S) /\ SubSeq(s, n + 1, Len(s)) \in Seq(S)
           /\ SubSeq(s, 1, n) \o SubSeq(s, n + 1, Len(s)) = s
           /\ Len(SubSeq(s, 1, n)) = n
<1>1. Len(s) \in Nat /\ \A i \in 1..Len(s) : s[i] \in S
  BY LenProperties, ElementOfSeq
<1>2. SubSeq(s, 1, n) \in Seq(S) /\ SubSeq(s, n + 1, Len(s)) \in Seq(S)
  BY <1>1, SubSeqProperties
<1>3. Len(SubSeq(s, 1, n)) = n
  <2>1. Len(SubSeq(s, 1, n)) = IF 1 <= n THEN n - 1 + 1 ELSE 0
    BY <1>1, SubSeqProperties
  <2>2. QED
    BY <1>1, <2>1
<1>4. SubSeq(s, 1, n) \o SubSeq(s, n + 1, Len(s)) = SubSeq(s, 1, Len(s))
  <2>1. 1 \in 1..Len(s) + 1 /\ n \in 1 - 1..Len(s) /\ Len(s) \in n..Len(s)
    BY <1>1
  <2>2. QED
    BY <2>1, ConcatAdjacentSubSeq, Zenon
<1>5. QED
  BY <1>2, <1>3, <1>4, SubSeqFull

\* Something put behind a sequence extends it.
LEMMA PutBehindExtends ==
    ASSUME NEW S, NEW s \in Seq(S), NEW t \in Seq(S), t # <<>>
    PROVE  Len(s \o t) > Len(s) /\ SubSeq(s \o t, 1, Len(s)) = s
<1>1. Len(s \o t) = Len(s) + Len(t) /\ Len(s) \in Nat
  BY ConcatProperties, LenProperties
<1>2. Len(t) \in Nat \ {0}
  BY EmptySeq
<1>3. SubSeq(s \o t, 1, Len(s)) = s
  BY PrefixOfConcat
<1>4. Len(s \o t) > Len(s)
  BY <1>1, <1>2
<1>5. QED
  BY <1>3, <1>4

\* What follows the part of a stream that has left it can leave next.
LEMMA NextLeaves ==
    ASSUME NEW S, NEW t \in Seq(S), NEW x \in Seq(S), NEW y \in Seq(S), x # <<>>
    PROVE  /\ Len(x) \in 1..(Len((t \o x) \o y) - Len(t))
           /\ t \o x = SubSeq((t \o x) \o y, 1, Len(t) + Len(x))
<1> DEFINE tx == t \o x  all == tx \o y
<1>1. tx \in Seq(S) /\ Len(tx) = Len(t) + Len(x) /\ Len(t) \in Nat
  BY ConcatProperties, LenProperties
<1>2. Len(x) \in Nat \ {0}
  BY EmptySeq
<1> HIDE DEF tx
<1>3. SubSeq(all, 1, Len(tx)) = tx /\ Len(all) = Len(tx) + Len(y) /\ Len(y) \in Nat
  BY <1>1, PrefixOfConcat, ConcatProperties, LenProperties
<1> HIDE DEF all
<1>4. Len(x) \in 1..(Len(all) - Len(t)) /\ tx = SubSeq(all, 1, Len(t) + Len(x))
  BY <1>1, <1>2, <1>3
<1>5. QED
  BY <1>4 DEF all, tx
=============================================================================
