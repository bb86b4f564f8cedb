--------------------------- MODULE SequenceFacts ---------------------------
(***************************************************************************)
(* What the proofs need to know of lists and queues, beyond the library's  *)
(* theorems: the positions, the elements and the injectivity of a list     *)
(* after an element is added, taken off the front, inserted or removed,    *)
(* and what FlattenSeq makes of a list of lists.  LeastNumber stands for   *)
(* induction.                                                              *)
(***************************************************************************)
EXTENDS Integers, Sequences, SequencesExt, SequenceTheorems, WellFoundedInduction, TLAPS

(* A set of numbers has a least one.                                       *)
LEMMA LeastNumber ==
    ASSUME NEW T, T \subseteq Nat, T # {}
    PROVE  \E x \in T : \A y \in T : x <= y
<1>1. PICK x \in T : \A y \in T : ~ (<<y, x>> \in OpToRel(<, Nat))
  BY NatLessThanWellFounded, WFMin
<1>2. \A y \in T : ~(y < x)
  BY <1>1 DEF OpToRel
<1>3. QED
  BY <1>2

(* A position of the second part of a concatenation, in the whole.         *)
LEMMA Offset ==
    ASSUME NEW a \in Nat, NEW b \in Nat, NEW n, n = a + b, NEW i \in 1 .. b
    PROVE  a + i \in 1 .. n
  OBVIOUS

(* Adding at the end of a list that is not empty does not change its       *)
(* front.                                                                  *)
LEMMA TailAppend ==
    ASSUME NEW S, NEW s \in Seq(S), NEW e \in S, s # <<>>
    PROVE  Tail(Append(s, e)) = Append(Tail(s), e) /\ Head(Append(s, e)) = Head(s)
  BY HeadTailAppend

(* Serving the front moves it from one end of the concatenation's middle   *)
(* to the other.                                                           *)
LEMMA ServeFront ==
    ASSUME NEW S, NEW s \in Seq(S), NEW q \in Seq(S), q # <<>>
    PROVE  s \o q = Append(s, Head(q)) \o Tail(q)
<1> DEFINE l == s \o q
           r == Append(s, Head(q)) \o Tail(q)
<1>1. Head(q) \in S /\ Tail(q) \in Seq(S) /\ Len(Tail(q)) = Len(q) - 1
      /\ Len(q) \in Nat \ {0} /\ Head(q) = q[1]
      /\ \A i \in 1 .. Len(q) - 1 : Tail(q)[i] = q[i + 1]
  BY HeadTailProperties, EmptySeq
<1>2. Append(s, Head(q)) \in Seq(S) /\ Len(Append(s, Head(q))) = Len(s) + 1
      /\ \A i \in 1 .. Len(s) : Append(s, Head(q))[i] = s[i]
      /\ Append(s, Head(q))[Len(s) + 1] = q[1]
  BY <1>1, AppendProperties
<1>3. l \in Seq(S) /\ Len(l) = Len(s) + Len(q)
      /\ \A i \in 1 .. Len(s) + Len(q) : l[i] = IF i <= Len(s) THEN s[i] ELSE q[i - Len(s)]
  BY ConcatProperties
<1>4. r \in Seq(S) /\ Len(r) = (Len(s) + 1) + (Len(q) - 1)
      /\ \A i \in 1 .. (Len(s) + 1) + (Len(q) - 1) :
            r[i] = IF i <= Len(s) + 1 THEN Append(s, Head(q))[i] ELSE Tail(q)[i - (Len(s) + 1)]
  BY <1>1, <1>2, ConcatProperties
<1>5. Len(s) \in Nat
  BY LenProperties
<1>6. ASSUME NEW i \in 1 .. Len(l)
      PROVE  l[i] = r[i]
  <2>1. CASE i <= Len(s)
    BY <1>1, <1>2, <1>3, <1>4, <1>5, <2>1
  <2>2. CASE i = Len(s) + 1
    BY <1>1, <1>2, <1>3, <1>4, <1>5, <2>2
  <2>3. CASE i > Len(s) + 1
    <3>1. i - (Len(s) + 1) \in 1 .. Len(q) - 1 /\ (i - (Len(s) + 1)) + 1 = i - Len(s)
      BY <1>1, <1>3, <1>5, <2>3
    <3>2. l[i] = q[i - Len(s)] /\ r[i] = Tail(q)[i - (Len(s) + 1)]
      BY <1>1, <1>3, <1>4, <1>5, <2>3
    <3>3. QED
      BY <1>1, <3>1, <3>2
  <2>4. QED
    BY <1>3, <1>5, <2>1, <2>2, <2>3
<1>7. Len(l) = Len(r)
  BY <1>1, <1>3, <1>4, <1>5
<1>8. QED
  BY <1>3, <1>4, <1>6, <1>7, SeqEqual

(* Adding at the end of the second part adds at the end of the whole.      *)
LEMMA AddAtEnd ==
    ASSUME NEW S, NEW s \in Seq(S), NEW q \in Seq(S), NEW a \in Seq(S), NEW e \in S,
           a = s \o q
    PROVE  Append(a, e) = s \o Append(q, e)
<1>1. <<e>> \in Seq(S)
  OBVIOUS
<1>2. Append(a, e) = a \o <<e>> /\ Append(q, e) = q \o <<e>>
  BY AppendIsConcat
<1>3. QED
  BY <1>1, <1>2, ConcatAssociative

(* Putting an element before a sequence and taking it off again.           *)
LEMMA HeadTailCons ==
    ASSUME NEW S, NEW e \in S, NEW s \in Seq(S)
    PROVE  /\ <<e>> \o s \in Seq(S) /\ <<e>> \o s # <<>>
           /\ Head(<<e>> \o s) = e /\ Tail(<<e>> \o s) = s
<1> DEFINE q == <<e>> \o s
<1>1. <<e>> \in Seq(S) /\ Len(<<e>>) = 1 /\ <<e>>[1] = e
  OBVIOUS
<1>2. /\ q \in Seq(S) /\ Len(q) = 1 + Len(s)
      /\ \A i \in 1 .. 1 + Len(s) : q[i] = IF i <= 1 THEN <<e>>[i] ELSE s[i - 1]
  BY <1>1, ConcatProperties
<1>3. Len(s) \in Nat
  BY LenProperties
<1>4. q # <<>> /\ q[1] = e
  BY <1>1, <1>2, <1>3, EmptySeq
<1>5. /\ Head(q) = q[1] /\ Tail(q) \in Seq(S) /\ Len(Tail(q)) = Len(q) - 1
      /\ \A i \in 1 .. Len(q) - 1 : Tail(q)[i] = q[i + 1]
  BY <1>2, <1>4, HeadTailProperties
<1>6. ASSUME NEW i \in 1 .. Len(Tail(q)) PROVE Tail(q)[i] = s[i]
  <2>1. i \in 1 .. Len(q) - 1 /\ i + 1 \in 1 .. 1 + Len(s) /\ ~(i + 1 <= 1) /\ (i + 1) - 1 = i
    BY <1>2, <1>3, <1>5
  <2>2. QED
    BY <1>2, <1>5, <2>1
<1>7. Tail(q) = s
  BY <1>2, <1>3, <1>5, <1>6, SeqEqual
<1>8. QED
  BY <1>2, <1>4, <1>5, <1>7

(* Taking the first element off and putting it back.                       *)
LEMMA ConsHeadTail ==
    ASSUME NEW S, NEW s \in Seq(S), s # <<>>
    PROVE  <<Head(s)>> \o Tail(s) = s
<1>1. <<>> \in Seq(S) /\ Head(s) \in S /\ Tail(s) \in Seq(S)
  BY EmptySeq, HeadTailProperties
<1>2. <<>> \o s = Append(<<>>, Head(s)) \o Tail(s) /\ <<>> \o s = s
  BY <1>1, ServeFront, ConcatEmptySeq
<1>3. Append(<<>>, Head(s)) = <<>> \o <<Head(s)>>
  BY <1>1, AppendIsConcat
<1>4. <<Head(s)>> \in Seq(S)
  BY <1>1
<1>5. <<>> \o <<Head(s)>> = <<Head(s)>>
  BY <1>4, ConcatEmptySeq
<1>6. QED
  BY <1>2, <1>3, <1>5

(* The elements of a list after an addition at its end.                    *)
LEMMA RangeAppend ==
    ASSUME NEW S, NEW s \in Seq(S), NEW e \in S
    PROVE  Range(Append(s, e)) = Range(s) \union {e}
<1> DEFINE q == Append(s, e)
           n == Len(s)
<1>1. /\ n \in Nat /\ DOMAIN s = 1 .. n /\ DOMAIN q = 1 .. n + 1
      /\ q[n + 1] = e /\ \A k \in 1 .. n : q[k] = s[k]
  BY AppendProperties, LenProperties
<1> HIDE DEF q, n
<1>2. ASSUME NEW k \in DOMAIN q
      PROVE  q[k] = e \/ \E l \in DOMAIN s : s[l] = q[k]
  <2>1. k = n + 1 \/ k \in 1 .. n
    BY <1>1
  <2>2. QED
    BY <1>1, <2>1
<1>3. ASSUME NEW k \in DOMAIN s
      PROVE  \E l \in DOMAIN q : q[l] = s[k]
  <2>1. k \in DOMAIN q /\ q[k] = s[k]
    BY <1>1
  <2>2. QED
    BY <2>1
<1>4. \E l \in DOMAIN q : q[l] = e
  <2>1. n + 1 \in DOMAIN q
    BY <1>1
  <2>2. QED
    BY <1>1, <2>1
<1>5. \A x : x \in Range(q) <=> x \in Range(s) \union {e}
  BY <1>2, <1>3, <1>4 DEF Range
<1>6. Range(q) = Range(s) \union {e}
  BY <1>5
<1>7. QED
  BY <1>6 DEF q

(* The elements of a list are its front and those behind it.               *)
LEMMA RangeTail ==
    ASSUME NEW S, NEW s \in Seq(S), s # <<>>
    PROVE  /\ Head(s) \in S /\ Tail(s) \in Seq(S)
           /\ Range(s) = Range(Tail(s)) \union {Head(s)}
<1> DEFINE t == Tail(s)
           n == Len(s)
<1>1. /\ n \in Nat \ {0} /\ DOMAIN s = 1 .. n /\ Head(s) = s[1]
      /\ \A k \in 1 .. n - 1 : t[k] = s[k + 1]
  BY HeadTailProperties, LenProperties, EmptySeq
<1>2. Head(s) \in S /\ t \in Seq(S) /\ DOMAIN t = 1 .. n - 1
  BY HeadTailProperties, LenProperties
<1> HIDE DEF t, n
<1>3. ASSUME NEW k \in DOMAIN s
      PROVE  s[k] = Head(s) \/ \E l \in DOMAIN t : t[l] = s[k]
  <2>1. k = 1 \/ (k - 1 \in 1 .. n - 1 /\ (k - 1) + 1 = k)
    BY <1>1
  <2>2. QED
    BY <1>1, <1>2, <2>1
<1>4. ASSUME NEW k \in DOMAIN t
      PROVE  \E l \in DOMAIN s : s[l] = t[k]
  <2>1. k + 1 \in DOMAIN s /\ t[k] = s[k + 1]
    BY <1>1, <1>2
  <2>2. QED
    BY <2>1
<1>5. \E l \in DOMAIN s : s[l] = Head(s)
  <2>1. 1 \in DOMAIN s
    BY <1>1
  <2>2. QED
    BY <1>1, <2>1
<1>6. \A x : x \in Range(s) <=> x \in Range(t) \union {Head(s)}
  BY <1>3, <1>4, <1>5 DEF Range
<1>7. Range(s) = Range(t) \union {Head(s)}
  BY <1>6
<1>8. QED
  BY <1>2, <1>7 DEF t

(* A list without duplicates has none after a new element is added.        *)
LEMMA InjectiveAppend ==
    ASSUME NEW S, NEW s \in Seq(S), NEW e \in S, IsInjective(s), e \notin Range(s)
    PROVE  IsInjective(Append(s, e))
<1> DEFINE q == Append(s, e)
           n == Len(s)
<1>1. /\ n \in Nat /\ DOMAIN s = 1 .. n /\ DOMAIN q = 1 .. n + 1
      /\ q[n + 1] = e /\ \A k \in 1 .. n : q[k] = s[k]
  BY AppendProperties, LenProperties
<1> HIDE DEF q, n
<1>2. \A k \in 1 .. n : s[k] # e
  BY <1>1 DEF Range
<1>3. ASSUME NEW k \in DOMAIN q, NEW l \in DOMAIN q, q[k] = q[l]
      PROVE  k = l
  <2>1. (k = n + 1 \/ k \in 1 .. n) /\ (l = n + 1 \/ l \in 1 .. n)
    BY <1>1
  <2>2. QED
    BY <1>1, <1>2, <1>3, <2>1 DEF IsInjective
<1>4. IsInjective(q)
  BY <1>3 DEF IsInjective
<1>5. QED
  BY <1>4 DEF q

(* Nor after its front is taken off, which is not among the rest.          *)
LEMMA InjectiveTail ==
    ASSUME NEW S, NEW s \in Seq(S), s # <<>>, IsInjective(s)
    PROVE  IsInjective(Tail(s)) /\ Head(s) \notin Range(Tail(s))
<1> DEFINE t == Tail(s)
           n == Len(s)
<1>1. /\ n \in Nat \ {0} /\ DOMAIN s = 1 .. n /\ Head(s) = s[1]
      /\ DOMAIN t = 1 .. n - 1 /\ \A k \in 1 .. n - 1 : t[k] = s[k + 1]
  BY HeadTailProperties, LenProperties, EmptySeq
<1> HIDE DEF t, n
<1>2. ASSUME NEW k \in DOMAIN t, NEW l \in DOMAIN t, t[k] = t[l]
      PROVE  k = l
  <2>1. k + 1 \in DOMAIN s /\ l + 1 \in DOMAIN s /\ s[k + 1] = s[l + 1] /\ k \in Int /\ l \in Int
    BY <1>1, <1>2
  <2>2. k + 1 = l + 1
    BY <2>1 DEF IsInjective
  <2>3. QED
    BY <2>1, <2>2
<1>3. ASSUME NEW k \in DOMAIN t
      PROVE  t[k] # Head(s)
  <2>1. k + 1 \in DOMAIN s /\ 1 \in DOMAIN s /\ t[k] = s[k + 1] /\ k + 1 # 1
    BY <1>1
  <2>2. QED
    BY <1>1, <2>1 DEF IsInjective
<1>4. IsInjective(t) /\ Head(s) \notin Range(t)
  BY <1>2, <1>3 DEF IsInjective, Range
<1>5. QED
  BY <1>4 DEF t

(* The positions of a list after the element at i is removed.              *)
LEMMA RemoveAtFacts ==
    ASSUME NEW S, NEW s \in Seq(S), NEW i \in 1 .. Len(s)
    PROVE  LET r == RemoveAt(s, i)
           IN  /\ r \in Seq(S) /\ Len(s) \in Nat /\ Len(r) = Len(s) - 1
               /\ DOMAIN r = 1 .. Len(s) - 1
               /\ \A k \in 1 .. Len(s) - 1 : r[k] = IF k < i THEN s[k] ELSE s[k + 1]
<1> DEFINE r == RemoveAt(s, i)
           n == Len(s)
           a == SubSeq(s, 1, i - 1)
           b == SubSeq(s, i + 1, n)
<1>1. n \in Nat /\ \A k \in 1 .. n : s[k] \in S
  BY LenProperties
<1>2. a \in Seq(S) /\ Len(a) = i - 1 /\ \A k \in 1 .. i - 1 : a[k] = s[k]
  <2>1. 1 \in Int /\ i - 1 \in Int /\ \A k \in 1 .. i - 1 : s[k] \in S
    BY <1>1
  <2>2. /\ a \in Seq(S) /\ Len(a) = IF 1 <= i - 1 THEN (i - 1) - 1 + 1 ELSE 0
        /\ \A k \in 1 .. (i - 1) - 1 + 1 : a[k] = s[1 + k - 1]
    BY <2>1, SubSeqProperties
  <2>3. Len(a) = i - 1
    BY <1>1, <2>2
  <2>4. ASSUME NEW k \in 1 .. i - 1 PROVE a[k] = s[k]
    <3>1. k \in 1 .. (i - 1) - 1 + 1 /\ 1 + k - 1 = k
      BY <1>1
    <3>2. a[k] = s[1 + k - 1]
      BY <2>2, <3>1
    <3>3. QED
      BY <3>1, <3>2
  <2>5. QED
    BY <2>2, <2>3, <2>4
<1>3. b \in Seq(S) /\ Len(b) = n - i /\ \A k \in 1 .. n - i : b[k] = s[i + k]
  <2>1. i + 1 \in Int /\ n \in Int /\ \A k \in i + 1 .. n : s[k] \in S
    BY <1>1
  <2>2. /\ b \in Seq(S) /\ Len(b) = IF i + 1 <= n THEN n - (i + 1) + 1 ELSE 0
        /\ \A k \in 1 .. n - (i + 1) + 1 : b[k] = s[(i + 1) + k - 1]
    BY <2>1, SubSeqProperties
  <2>3. Len(b) = n - i
    BY <1>1, <2>2
  <2>4. ASSUME NEW k \in 1 .. n - i PROVE b[k] = s[i + k]
    <3>1. k \in 1 .. n - (i + 1) + 1 /\ (i + 1) + k - 1 = i + k
      BY <1>1
    <3>2. b[k] = s[(i + 1) + k - 1]
      BY <2>2, <3>1
    <3>3. QED
      BY <3>1, <3>2
  <2>5. QED
    BY <2>2, <2>3, <2>4
<1>4. r = a \o b
  BY DEF RemoveAt
<1> HIDE DEF a, b, r, n
<1>5. /\ r \in Seq(S) /\ Len(r) = (i - 1) + (n - i)
      /\ \A k \in 1 .. (i - 1) + (n - i) : r[k] = IF k <= i - 1 THEN a[k] ELSE b[k - (i - 1)]
  BY <1>2, <1>3, <1>4, ConcatProperties
<1>6. i \in 1 .. n
  BY DEF n
<1>7. (i - 1) + (n - i) = n - 1 /\ n - 1 \in Nat
  BY <1>1, <1>6
<1>8. ASSUME NEW k \in 1 .. n - 1
      PROVE  r[k] = IF k < i THEN s[k] ELSE s[k + 1]
  <2>1. CASE k < i
    <3>1. k <= i - 1 /\ k \in 1 .. i - 1
      BY <1>1, <1>6, <2>1
    <3>2. r[k] = a[k]
      BY <1>5, <1>7, <3>1
    <3>3. QED
      BY <1>2, <2>1, <3>1, <3>2
  <2>2. CASE ~(k < i)
    <3>1. ~(k <= i - 1) /\ k - (i - 1) \in 1 .. n - i /\ i + (k - (i - 1)) = k + 1
      BY <1>1, <1>6, <2>2
    <3>2. r[k] = b[k - (i - 1)]
      BY <1>5, <1>7, <3>1
    <3>3. b[k - (i - 1)] = s[i + (k - (i - 1))]
      BY <1>3, <3>1
    <3>4. QED
      BY <2>2, <3>1, <3>2, <3>3
  <2>3. QED
    BY <2>1, <2>2
<1>9. DOMAIN r = 1 .. n - 1
  BY <1>5, <1>7, LenProperties
<1>10. QED
  BY <1>1, <1>5, <1>7, <1>8, <1>9 DEF r, n

(* The positions of a list after e is inserted before position i.          *)
LEMMA InsertAtFacts ==
    ASSUME NEW S, NEW s \in Seq(S), NEW e \in S, NEW i \in 1 .. Len(s) + 1
    PROVE  LET r == InsertAt(s, i, e)
           IN  /\ r \in Seq(S) /\ Len(s) \in Nat /\ Len(r) = Len(s) + 1
               /\ DOMAIN r = 1 .. Len(s) + 1
               /\ r[i] = e
               /\ \A k \in 1 .. Len(s) : k < i => r[k] = s[k]
               /\ \A k \in 1 .. Len(s) : k >= i => r[k + 1] = s[k]
<1> DEFINE r == InsertAt(s, i, e)
           n == Len(s)
           a == SubSeq(s, 1, i - 1)
           b == SubSeq(s, i, n)
           c == a \o <<e>>
<1>1. n \in Nat /\ \A k \in 1 .. n : s[k] \in S
  BY LenProperties
<1>2. a \in Seq(S) /\ Len(a) = i - 1 /\ \A k \in 1 .. i - 1 : a[k] = s[k]
  <2>1. 1 \in Int /\ i - 1 \in Int /\ \A k \in 1 .. i - 1 : s[k] \in S
    BY <1>1
  <2>2. /\ a \in Seq(S) /\ Len(a) = IF 1 <= i - 1 THEN (i - 1) - 1 + 1 ELSE 0
        /\ \A k \in 1 .. (i - 1) - 1 + 1 : a[k] = s[1 + k - 1]
    BY <2>1, SubSeqProperties
  <2>3. Len(a) = i - 1
    BY <1>1, <2>2
  <2>4. ASSUME NEW k \in 1 .. i - 1 PROVE a[k] = s[k]
    <3>1. k \in 1 .. (i - 1) - 1 + 1 /\ 1 + k - 1 = k
      BY <1>1
    <3>2. a[k] = s[1 + k - 1]
      BY <2>2, <3>1
    <3>3. QED
      BY <3>1, <3>2
  <2>5. QED
    BY <2>2, <2>3, <2>4
<1>3. b \in Seq(S) /\ Len(b) = n - i + 1 /\ \A k \in 1 .. n - i + 1 : b[k] = s[i + k - 1]
  <2>1. i \in Int /\ n \in Int /\ \A k \in i .. n : s[k] \in S
    BY <1>1
  <2>2. /\ b \in Seq(S) /\ Len(b) = IF i <= n THEN n - i + 1 ELSE 0
        /\ \A k \in 1 .. n - i + 1 : b[k] = s[i + k - 1]
    BY <2>1, SubSeqProperties
  <2>3. Len(b) = n - i + 1
    BY <1>1, <2>2
  <2>4. QED
    BY <2>2, <2>3
<1>4. r = c \o b
  BY DEF InsertAt
<1>5. c = Append(a, e)
  BY <1>2, AppendIsConcat
<1> HIDE DEF a, b, c, r, n
<1>6. /\ c \in Seq(S) /\ Len(c) = (i - 1) + 1 /\ c[(i - 1) + 1] = e
      /\ \A k \in 1 .. i - 1 : c[k] = a[k]
  BY <1>2, <1>5, AppendProperties
<1>7. i \in 1 .. n + 1 /\ i \in Int
  BY <1>1 DEF n
<1>8. Len(c) = i /\ c[i] = e /\ \A k \in 1 .. i - 1 : c[k] = s[k]
  BY <1>2, <1>6, <1>7
<1>9. /\ r \in Seq(S) /\ Len(r) = i + (n - i + 1)
      /\ \A k \in 1 .. i + (n - i + 1) : r[k] = IF k <= i THEN c[k] ELSE b[k - i]
  <2>1. c \in Seq(S) /\ b \in Seq(S) /\ Len(c) = i /\ Len(b) = n - i + 1
    BY <1>3, <1>6, <1>8
  <2>2. /\ r \in Seq(S) /\ Len(r) = Len(c) + Len(b)
        /\ \A k \in 1 .. Len(c) + Len(b) : r[k] = IF k <= Len(c) THEN c[k] ELSE b[k - Len(c)]
    BY <1>4, <2>1, ConcatProperties
  <2>3. QED
    BY <2>1, <2>2
<1>10. i + (n - i + 1) = n + 1
  BY <1>1, <1>7
<1>11. \A k \in 1 .. n + 1 : r[k] = IF k <= i THEN c[k] ELSE b[k - i]
  BY <1>9, <1>10
<1>12. r[i] = e
  BY <1>7, <1>8, <1>11
<1>13. ASSUME NEW k \in 1 .. n, k < i PROVE r[k] = s[k]
  <2>1. k \in 1 .. n + 1 /\ k <= i /\ k \in 1 .. i - 1
    BY <1>1, <1>7, <1>13
  <2>2. QED
    BY <1>8, <1>11, <2>1
<1>14. ASSUME NEW k \in 1 .. n, k >= i PROVE r[k + 1] = s[k]
  <2>1. /\ k + 1 \in 1 .. n + 1 /\ ~(k + 1 <= i) /\ (k + 1) - i \in 1 .. n - i + 1
        /\ i + ((k + 1) - i) - 1 = k
    BY <1>1, <1>7, <1>14
  <2>2. r[k + 1] = b[(k + 1) - i]
    BY <1>11, <2>1
  <2>3. b[(k + 1) - i] = s[i + ((k + 1) - i) - 1]
    BY <1>3, <2>1
  <2>4. QED
    BY <2>1, <2>2, <2>3
<1>15. DOMAIN r = 1 .. n + 1 /\ Len(r) = n + 1
  BY <1>9, <1>10, LenProperties
<1>16. /\ r \in Seq(S) /\ n \in Nat /\ Len(r) = n + 1 /\ DOMAIN r = 1 .. n + 1 /\ r[i] = e
       /\ \A k \in 1 .. n : k < i => r[k] = s[k]
       /\ \A k \in 1 .. n : k >= i => r[k + 1] = s[k]
  <2>1. \A k \in 1 .. n : k < i => r[k] = s[k]
    BY <1>13
  <2>2. \A k \in 1 .. n : k >= i => r[k + 1] = s[k]
    BY <1>14
  <2>3. r \in Seq(S)
    BY <1>9
  <2>4. QED
    BY <1>1, <1>12, <1>15, <2>1, <2>2, <2>3
<1>17. QED
  BY <1>16 DEF r, n

(* Removing from a list without duplicates removes the element.            *)
LEMMA RemoveAtRange ==
    ASSUME NEW S, NEW s \in Seq(S), NEW i \in 1 .. Len(s), IsInjective(s)
    PROVE  IsInjective(RemoveAt(s, i)) /\ Range(RemoveAt(s, i)) = Range(s) \ {s[i]}
<1> DEFINE r == RemoveAt(s, i)
           n == Len(s)
<1>1. /\ n \in Nat /\ i \in 1 .. n /\ DOMAIN s = 1 .. n /\ DOMAIN r = 1 .. n - 1
      /\ \A k \in 1 .. n - 1 : r[k] = IF k < i THEN s[k] ELSE s[k + 1]
  BY RemoveAtFacts, LenProperties
<1>2. \A k, l \in 1 .. n : s[k] = s[l] => k = l
  BY <1>1 DEF IsInjective
<1> HIDE DEF r, n
<1>3. ASSUME NEW k \in DOMAIN r, NEW l \in DOMAIN r, r[k] = r[l]
      PROVE  k = l
  <2>1. k \in 1 .. n - 1 /\ l \in 1 .. n - 1 /\ k \in 1 .. n /\ l \in 1 .. n
        /\ k + 1 \in 1 .. n /\ l + 1 \in 1 .. n
    BY <1>1
  <2>2. CASE k < i /\ l < i
    BY <1>1, <1>2, <1>3, <2>1, <2>2
  <2>3. CASE k < i /\ ~(l < i)
    <3>1. s[k] = s[l + 1]
      BY <1>1, <1>3, <2>1, <2>3
    <3>2. k = l + 1
      BY <1>2, <2>1, <3>1
    <3>3. QED
      BY <1>1, <2>1, <2>3, <3>2
  <2>4. CASE ~(k < i) /\ l < i
    <3>1. s[k + 1] = s[l]
      BY <1>1, <1>3, <2>1, <2>4
    <3>2. k + 1 = l
      BY <1>2, <2>1, <3>1
    <3>3. QED
      BY <1>1, <2>1, <2>4, <3>2
  <2>5. CASE ~(k < i) /\ ~(l < i)
    <3>1. s[k + 1] = s[l + 1]
      BY <1>1, <1>3, <2>1, <2>5
    <3>2. k + 1 = l + 1
      BY <1>2, <2>1, <3>1
    <3>3. QED
      BY <2>1, <3>2
  <2>6. QED
    BY <2>2, <2>3, <2>4, <2>5
<1>4. ASSUME NEW k \in DOMAIN r
      PROVE  r[k] # s[i] /\ \E l \in DOMAIN s : s[l] = r[k]
  <2>1. k \in 1 .. n - 1 /\ k \in 1 .. n /\ k + 1 \in 1 .. n
    BY <1>1
  <2>2. CASE k < i
    <3>1. r[k] = s[k] /\ k # i
      BY <1>1, <2>1, <2>2
    <3>2. QED
      BY <1>1, <1>2, <2>1, <3>1
  <2>3. CASE ~(k < i)
    <3>1. r[k] = s[k + 1] /\ k + 1 # i
      BY <1>1, <2>1, <2>3
    <3>2. QED
      BY <1>1, <1>2, <2>1, <3>1
  <2>4. QED
    BY <2>2, <2>3
<1>5. ASSUME NEW k \in DOMAIN s, s[k] # s[i]
      PROVE  \E l \in DOMAIN r : r[l] = s[k]
  <2>1. k \in 1 .. n /\ k # i
    BY <1>1, <1>5
  <2>2. CASE k < i
    <3>1. k \in 1 .. n - 1 /\ r[k] = s[k]
      BY <1>1, <2>1, <2>2
    <3>2. QED
      BY <1>1, <3>1
  <2>3. CASE k > i
    <3>1. k - 1 \in 1 .. n - 1 /\ ~(k - 1 < i) /\ (k - 1) + 1 = k
      BY <1>1, <2>1, <2>3
    <3>2. r[k - 1] = s[k]
      BY <1>1, <3>1
    <3>3. QED
      BY <1>1, <3>1, <3>2
  <2>4. QED
    BY <1>1, <2>1, <2>2, <2>3
<1>6. \A x : x \in Range(r) <=> x \in Range(s) \ {s[i]}
  BY <1>4, <1>5 DEF Range
<1>7. IsInjective(r) /\ Range(r) = Range(s) \ {s[i]}
  BY <1>3, <1>6 DEF IsInjective
<1>8. QED
  BY <1>7 DEF r

(* Inserting a new element adds it and makes no duplicate.                 *)
LEMMA InsertAtRange ==
    ASSUME NEW S, NEW s \in Seq(S), NEW e \in S, NEW i \in 1 .. Len(s) + 1,
           IsInjective(s), e \notin Range(s)
    PROVE  IsInjective(InsertAt(s, i, e)) /\ Range(InsertAt(s, i, e)) = Range(s) \union {e}
<1> DEFINE r == InsertAt(s, i, e)
           n == Len(s)
<1>1. /\ n \in Nat /\ i \in 1 .. n + 1 /\ DOMAIN s = 1 .. n /\ DOMAIN r = 1 .. n + 1
      /\ r[i] = e
      /\ \A k \in 1 .. n : k < i => r[k] = s[k]
      /\ \A k \in 1 .. n : k >= i => r[k + 1] = s[k]
  BY InsertAtFacts, LenProperties
<1>2. \A k, l \in 1 .. n : s[k] = s[l] => k = l
  BY <1>1 DEF IsInjective
<1>3. \A k \in 1 .. n : s[k] # e
  BY <1>1 DEF Range
<1> HIDE DEF r, n
<1>4. ASSUME NEW k \in DOMAIN r
      PROVE  /\ k \in Int /\ (k = i \/ k < i \/ k > i)
             /\ k = i => r[k] = e
             /\ k < i => k \in 1 .. n /\ r[k] = s[k]
             /\ k > i => k - 1 \in 1 .. n /\ r[k] = s[k - 1]
  <2>0. k \in Int /\ (k = i \/ k < i \/ k > i)
    BY <1>1
  <2>1. ASSUME k > i
        PROVE  k - 1 \in 1 .. n /\ r[k] = s[k - 1]
    <3>1. k - 1 \in 1 .. n /\ k - 1 >= i /\ (k - 1) + 1 = k
      BY <1>1, <2>1
    <3>2. QED
      BY <1>1, <3>1
  <2>2. ASSUME k < i
        PROVE  k \in 1 .. n /\ r[k] = s[k]
    BY <1>1, <2>2
  <2>3. QED
    BY <1>1, <2>0, <2>1, <2>2
<1>5. ASSUME NEW k \in DOMAIN r, NEW l \in DOMAIN r, r[k] = r[l]
      PROVE  k = l
  <2> DEFINE K == IF k < i THEN k ELSE k - 1
             L == IF l < i THEN l ELSE l - 1
  <2>1. k # i => K \in 1 .. n /\ r[k] = s[K] /\ r[k] # e
    BY <1>1, <1>3, <1>4
  <2>2. l # i => L \in 1 .. n /\ r[l] = s[L] /\ r[l] # e
    BY <1>1, <1>3, <1>4
  <2>3. k \in Int /\ l \in Int /\ i \in Int /\ (k = i => r[k] = e) /\ (l = i => r[l] = e)
    BY <1>1, <1>4
  <2>4. CASE k = i
    BY <1>5, <2>2, <2>3, <2>4
  <2>5. CASE k # i
    <3>1. l # i
      BY <1>5, <2>1, <2>3, <2>5
    <3>2. K = L
      <4> HIDE DEF K, L
      <4> QED BY <1>2, <1>5, <2>1, <2>2, <2>5, <3>1
    <3>3. QED
      BY <2>3, <2>5, <3>1, <3>2
  <2>6. QED
    BY <2>4, <2>5
<1>6. ASSUME NEW k \in DOMAIN s
      PROVE  \E l \in DOMAIN r : r[l] = s[k]
  <2>1. CASE k < i
    <3>1. k \in DOMAIN r /\ r[k] = s[k]
      BY <1>1, <2>1
    <3>2. QED
      BY <3>1
  <2>2. CASE k >= i
    <3>1. k + 1 \in DOMAIN r /\ r[k + 1] = s[k]
      BY <1>1, <2>2
    <3>2. QED
      BY <3>1
  <2>3. QED
    BY <1>1, <2>1, <2>2
<1>7. \A k \in DOMAIN r : r[k] = e \/ \E l \in DOMAIN s : s[l] = r[k]
  BY <1>1, <1>4
<1>8. i \in DOMAIN r /\ r[i] = e
  BY <1>1
<1>9. \A x : x \in Range(r) <=> x \in Range(s) \union {e}
  BY <1>6, <1>7, <1>8 DEF Range
<1>10. IsInjective(r) /\ Range(r) = Range(s) \union {e}
  BY <1>5, <1>9 DEF IsInjective
<1>11. QED
  BY <1>10 DEF r

(* FlattenSeq is defined along its list.  Such a function exists: take the *)
(* least length at which there is none.                                    *)
LEMMA FlattenExists ==
    ASSUME NEW ss, NEW n \in Nat
    PROVE  \E f : f = [i \in 1 .. n |-> IF i = 1 THEN ss[i] ELSE f[i - 1] \o ss[i]]
<1> DEFINE Is(f, k) == f = [i \in 1 .. k |-> IF i = 1 THEN ss[i] ELSE f[i - 1] \o ss[i]]
           Bad == {k \in Nat : ~\E f : Is(f, k)}
<1> HIDE DEF Is
<1>1. CASE Bad # {}
  <2>1. PICK m \in Bad : \A k \in Bad : m <= k
    <3>1. PICK B : B = Bad
      OBVIOUS
    <3>2. B \subseteq Nat /\ B # {}
      BY <1>1, <3>1
    <3>3. \E m \in B : \A k \in B : m <= k
      <4> HIDE DEF Bad
      <4> QED BY <3>2, LeastNumber
    <3>4. QED
      BY <3>1, <3>3
  <2>2. m \in Nat /\ ~\E f : Is(f, m)
    BY <2>1
  <2>3. CASE m = 0
    <3>1. PICK z : z = [i \in 1 .. 0 |-> ss[i]]
      OBVIOUS
    <3>2. 1 .. 0 = {}
      OBVIOUS
    <3>3. Is(z, 0)
      BY <3>1, <3>2 DEF Is
    <3>4. QED
      BY <2>2, <2>3, <3>3
  <2>4. CASE m # 0
    <3>1. m - 1 \in Nat /\ ~(m <= m - 1)
      BY <2>2, <2>4
    <3>2. m - 1 \notin Bad
      BY <2>1, <3>1
    <3>3. PICK f : Is(f, m - 1)
      BY <3>1, <3>2
    <3>4. PICK g : g = [i \in 1 .. m |-> IF i \in 1 .. m - 1 THEN f[i]
                                         ELSE IF i = 1 THEN ss[i] ELSE f[i - 1] \o ss[i]]
      OBVIOUS
    <3>5. ASSUME NEW i \in 1 .. m
          PROVE  g[i] = IF i = 1 THEN ss[i] ELSE g[i - 1] \o ss[i]
      <4>1. CASE i \in 1 .. m - 1
        <5>1. g[i] = f[i] /\ f[i] = IF i = 1 THEN ss[i] ELSE f[i - 1] \o ss[i]
          BY <3>3, <3>4, <4>1 DEF Is
        <5>2. i # 1 => g[i - 1] = f[i - 1]
          <6>1. i # 1 => i - 1 \in 1 .. m - 1 /\ i - 1 \in 1 .. m
            BY <2>2, <4>1
          <6>2. QED
            BY <3>4, <6>1
        <5>3. QED
          BY <5>1, <5>2
      <4>2. CASE i \notin 1 .. m - 1
        <5>1. g[i] = IF i = 1 THEN ss[i] ELSE f[i - 1] \o ss[i]
          BY <3>4, <4>2
        <5>2. i # 1 => g[i - 1] = f[i - 1]
          <6>1. i # 1 => i - 1 \in 1 .. m - 1 /\ i - 1 \in 1 .. m
            BY <2>2, <4>2
          <6>2. QED
            BY <3>4, <6>1
        <5>3. QED
          BY <5>1, <5>2
      <4>3. QED
        BY <4>1, <4>2
    <3>6. g = [i \in 1 .. m |-> g[i]]
      BY <3>4
    <3>7. Is(g, m)
      BY <3>5, <3>6 DEF Is
    <3>8. QED
      BY <2>2, <3>7
  <2>5. QED
    BY <2>3, <2>4
<1>2. CASE Bad = {}
  BY <1>2 DEF Is
<1>3. QED
  BY <1>1, <1>2

(* FlattenSeq, one list more.                                              *)
LEMMA FlattenAppend ==
    ASSUME NEW X, NEW ss \in Seq(Seq(X)), NEW s \in Seq(X)
    PROVE  /\ FlattenSeq(ss) \in Seq(X)
           /\ FlattenSeq(Append(ss, s)) = FlattenSeq(ss) \o s
<1>1. PICK n : n = Len(ss)
  OBVIOUS
<1>2. PICK t : t = Append(ss, s)
  OBVIOUS
<1>3. /\ n \in Nat /\ Len(t) = n + 1 /\ t[n + 1] = s
      /\ \A i \in 1 .. n : t[i] = ss[i] /\ ss[i] \in Seq(X)
  BY <1>1, <1>2, AppendProperties, LenProperties
<1>4. PICK G : G = CHOOSE f : f = [i \in 1 .. n |-> IF i = 1 THEN ss[i] ELSE f[i - 1] \o ss[i]]
  OBVIOUS
<1>5. PICK F : F = CHOOSE f : f = [i \in 1 .. n + 1 |-> IF i = 1 THEN t[i] ELSE f[i - 1] \o t[i]]
  OBVIOUS
<1>6. /\ n # 0 => FlattenSeq(ss) = G[n]
      /\ n = 0 => FlattenSeq(ss) = ss
  BY <1>1, <1>4 DEF FlattenSeq
<1>7. FlattenSeq(t) = F[n + 1]
  <2>1. Len(t) # 0
    BY <1>3
  <2>2. FlattenSeq(t) = (CHOOSE f : f = [i \in 1 .. Len(t) |-> IF i = 1 THEN t[i] ELSE f[i - 1] \o t[i]])[Len(t)]
    BY <2>1 DEF FlattenSeq
  <2>3. QED
    BY <1>3, <1>5, <2>2
<1>8. \A i \in 1 .. n : G[i] = IF i = 1 THEN ss[i] ELSE G[i - 1] \o ss[i]
  <2>1. \E f : f = [i \in 1 .. n |-> IF i = 1 THEN ss[i] ELSE f[i - 1] \o ss[i]]
    BY <1>3, FlattenExists
  <2>2. G = [i \in 1 .. n |-> IF i = 1 THEN ss[i] ELSE G[i - 1] \o ss[i]]
    BY <1>4, <2>1
  <2>3. QED
    BY <2>2
<1>9. \A i \in 1 .. n + 1 : F[i] = IF i = 1 THEN t[i] ELSE F[i - 1] \o t[i]
  <2>1. n + 1 \in Nat
    BY <1>3
  <2>2. \E f : f = [i \in 1 .. n + 1 |-> IF i = 1 THEN t[i] ELSE f[i - 1] \o t[i]]
    BY <2>1, FlattenExists
  <2>3. F = [i \in 1 .. n + 1 |-> IF i = 1 THEN t[i] ELSE F[i - 1] \o t[i]]
    BY <1>5, <2>2
  <2>4. QED
    BY <2>3
<1>10. \A i \in 1 .. n : F[i] = G[i] /\ G[i] \in Seq(X)
  <2> DEFINE Good(i) == F[i] = G[i] /\ G[i] \in Seq(X)
  <2> HIDE DEF Good
  <2>1. PICK Bad : Bad = {i \in 1 .. n : ~Good(i)}
    OBVIOUS
  <2>2. CASE Bad # {}
    <3>1. Bad \subseteq Nat
      BY <1>3, <2>1
    <3>2. PICK m \in Bad : \A k \in Bad : m <= k
      BY <2>2, <3>1, LeastNumber
    <3>3. m \in 1 .. n /\ m \in 1 .. n + 1 /\ t[m] = ss[m] /\ ss[m] \in Seq(X) /\ ~Good(m)
      BY <1>3, <2>1, <3>2
    <3>4. CASE m = 1
      <4>1. F[m] = t[m] /\ G[m] = ss[m]
        BY <1>8, <1>9, <3>3, <3>4
      <4>2. QED
        BY <3>3, <4>1 DEF Good
    <3>5. CASE m # 1
      <4>1. m - 1 \in 1 .. n /\ ~(m <= m - 1)
        BY <1>3, <3>3, <3>5
      <4>2. Good(m - 1)
        BY <2>1, <3>2, <4>1
      <4>3. F[m] = F[m - 1] \o t[m] /\ G[m] = G[m - 1] \o ss[m]
        BY <1>8, <1>9, <3>3, <3>5
      <4>4. G[m - 1] \o ss[m] \in Seq(X)
        BY <3>3, <4>2, ConcatProperties DEF Good
      <4>5. Good(m)
        BY <3>3, <4>2, <4>3, <4>4 DEF Good
      <4>6. QED
        BY <3>3, <4>5
    <3>6. QED
      BY <3>4, <3>5
  <2>3. CASE Bad = {}
    BY <2>1, <2>3 DEF Good
  <2>4. QED
    BY <2>2, <2>3
<1>11. CASE n = 0
  <2>1. ss = <<>> /\ FlattenSeq(ss) = <<>>
    BY <1>1, <1>6, <1>11, EmptySeq
  <2>2. F[1] = t[1] /\ t[1] = s
    BY <1>3, <1>9, <1>11
  <2>3. FlattenSeq(t) = s
    BY <1>7, <1>11, <2>2
  <2>4. <<>> \o s = s /\ <<>> \in Seq(X)
    BY ConcatEmptySeq
  <2>5. QED
    BY <1>2, <2>1, <2>3, <2>4
<1>12. CASE n # 0
  <2>1. n \in 1 .. n /\ n + 1 \in 1 .. n + 1 /\ n + 1 # 1 /\ (n + 1) - 1 = n
    BY <1>3, <1>12
  <2>2. F[n + 1] = F[n] \o s
    BY <1>3, <1>9, <2>1
  <2>3. F[n] = G[n] /\ G[n] \in Seq(X)
    BY <1>10, <2>1
  <2>4. QED
    BY <1>2, <1>6, <1>7, <1>12, <2>2, <2>3
<1>13. QED
  BY <1>11, <1>12
=============================================================================
