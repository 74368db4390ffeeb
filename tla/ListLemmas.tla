------------------------------ MODULE ListLemmas ------------------------------
(***************************************************************************)
(* Lists as sets.  The vectors, queues and lists of the program are read   *)
(* as sets and are free of duplicates; these lemmas say what Append, Tail, *)
(* cutting in two and removing a place do to both.  The last lemma is      *)
(* about the lowest of a set of descriptors.                               *)
(***************************************************************************)
EXTENDS Integers, Sequences, Functions, SequenceTheorems, WellFoundedInduction,
        TLAPS

\* The members of a sequence are the values at 1 .. Len.
LEMMA RangeMember ==
  ASSUME NEW S, NEW s \in Seq(S), NEW e
  PROVE  e \in Range(s) <=> \E j \in 1 .. Len(s) : s[j] = e
  BY DEF Range

\* Append adds one member; without duplicates if the member is new.
LEMMA AppendMembers ==
  ASSUME NEW S, NEW s \in Seq(S), NEW e \in S
  PROVE  /\ Append(s, e) \in Seq(S)
         /\ Range(Append(s, e)) = Range(s) \cup {e}
         /\ IsInjective(s) /\ e \notin Range(s) => IsInjective(Append(s, e))
<1> DEFINE t == Append(s, e)
<1>1. /\ t \in Seq(S)
      /\ Len(t) = Len(s) + 1
      /\ \A j \in 1 .. Len(s) : t[j] = s[j]
      /\ t[Len(s) + 1] = e
  BY AppendProperties
<1>2. /\ DOMAIN s = 1 .. Len(s)
      /\ DOMAIN t = 1 .. Len(s) + 1
      /\ Len(s) \in Nat
  BY <1>1
<1> HIDE DEF t
<1>3. Range(t) = Range(s) \cup {e}
  BY <1>1, <1>2 DEF Range
<1>4. IsInjective(s) /\ e \notin Range(s) => IsInjective(t)
  BY <1>1, <1>2 DEF Range, IsInjective
<1> QED  BY <1>1, <1>3, <1>4 DEF t

\* Tail takes out the head; with no duplicates the head is gone.
LEMMA TailMembers ==
  ASSUME NEW S, NEW s \in Seq(S), s # <<>>
  PROVE  /\ Head(s) \in S
         /\ Head(s) = s[1]
         /\ Tail(s) \in Seq(S)
         /\ Range(s) = Range(Tail(s)) \cup {Head(s)}
         /\ IsInjective(s) => /\ IsInjective(Tail(s))
                              /\ Head(s) \notin Range(Tail(s))
<1> DEFINE t == Tail(s)
<1>1. /\ Len(s) \in Nat /\ Len(s) > 0
      /\ t \in Seq(S)
      /\ Len(t) = Len(s) - 1
      /\ \A j \in 1 .. Len(t) : t[j] = s[j + 1]
      /\ Head(s) = s[1]
  BY HeadTailProperties, EmptySeq
<1>2. /\ DOMAIN s = 1 .. Len(s)
      /\ DOMAIN t = 1 .. Len(s) - 1
  BY <1>1
<1>3. Head(s) \in S
  BY <1>1, <1>2
<1> HIDE DEF t
<1>4. ASSUME NEW e  PROVE e \in Range(s) <=> e \in Range(t) \cup {s[1]}
  <2>1. e \in Range(s) <=> \E j \in 1 .. Len(s) : s[j] = e
    BY <1>2 DEF Range
  <2>2. e \in Range(t) <=> \E j \in 1 .. Len(s) - 1 : s[j + 1] = e
    BY <1>1, <1>2 DEF Range
  <2>3. ASSUME NEW j \in 1 .. Len(s), s[j] = e, e # s[1]
        PROVE  \E i \in 1 .. Len(s) - 1 : s[i + 1] = e
    <3>1. j - 1 \in 1 .. Len(s) - 1 /\ (j - 1) + 1 = j
      BY <1>1, <2>3
    <3> QED  BY <3>1, <2>3
  <2>4. ASSUME NEW i \in 1 .. Len(s) - 1, s[i + 1] = e
        PROVE  \E j \in 1 .. Len(s) : s[j] = e
    <3>1. i + 1 \in 1 .. Len(s)
      BY <1>1
    <3> QED  BY <3>1, <2>4
  <2>5. 1 \in 1 .. Len(s)
    BY <1>1
  <2> QED  BY <2>1, <2>2, <2>3, <2>4, <2>5
<1>5. ASSUME IsInjective(s)
      PROVE  IsInjective(t) /\ s[1] \notin Range(t)
  <2>1. ASSUME NEW i \in 1 .. Len(s) - 1, NEW j \in 1 .. Len(s) - 1, t[i] = t[j]
        PROVE  i = j
    <3>1. i + 1 \in 1 .. Len(s) /\ j + 1 \in 1 .. Len(s)
      BY <1>1
    <3>2. s[i + 1] = s[j + 1]
      BY <1>1, <2>1
    <3>3. i + 1 = j + 1
      BY <3>1, <3>2, <1>2, <1>5 DEF IsInjective
    <3> QED  BY <3>3
  <2>2. ASSUME NEW i \in 1 .. Len(s) - 1, t[i] = s[1]
        PROVE  FALSE
    <3>1. i + 1 \in 1 .. Len(s) /\ 1 \in 1 .. Len(s) /\ i + 1 # 1
      BY <1>1
    <3>2. s[i + 1] = s[1]
      BY <1>1, <2>2
    <3> QED  BY <3>1, <3>2, <1>2, <1>5 DEF IsInjective
  <2> QED  BY <2>1, <2>2, <1>2 DEF Range, IsInjective
<1> QED  BY <1>1, <1>3, <1>4, <1>5 DEF t

\* The two parts of a sequence cut after n places, place by place.
LEMMA SplitPlaces ==
  ASSUME NEW S, NEW s \in Seq(S), NEW n \in 0 .. Len(s)
  PROVE  LET a == SubSeq(s, 1, n)
             b == SubSeq(s, n + 1, Len(s))
         IN  /\ a \in Seq(S) /\ Len(a) = n
             /\ \A j \in 1 .. n : a[j] = s[j]
             /\ b \in Seq(S) /\ Len(b) = Len(s) - n
             /\ \A j \in 1 .. Len(s) - n : b[j] = s[n + j]
<1> DEFINE a == SubSeq(s, 1, n)
           b == SubSeq(s, n + 1, Len(s))
<1>1. Len(s) \in Nat /\ DOMAIN s = 1 .. Len(s)
  OBVIOUS
<1>2. /\ a \in Seq(S) /\ Len(a) = n
      /\ \A j \in 1 .. n : a[j] = s[j]
  BY <1>1, SubSeqProperties
<1>3. /\ b \in Seq(S) /\ Len(b) = Len(s) - n
      /\ \A j \in 1 .. Len(s) - n : b[j] = s[n + j]
  <2>1. \A i \in n + 1 .. Len(s) : s[i] \in S
    BY <1>1
  <2>2. /\ b \in Seq(S)
        /\ Len(b) = IF n + 1 <= Len(s) THEN Len(s) - (n + 1) + 1 ELSE 0
        /\ \A i \in 1 .. Len(s) - (n + 1) + 1 : b[i] = s[(n + 1) + i - 1]
    BY <1>1, <2>1, SubSeqProperties
  <2> HIDE DEF b
  <2>3. Len(s) - (n + 1) + 1 = Len(s) - n
    BY <1>1
  <2>4. \A i \in 1 .. Len(s) - n : (n + 1) + i - 1 = n + i
    BY <1>1
  <2>5. (IF n + 1 <= Len(s) THEN Len(s) - (n + 1) + 1 ELSE 0) = Len(s) - n
    <3>1. ASSUME NEW m \in Nat, NEW k \in 0 .. m
          PROVE  (IF k + 1 <= m THEN m - (k + 1) + 1 ELSE 0) = m - k
      OBVIOUS
    <3> QED  BY <1>1, <3>1
  <2> QED  BY <2>2, <2>3, <2>4, <2>5
<1> QED  BY <1>2, <1>3

\* A sequence cut in two: the parts have its members, and no duplicates when
\* it has none.
LEMMA SplitMembers ==
  ASSUME NEW S, NEW s \in Seq(S), NEW n \in 0 .. Len(s)
  PROVE  LET a == SubSeq(s, 1, n)
             b == SubSeq(s, n + 1, Len(s))
         IN  /\ a \in Seq(S) /\ b \in Seq(S)
             /\ Len(a) = n
             /\ Range(s) = Range(a) \cup Range(b)
             /\ IsInjective(s) => IsInjective(a) /\ IsInjective(b)
<1> DEFINE a == SubSeq(s, 1, n)
           b == SubSeq(s, n + 1, Len(s))
<1>1. Len(s) \in Nat /\ DOMAIN s = 1 .. Len(s)
  OBVIOUS
<1>2. /\ a \in Seq(S) /\ Len(a) = n
      /\ \A j \in 1 .. n : a[j] = s[j]
  BY SplitPlaces
<1>3. /\ b \in Seq(S) /\ Len(b) = Len(s) - n
      /\ \A j \in 1 .. Len(s) - n : b[j] = s[n + j]
  BY SplitPlaces
<1>4. DOMAIN a = 1 .. n /\ DOMAIN b = 1 .. Len(s) - n
  BY <1>2, <1>3
<1> HIDE DEF a, b
<1>5. ASSUME NEW e  PROVE e \in Range(s) <=> e \in Range(a) \cup Range(b)
  <2>1. e \in Range(s) <=> \E j \in 1 .. Len(s) : s[j] = e
    BY <1>1 DEF Range
  <2>2. e \in Range(a) <=> \E j \in 1 .. n : s[j] = e
    BY <1>2, <1>4 DEF Range
  <2>3. e \in Range(b) <=> \E j \in 1 .. Len(s) - n : s[n + j] = e
    BY <1>3, <1>4 DEF Range
  <2>4. ASSUME NEW j \in 1 .. Len(s), s[j] = e, j \notin 1 .. n
        PROVE  \E i \in 1 .. Len(s) - n : s[n + i] = e
    <3>1. j - n \in 1 .. Len(s) - n /\ n + (j - n) = j
      BY <1>1, <2>4
    <3> QED  BY <3>1, <2>4
  <2>5. ASSUME NEW i \in 1 .. Len(s) - n, s[n + i] = e
        PROVE  \E j \in 1 .. Len(s) : s[j] = e
    <3>1. n + i \in 1 .. Len(s)
      BY <1>1
    <3> QED  BY <3>1, <2>5
  <2>6. \A j \in 1 .. n : j \in 1 .. Len(s)
    BY <1>1
  <2> QED  BY <2>1, <2>2, <2>3, <2>4, <2>5, <2>6
<1>6. IsInjective(s) => IsInjective(a)
  BY <1>1, <1>2, <1>4 DEF IsInjective
<1>7. ASSUME IsInjective(s)
      PROVE  IsInjective(b)
  <2>1. ASSUME NEW i \in 1 .. Len(s) - n, NEW j \in 1 .. Len(s) - n, b[i] = b[j]
        PROVE  i = j
    <3>1. n + i \in 1 .. Len(s) /\ n + j \in 1 .. Len(s)
      BY <1>1
    <3>2. s[n + i] = s[n + j]
      BY <1>3, <2>1
    <3>3. n + i = n + j
      BY <3>1, <3>2, <1>1, <1>7 DEF IsInjective
    <3> QED  BY <3>3
  <2> QED  BY <2>1, <1>4 DEF IsInjective
<1> QED  BY <1>2, <1>3, <1>5, <1>6, <1>7 DEF a, b

\* Taking out a place moves the ones behind it up.
LEMMA RemovePlaces ==
  ASSUME NEW S, NEW s \in Seq(S), NEW p \in 1 .. Len(s)
  PROVE  LET t == SubSeq(s, 1, p - 1) \o SubSeq(s, p + 1, Len(s))
         IN  /\ t \in Seq(S) /\ Len(t) = Len(s) - 1 /\ DOMAIN t = 1 .. Len(s) - 1
             /\ \A j \in 1 .. Len(s) - 1 : t[j] = IF j < p THEN s[j] ELSE s[j + 1]
<1> DEFINE a == SubSeq(s, 1, p - 1)
           b == SubSeq(s, p + 1, Len(s))
           t == a \o b
<1>1. Len(s) \in Nat /\ DOMAIN s = 1 .. Len(s) /\ p \in Nat
  OBVIOUS
<1>2. /\ p - 1 \in 0 .. Len(s) /\ p \in 0 .. Len(s)
      /\ \A j \in 1 .. p - 1 : j \in 1 .. Len(s)
  BY <1>1
<1>3. /\ a \in Seq(S) /\ Len(a) = p - 1
      /\ \A j \in 1 .. p - 1 : a[j] = s[j]
  BY <1>1, <1>2, SplitPlaces
<1>4. /\ b \in Seq(S) /\ Len(b) = Len(s) - p
      /\ \A j \in 1 .. Len(s) - p : b[j] = s[p + j]
  BY <1>1, <1>2, SplitPlaces
<1>5. t = a \o b
  OBVIOUS
<1> HIDE DEF a, b, t
<1>6. /\ t \in Seq(S) /\ Len(t) = Len(a) + Len(b)
      /\ \A j \in 1 .. Len(a) + Len(b) :
           t[j] = IF j <= Len(a) THEN a[j] ELSE b[j - Len(a)]
  BY <1>3, <1>4, <1>5, ConcatProperties
<1>7. /\ Len(t) = Len(s) - 1 /\ DOMAIN t = 1 .. Len(s) - 1
      /\ \A j \in 1 .. Len(s) - 1 : t[j] = IF j < p THEN s[j] ELSE s[j + 1]
  <2>1. (p - 1) + (Len(s) - p) = Len(s) - 1
    BY <1>1
  <2>2. Len(t) = Len(s) - 1
    BY <1>3, <1>4, <1>6, <2>1
  <2>3. ASSUME NEW j \in 1 .. Len(s) - 1
        PROVE  t[j] = IF j < p THEN s[j] ELSE s[j + 1]
    <3>1. t[j] = IF j <= p - 1 THEN a[j] ELSE b[j - (p - 1)]
      BY <1>3, <1>4, <1>6, <2>1
    <3>2. CASE j < p
      <4>1. j <= p - 1 /\ j \in 1 .. p - 1
        BY <1>1, <3>2
      <4> QED  BY <4>1, <3>1, <3>2, <1>3
    <3>3. CASE ~(j < p)
      <4>1. ~(j <= p - 1) /\ j - (p - 1) \in 1 .. Len(s) - p
            /\ p + (j - (p - 1)) = j + 1
        BY <1>1, <3>3
      <4> QED  BY <4>1, <3>1, <3>3, <1>4
    <3> QED  BY <3>2, <3>3
  <2> QED  BY <1>6, <2>2, <2>3
<1> QED  BY <1>6, <1>7 DEF t, a, b

\* Taking out the place of a member removes that member and keeps the others.
LEMMA RemoveMember ==
  ASSUME NEW S, NEW s \in Seq(S), IsInjective(s), NEW p \in 1 .. Len(s)
  PROVE  LET t == SubSeq(s, 1, p - 1) \o SubSeq(s, p + 1, Len(s))
         IN  /\ t \in Seq(S)
             /\ IsInjective(t)
             /\ Range(t) = Range(s) \ {s[p]}
<1> DEFINE t == SubSeq(s, 1, p - 1) \o SubSeq(s, p + 1, Len(s))
<1>1. Len(s) \in Nat /\ DOMAIN s = 1 .. Len(s) /\ p \in Nat
  OBVIOUS
<1>2. /\ t \in Seq(S) /\ Len(t) = Len(s) - 1 /\ DOMAIN t = 1 .. Len(s) - 1
      /\ \A j \in 1 .. Len(s) - 1 : t[j] = IF j < p THEN s[j] ELSE s[j + 1]
  BY RemovePlaces
<1> HIDE DEF t
<1>3. \A i, j \in 1 .. Len(s) : s[i] = s[j] => i = j
  BY <1>1 DEF IsInjective
<1>4. IsInjective(t)
  <2>1. ASSUME NEW i \in 1 .. Len(s) - 1, NEW j \in 1 .. Len(s) - 1, t[i] = t[j]
        PROVE  i = j
    <3>1. /\ i \in 1 .. Len(s) /\ i + 1 \in 1 .. Len(s)
          /\ j \in 1 .. Len(s) /\ j + 1 \in 1 .. Len(s)
          /\ i \in Nat /\ j \in Nat
      BY <1>1
    <3>2. (IF i < p THEN s[i] ELSE s[i + 1]) = (IF j < p THEN s[j] ELSE s[j + 1])
      BY <1>2, <2>1
    <3>3. CASE i < p /\ j < p
      BY <3>1, <3>2, <3>3, <1>3
    <3>4. CASE i < p /\ ~(j < p)
      <4>1. i = j + 1
        BY <3>1, <3>2, <3>4, <1>3
      <4> QED  BY <4>1, <3>1, <3>4, <1>1
    <3>5. CASE ~(i < p) /\ j < p
      <4>1. i + 1 = j
        BY <3>1, <3>2, <3>5, <1>3
      <4> QED  BY <4>1, <3>1, <3>5, <1>1
    <3>6. CASE ~(i < p) /\ ~(j < p)
      <4>1. i + 1 = j + 1
        BY <3>1, <3>2, <3>6, <1>3
      <4> QED  BY <4>1, <3>1
    <3> QED  BY <3>3, <3>4, <3>5, <3>6
  <2> QED  BY <2>1, <1>2 DEF IsInjective
<1>5. ASSUME NEW e  PROVE e \in Range(t) <=> e \in Range(s) /\ e # s[p]
  <2>1. e \in Range(s) <=> \E j \in 1 .. Len(s) : s[j] = e
    BY <1>1 DEF Range
  <2>2. e \in Range(t) <=> \E j \in 1 .. Len(s) - 1 : t[j] = e
    BY <1>2 DEF Range
  <2>3. ASSUME NEW j \in 1 .. Len(s) - 1, t[j] = e
        PROVE  (\E i \in 1 .. Len(s) : s[i] = e) /\ e # s[p]
    <3>1. j \in 1 .. Len(s) /\ j + 1 \in 1 .. Len(s) /\ (j < p => j # p)
          /\ (~(j < p) => j + 1 # p)
      BY <1>1
    <3>2. e = IF j < p THEN s[j] ELSE s[j + 1]
      BY <1>2, <2>3
    <3> QED  BY <3>1, <3>2, <1>3
  <2>4. ASSUME NEW i \in 1 .. Len(s), s[i] = e, e # s[p]
        PROVE  \E j \in 1 .. Len(s) - 1 : t[j] = e
    <3>1. CASE i < p
      <4>1. i \in 1 .. Len(s) - 1
        BY <3>1, <1>1
      <4> QED  BY <4>1, <3>1, <1>2, <2>4
    <3>2. CASE ~(i < p)
      <4>1. /\ i - 1 \in 1 .. Len(s) - 1 /\ ~(i - 1 < p) /\ (i - 1) + 1 = i
        BY <3>2, <1>1, <2>4
      <4> QED  BY <4>1, <1>2, <2>4
    <3> QED  BY <3>1, <3>2
  <2> QED  BY <2>1, <2>2, <2>3, <2>4
<1> QED  BY <1>2, <1>4, <1>5 DEF t

\* Moving the head of one list to the end of another keeps their concatenation.
LEMMA MoveHead ==
  ASSUME NEW S, NEW s \in Seq(S), NEW t \in Seq(S), t # <<>>
  PROVE  Append(s, Head(t)) \o Tail(t) = s \o t
<1> DEFINE a == Append(s, Head(t))
           b == Tail(t)
           u == a \o b
           v == s \o t
<1>1. Len(s) \in Nat /\ Len(t) \in Nat /\ Len(t) > 0
  BY EmptySeq
<1>2. /\ Head(t) \in S /\ Head(t) = t[1]
      /\ b \in Seq(S) /\ Len(b) = Len(t) - 1
      /\ \A i \in 1 .. Len(t) - 1 : b[i] = t[i + 1]
  BY HeadTailProperties
<1>3. /\ a \in Seq(S) /\ Len(a) = Len(s) + 1
      /\ \A i \in 1 .. Len(s) : a[i] = s[i]
      /\ a[Len(s) + 1] = t[1]
  BY <1>2, AppendProperties
<1> HIDE DEF a, b
<1>4. /\ u \in Seq(S) /\ Len(u) = Len(a) + Len(b)
      /\ \A i \in 1 .. Len(a) + Len(b) :
           u[i] = IF i <= Len(a) THEN a[i] ELSE b[i - Len(a)]
  BY <1>2, <1>3, ConcatProperties
<1>5. /\ v \in Seq(S) /\ Len(v) = Len(s) + Len(t)
      /\ \A i \in 1 .. Len(s) + Len(t) :
           v[i] = IF i <= Len(s) THEN s[i] ELSE t[i - Len(s)]
  BY ConcatProperties
<1>6. (Len(s) + 1) + (Len(t) - 1) = Len(s) + Len(t)
  BY <1>1
<1> HIDE DEF u, v
<1>7. ASSUME NEW i \in 1 .. Len(s) + Len(t)  PROVE u[i] = v[i]
  <2>1. u[i] = IF i <= Len(s) + 1 THEN a[i] ELSE b[i - (Len(s) + 1)]
    BY <1>2, <1>3, <1>4, <1>6
  <2>2. CASE i <= Len(s)
    <3>1. i <= Len(s) + 1 /\ i \in 1 .. Len(s)
      BY <1>1, <2>2
    <3> QED  BY <1>3, <1>5, <2>1, <2>2, <3>1
  <2>3. CASE i = Len(s) + 1
    <3>1. i <= Len(s) + 1 /\ ~(i <= Len(s)) /\ i - Len(s) = 1
      BY <1>1, <2>3
    <3> QED  BY <1>3, <1>5, <2>1, <2>3, <3>1
  <2>4. CASE i > Len(s) + 1
    <3>1. /\ ~(i <= Len(s) + 1) /\ ~(i <= Len(s))
          /\ i - (Len(s) + 1) \in 1 .. Len(t) - 1
          /\ (i - (Len(s) + 1)) + 1 = i - Len(s)
      BY <1>1, <2>4
    <3> QED  BY <1>2, <1>5, <2>1, <3>1
  <2> QED  BY <1>1, <2>2, <2>3, <2>4
<1>8. Len(u) = Len(s) + Len(t)
  BY <1>2, <1>3, <1>4, <1>6
<1>9. u = v
  BY <1>4, <1>5, <1>7, <1>8, SeqEqual
<1> QED  BY <1>9 DEF u, v, a, b

\* A list that grows keeps its beginnings.
LEMMA PrefixKept ==
  ASSUME NEW S, NEW s \in Seq(S), NEW e \in S, NEW n \in 0 .. Len(s)
  PROVE  SubSeq(Append(s, e), 1, n) = SubSeq(s, 1, n)
<1> DEFINE t == Append(s, e)
           u == SubSeq(t, 1, n)
           v == SubSeq(s, 1, n)
<1>1. /\ Len(s) \in Nat
      /\ t \in Seq(S) /\ Len(t) = Len(s) + 1
      /\ \A i \in 1 .. Len(s) : t[i] = s[i]
  BY AppendProperties
<1> HIDE DEF t
<1>2. n \in 0 .. Len(t) /\ \A i \in 1 .. n : i \in 1 .. Len(s)
  BY <1>1
<1>3. u \in Seq(S) /\ Len(u) = n /\ \A i \in 1 .. n : u[i] = t[i]
  BY <1>1, <1>2, SplitPlaces
<1>4. v \in Seq(S) /\ Len(v) = n /\ \A i \in 1 .. n : v[i] = s[i]
  BY SplitPlaces
<1> HIDE DEF u, v
<1>5. u = v
  BY <1>1, <1>2, <1>3, <1>4, SeqEqual
<1> QED  BY <1>5 DEF u, v, t

\* Of two lists one after the other: the members are those of both, without
\* duplicates when neither has any and they share none.
LEMMA ConcatMembers ==
  ASSUME NEW S, NEW s \in Seq(S), NEW t \in Seq(S)
  PROVE  /\ s \o t \in Seq(S)
         /\ Range(s \o t) = Range(s) \cup Range(t)
         /\ IsInjective(s) /\ IsInjective(t) /\ Range(s) \cap Range(t) = {}
              => IsInjective(s \o t)
<1> DEFINE m == Len(s)
           n == Len(t)
           u == s \o t
<1>1. /\ m \in Nat /\ DOMAIN s = 1 .. m
      /\ n \in Nat /\ DOMAIN t = 1 .. n
  OBVIOUS
<1>2. /\ u \in Seq(S) /\ Len(u) = m + n
      /\ \A i \in 1 .. m + n : u[i] = IF i <= m THEN s[i] ELSE t[i - m]
  BY ConcatProperties
<1>3. DOMAIN u = 1 .. m + n
  BY <1>2
<1> HIDE DEF m, n, u
<1>4. \A i \in 1 .. m : i \in 1 .. m + n /\ u[i] = s[i]
  <2> SUFFICES ASSUME NEW i \in 1 .. m PROVE i \in 1 .. m + n /\ u[i] = s[i]
    OBVIOUS
  <2>1. i \in 1 .. m + n /\ i <= m
    BY <1>1
  <2> QED  BY <1>2, <2>1
<1>5. \A i \in 1 .. n : m + i \in 1 .. m + n /\ u[m + i] = t[i]
  <2> SUFFICES ASSUME NEW i \in 1 .. n PROVE m + i \in 1 .. m + n /\ u[m + i] = t[i]
    OBVIOUS
  <2>1. m + i \in 1 .. m + n /\ ~(m + i <= m) /\ (m + i) - m = i
    BY <1>1
  <2> QED  BY <1>2, <2>1
<1>6. ASSUME NEW i \in 1 .. m + n
      PROVE  i \in 1 .. m \/ \E j \in 1 .. n : i = m + j
  <2>1. CASE i <= m
    BY <1>1, <2>1
  <2>2. CASE ~(i <= m)
    <3>1. i - m \in 1 .. n /\ i = m + (i - m)
      BY <1>1, <2>2
    <3> QED  BY <3>1
  <2> QED  BY <2>1, <2>2
<1>7. ASSUME NEW e  PROVE e \in Range(u) <=> e \in Range(s) \cup Range(t)
  <2>1. e \in Range(u) <=> \E i \in 1 .. m + n : u[i] = e
    BY <1>3 DEF Range
  <2>2. e \in Range(s) <=> \E i \in 1 .. m : s[i] = e
    BY <1>1 DEF Range
  <2>3. e \in Range(t) <=> \E i \in 1 .. n : t[i] = e
    BY <1>1 DEF Range
  <2> QED  BY <1>4, <1>5, <1>6, <2>1, <2>2, <2>3
<1>8. ASSUME IsInjective(s), IsInjective(t), Range(s) \cap Range(t) = {}
      PROVE  IsInjective(u)
  <2>1. ASSUME NEW i \in 1 .. m, NEW j \in 1 .. n PROVE s[i] # t[j]
    <3>1. s[i] \in Range(s) /\ t[j] \in Range(t)
      BY <1>1 DEF Range
    <3> QED  BY <1>8, <3>1
  <2>2. ASSUME NEW i \in 1 .. m, NEW j \in 1 .. m, s[i] = s[j] PROVE i = j
    BY <1>1, <1>8, <2>2 DEF IsInjective
  <2>3. ASSUME NEW i \in 1 .. n, NEW j \in 1 .. n, t[i] = t[j] PROVE i = j
    BY <1>1, <1>8, <2>3 DEF IsInjective
  <2>4. ASSUME NEW i \in 1 .. m + n, NEW j \in 1 .. m + n, u[i] = u[j]
        PROVE  i = j
    <3>1. CASE i \in 1 .. m /\ j \in 1 .. m
      BY <1>4, <2>2, <2>4, <3>1
    <3>2. CASE i \in 1 .. m /\ \E k \in 1 .. n : j = m + k
      BY <1>4, <1>5, <2>1, <2>4, <3>2
    <3>3. CASE j \in 1 .. m /\ \E k \in 1 .. n : i = m + k
      BY <1>4, <1>5, <2>1, <2>4, <3>3
    <3>4. CASE (\E k \in 1 .. n : i = m + k) /\ (\E k \in 1 .. n : j = m + k)
      <4>1. PICK k \in 1 .. n : i = m + k
        BY <3>4
      <4>2. PICK l \in 1 .. n : j = m + l
        BY <3>4
      <4>3. t[k] = t[l]
        BY <1>5, <2>4, <4>1, <4>2
      <4> QED  BY <2>3, <4>1, <4>2, <4>3
    <3> QED  BY <1>6, <3>1, <3>2, <3>3, <3>4
  <2> QED  BY <1>3, <2>4 DEF IsInjective
<1> QED  BY <1>2, <1>7, <1>8 DEF u

\* What a part of a list holds.
LEMMA PartMembers ==
  ASSUME NEW S, NEW s \in Seq(S), NEW a \in Nat, NEW b \in Nat,
         1 <= a, a <= b + 1, b <= Len(s)
  PROVE  LET t == SubSeq(s, a, b)
         IN  /\ t \in Seq(S) /\ Len(t) = (b - a) + 1
             /\ \A j \in 1 .. (b - a) + 1 : t[j] = s[(a + j) - 1]
             /\ \A x : x \in Range(t) <=> \E j \in a .. b : s[j] = x
<1> DEFINE t == SubSeq(s, a, b)
           n == (b - a) + 1
<1>1. Len(s) \in Nat /\ n \in Nat
  OBVIOUS
<1>2. /\ t \in Seq(S) /\ Len(t) = n /\ DOMAIN t = 1 .. n
      /\ \A j \in 1 .. n : t[j] = s[(a + j) - 1]
  <2>1. ASSUME NEW j \in 1 .. n  PROVE (a + j) - 1 \in 1 .. Len(s)
    BY <1>1
  <2>2. \A j \in 1 .. Len(s) : s[j] \in S
    OBVIOUS
  <2>3. \A j \in 1 .. n : s[(a + j) - 1] \in S
    BY <2>1, <2>2
  <2>4. t = [j \in 1 .. n |-> s[(a + j) - 1]]
    BY <1>1, <2>1
  <2> HIDE DEF t, n
  <2> QED  BY <1>1, <2>3, <2>4
<1> HIDE DEF t
<1>3. ASSUME NEW x  PROVE x \in Range(t) <=> \E j \in a .. b : s[j] = x
  <2>1. x \in Range(t) <=> \E j \in 1 .. n : t[j] = x
    BY <1>2, RangeMember
  <2>2. ASSUME NEW j \in 1 .. n, t[j] = x  PROVE \E k \in a .. b : s[k] = x
    <3>1. (a + j) - 1 \in a .. b /\ s[(a + j) - 1] = x
      BY <1>2, <2>2
    <3> QED  BY <3>1
  <2>3. ASSUME NEW k \in a .. b, s[k] = x  PROVE \E j \in 1 .. n : t[j] = x
    <3>1. (k - a) + 1 \in 1 .. n /\ (a + ((k - a) + 1)) - 1 = k
      OBVIOUS
    <3>2. t[(k - a) + 1] = x
      BY <1>2, <2>3, <3>1
    <3> QED  BY <3>1, <3>2
  <2> QED  BY <2>1, <2>2, <2>3
<1> QED  BY <1>2, <1>3 DEF t

\* Among free descriptors there is a lowest one, which open() and accept() take.
LEMMA LowestExists ==
  ASSUME NEW T, T \subseteq Nat, T # {}
  PROVE  \E g \in T : \A h \in T : g <= h
<1>1. \E x \in T : \A y \in T : ~(<<y, x>> \in OpToRel(<, Nat))
  BY NatLessThanWellFounded, WFMin
<1>2. PICK x \in T : \A y \in T : ~(<<y, x>> \in OpToRel(<, Nat))
  BY <1>1
<1>3. ASSUME NEW y \in T  PROVE x <= y
  <2>1. x \in Nat /\ y \in Nat
    OBVIOUS
  <2>2. y < x => <<y, x>> \in OpToRel(<, Nat)
    BY <2>1 DEF OpToRel
  <2>3. ~(y < x)
    BY <1>2, <2>2, Zenon
  <2> QED  BY <2>1, <2>3
<1> QED  BY <1>3
=============================================================================
