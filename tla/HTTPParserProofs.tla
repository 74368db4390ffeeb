-------------------------- MODULE HTTPParserProofs --------------------------
(***************************************************************************)
(* Machine-checked proofs about HTTPParser.                                *)
(***************************************************************************)
EXTENDS HTTPParser, WellFoundedInduction, TLAPS

-----------------------------------------------------------------------------
(***************************************************************************)
(* Induction and recursion.                                                *)
(***************************************************************************)
\* A set of numbers has a lowest one.
LEMMA LowestExists ==
  ASSUME NEW T, T \subseteq Nat, T # {}
  PROVE  \E g \in T : \A h \in T : g <= h
<1>1. \E x \in T : \A y \in T : ~(<<y, x>> \in OpToRel(<, Nat))
  BY NatLessThanWellFounded, WFMin
<1>2. PICK x \in T : \A y \in T : ~(<<y, x>> \in OpToRel(<, Nat))
  BY <1>1
<1>3. ASSUME NEW y \in T  PROVE x <= y
  <2>1. x \in Nat /\ y \in Nat
    OBVIOUS
  <2>2. y < x => <<y, x>> \in OpToRel(<, Nat)
    BY <2>1 DEF OpToRel
  <2>3. ~(y < x)
    BY <1>2, <2>2, Zenon
  <2> QED  BY <2>1, <2>3
<1> QED  BY <1>3

\* Induction over the naturals, for a set instead of a predicate.
LEMMA SetInduction ==
  ASSUME NEW T, 0 \in T, \A n \in Nat : n \in T => n + 1 \in T
  PROVE  Nat \subseteq T
<1> SUFFICES ASSUME Nat \ T # {}  PROVE FALSE
  OBVIOUS
<1>1. PICK g \in Nat \ T : \A h \in Nat \ T : g <= h
  BY Zenon, LowestExists
<1>2. g # 0 /\ g - 1 \in Nat /\ ~(g <= g - 1) /\ (g - 1) + 1 = g
  OBVIOUS
<1>3. g - 1 \in T
  BY <1>1, <1>2
<1> QED  BY <1>2, <1>3

\* The same with all smaller numbers in the hypothesis.
LEMMA StrongInduction ==
  ASSUME NEW T, \A n \in Nat : (\A m \in 0 .. n - 1 : m \in T) => n \in T
  PROVE  Nat \subseteq T
<1> SUFFICES ASSUME Nat \ T # {}  PROVE FALSE
  OBVIOUS
<1>1. PICK g \in Nat \ T : \A h \in Nat \ T : g <= h
  BY LowestExists
<1>2. ASSUME NEW m \in 0 .. g - 1  PROVE m \in T
  <2>1. m \in Nat /\ ~(g <= m)
    OBVIOUS
  <2> QED  BY <1>1, <2>1
<1> QED  BY <1>2


(***************************************************************************)
(* What a loop computes: values in V over the numbers of D, where the loop *)
(* ends with base[n] or takes a step from its value at the smaller number  *)
(* prev[n].                                                                *)
(***************************************************************************)
Descends(D, V, stop, base, prev, step) ==
  /\ stop \in [D -> BOOLEAN]
  /\ base \in [D -> V]
  /\ step \in [D -> [V -> V]]
  /\ \A n \in D : ~stop[n] => prev[n] \in 0 .. n - 1

Unfolds(f, D, V, stop, base, prev, step) ==
  /\ f \in [D -> V]
  /\ \A n \in D : f[n] = IF stop[n] THEN base[n] ELSE step[n][f[prev[n]]]

\* A loop that descends computes something.
LEMMA NatRecursion ==
  ASSUME NEW V, NEW stop, NEW base, NEW prev, NEW step,
         Descends(Nat, V, stop, base, prev, step)
  PROVE  \E f : Unfolds(f, Nat, V, stop, base, prev, step)
<1> USE DEF Descends
<1> DEFINE Eq(f, i) == /\ f \in [0 .. i -> V]
                       /\ \A n \in 0 .. i :
                            f[n] = IF stop[n] THEN base[n] ELSE step[n][f[prev[n]]]
<1>1. \A i \in Nat : \E f : Eq(f, i)
  <2> DEFINE T == {i \in Nat : \E f : Eq(f, i)}
  <2>1. 0 \in T
    <3> DEFINE h == [n \in 0 .. 0 |-> base[0]]
    <3>1. stop[0] /\ h \in [0 .. 0 -> V]
      OBVIOUS
    <3>2. Eq(h, 0)
      BY <3>1
    <3> HIDE DEF Eq, h
    <3> QED BY <3>2
  <2>2. ASSUME NEW i \in Nat, i \in T  PROVE i + 1 \in T
    <3>1. PICK f : Eq(f, i)
      BY <2>2
    <3> DEFINE j == i + 1
               v == IF stop[j] THEN base[j] ELSE step[j][f[prev[j]]]
               h == [n \in 0 .. j |-> IF n = j THEN v ELSE f[n]]
    <3>2. v \in V
      <4>1. CASE stop[j]
        BY <4>1
      <4>2. CASE ~stop[j]
        <5>1. prev[j] \in 0 .. i
          BY <4>2
        <5>2. f[prev[j]] \in V
          BY <3>1, <5>1
        <5>3. step[j] \in [V -> V]
          OBVIOUS
        <5> QED BY <4>2, <5>2, <5>3
      <4> QED BY <4>1, <4>2
    <3>3. h \in [0 .. j -> V] /\ h[j] = v /\ \A n \in 0 .. i : h[n] = f[n]
      <4> HIDE DEF v
      <4> QED BY <3>1, <3>2
    <3>4. ASSUME NEW n \in 0 .. j
          PROVE  h[n] = IF stop[n] THEN base[n] ELSE step[n][h[prev[n]]]
      <4> HIDE DEF h
      <4>1. n \in Nat /\ (~stop[n] => prev[n] \in 0 .. n - 1)
        OBVIOUS
      <4>2. ~stop[n] => h[prev[n]] = f[prev[n]]
        <5>1. ~stop[n] => prev[n] \in 0 .. i
          BY <4>1
        <5> QED BY <3>3, <5>1
      <4>3. CASE n = j
        BY <3>3, <4>2, <4>3
      <4>4. CASE n # j
        <5>1. n \in 0 .. i
          BY <4>4
        <5>2. f[n] = IF stop[n] THEN base[n] ELSE step[n][f[prev[n]]]
          BY <3>1, <5>1
        <5> QED BY <3>3, <4>2, <5>1, <5>2
      <4> QED BY <4>3, <4>4
    <3>5. Eq(h, j)
      <4> HIDE DEF h
      <4> QED BY <3>3, <3>4
    <3> HIDE DEF Eq, h
    <3> QED BY <3>5
  <2> HIDE DEF T
  <2>3. Nat \subseteq T
    BY <2>1, <2>2, SetInduction
  <2> QED BY <2>3 DEF T
<1>2. ASSUME NEW i \in Nat, NEW j \in Nat, i <= j, NEW f, NEW g, Eq(f, i), Eq(g, j)
      PROVE  \A n \in 0 .. i : f[n] = g[n]
  <2> DEFINE T == {n \in Nat : n <= i => f[n] = g[n]}
  <2>1. ASSUME NEW n \in Nat, \A m \in 0 .. n - 1 : m \in T  PROVE n \in T
    <3> SUFFICES ASSUME n <= i  PROVE f[n] = g[n]
      OBVIOUS
    <3>1. n \in 0 .. i /\ n \in 0 .. j
      BY <1>2
    <3>2. ~stop[n] => f[prev[n]] = g[prev[n]]
      <4> SUFFICES ASSUME ~stop[n]  PROVE f[prev[n]] = g[prev[n]]
        OBVIOUS
      <4>1. prev[n] \in 0 .. n - 1 /\ prev[n] <= i
        OBVIOUS
      <4> QED BY <2>1, <4>1
    <3> QED BY <1>2, <3>1, <3>2
  <2> HIDE DEF T
  <2>2. Nat \subseteq T
    BY <2>1, StrongInduction
  <2> QED BY <2>2 DEF T
<1> DEFINE pick(n) == CHOOSE f : Eq(f, n)
           F == [n \in Nat |-> pick(n)[n]]
<1>3. \A n \in Nat : Eq(pick(n), n)
  <2> HIDE DEF Eq
  <2> QED BY <1>1
<1> HIDE DEF pick
<1>4. F \in [Nat -> V]
  <2>1. \A n \in Nat : pick(n)[n] \in V
    BY <1>3
  <2> QED BY <2>1
<1>5. ASSUME NEW n \in Nat
      PROVE  F[n] = IF stop[n] THEN base[n] ELSE step[n][F[prev[n]]]
  <2>1. F[n] = IF stop[n] THEN base[n] ELSE step[n][pick(n)[prev[n]]]
    BY <1>3
  <2>2. ASSUME ~stop[n]  PROVE pick(n)[prev[n]] = F[prev[n]]
    <3> DEFINE p == prev[n]
    <3>1. p \in Nat /\ p <= n /\ p \in 0 .. p
      BY <2>2
    <3> HIDE DEF p, Eq
    <3>2. Eq(pick(p), p) /\ Eq(pick(n), n)
      BY <1>3, <3>1
    <3>3. pick(p)[p] = pick(n)[p]
      BY <1>2, <3>1, <3>2
    <3> QED BY <3>1, <3>3 DEF p
  <2> QED BY <2>1, <2>2
<1> HIDE DEF F
<1> QED BY <1>4, <1>5 DEF Unfolds


\* The same for a loop over 0 .. N.
LEMMA RangeRecursion ==
  ASSUME NEW N \in Nat, NEW V, NEW stop, NEW base, NEW prev, NEW step,
         Descends(0 .. N, V, stop, base, prev, step)
  PROVE  \E f : Unfolds(f, 0 .. N, V, stop, base, prev, step)
<1> DEFINE stop2 == [n \in Nat |-> IF n \in 0 .. N THEN stop[n] ELSE TRUE]
           base2 == [n \in Nat |-> IF n \in 0 .. N THEN base[n] ELSE base[0]]
           step2 == [n \in Nat |-> IF n \in 0 .. N THEN step[n] ELSE step[0]]
<1>1. Descends(Nat, V, stop2, base2, prev, step2)
  <2> USE DEF Descends
  <2>1. 0 \in 0 .. N
    OBVIOUS
  <2>2. stop2 \in [Nat -> BOOLEAN]
    BY Zenon
  <2>3. base2 \in [Nat -> V]
    BY <2>1
  <2>4. step2 \in [Nat -> [V -> V]]
    BY <2>1
  <2>5. ASSUME NEW n \in Nat, ~stop2[n]  PROVE prev[n] \in 0 .. n - 1
    <3>1. n \in 0 .. N /\ ~stop[n]
      BY <2>5
    <3> QED BY <3>1
  <2> HIDE DEF stop2, base2, step2
  <2> QED BY <2>2, <2>3, <2>4, <2>5
<1>2. \A n \in 0 .. N : n \in Nat /\ stop2[n] = stop[n] /\ base2[n] = base[n] /\ step2[n] = step[n]
  OBVIOUS
<1> HIDE DEF stop2, base2, step2
<1>3. PICK F : Unfolds(F, Nat, V, stop2, base2, prev, step2)
  BY <1>1, NatRecursion
<1> DEFINE f == [n \in 0 .. N |-> F[n]]
<1>4. f \in [0 .. N -> V]
  BY <1>3 DEF Unfolds
<1>5. ASSUME NEW n \in 0 .. N
      PROVE  f[n] = IF stop[n] THEN base[n] ELSE step[n][f[prev[n]]]
  <2>1. f[n] = IF stop[n] THEN base[n] ELSE step[n][F[prev[n]]]
    BY <1>2, <1>3 DEF Unfolds
  <2>2. ~stop[n] => prev[n] \in 0 .. N
    BY DEF Descends
  <2> QED BY <2>1, <2>2
<1> HIDE DEF f
<1> QED BY <1>4, <1>5 DEF Unfolds

\* What a part of a list holds.
LEMMA PartPlaces ==
  ASSUME NEW S, NEW s \in Seq(S), NEW a \in Nat, NEW b \in Nat,
         1 <= a, a <= b + 1, b <= Len(s)
  PROVE  LET t == SubSeq(s, a, b)
         IN  /\ t \in Seq(S) /\ Len(t) = (b - a) + 1
             /\ \A j \in 1 .. (b - a) + 1 : t[j] = s[(a + j) - 1]
<1> DEFINE t == SubSeq(s, a, b)
           n == (b - a) + 1
<1>1. Len(s) \in Nat /\ n \in Nat
  OBVIOUS
<1>2. ASSUME NEW j \in 1 .. n  PROVE (a + j) - 1 \in 1 .. Len(s)
  BY <1>1
<1>3. \A j \in 1 .. Len(s) : s[j] \in S
  OBVIOUS
<1>4. \A j \in 1 .. n : s[(a + j) - 1] \in S
  BY <1>2, <1>3
<1>5. t = [j \in 1 .. n |-> s[(a + j) - 1]]
  BY <1>1, <1>2
<1> HIDE DEF t, n
<1>6. t \in Seq(S) /\ Len(t) = n /\ \A j \in 1 .. n : t[j] = s[(a + j) - 1]
  BY <1>1, <1>4, <1>5
<1> QED  BY <1>6 DEF t, n

-----------------------------------------------------------------------------
(***************************************************************************)
(* Strings.  A window of s is what stands behind its first a symbols up to *)
(* the b-th.                                                               *)
(***************************************************************************)
Window(s, a, b) == SubSeq(s, a + 1, b)

\* The symbols of a window.
LEMMA WindowPlaces ==
  ASSUME NEW S, NEW s \in Seq(S), NEW a \in Nat, NEW b \in Nat,
         a <= b, b <= Len(s)
  PROVE  /\ Window(s, a, b) \in Seq(S) /\ Len(Window(s, a, b)) = b - a
         /\ \A j \in 1 .. b - a : Window(s, a, b)[j] = s[a + j]
<1>1. a + 1 \in Nat /\ 1 <= a + 1 /\ a + 1 <= b + 1 /\ (b - (a + 1)) + 1 = b - a
      /\ \A j \in 1 .. b - a : ((a + 1) + j) - 1 = a + j
  OBVIOUS
<1> QED BY <1>1, PartPlaces DEF Window

\* The length of a window, without its symbols.
LEMMA WindowType ==
  ASSUME NEW S, NEW s \in Seq(S), NEW a \in Nat, NEW b \in Nat, a <= b, b <= Len(s)
  PROVE  Window(s, a, b) \in Seq(S) /\ Len(Window(s, a, b)) = b - a
  BY Zenon, WindowPlaces

\* Two sequences of one length with the same symbols are equal.
LEMMA SameSymbols ==
  ASSUME NEW S, NEW s \in Seq(S), NEW t \in Seq(S), Len(s) = Len(t),
         \A j \in 1 .. Len(s) : s[j] = t[j]
  PROVE  s = t
<1>1. s = [j \in 1 .. Len(s) |-> s[j]] /\ t = [j \in 1 .. Len(t) |-> t[j]]
  OBVIOUS
<1> QED BY <1>1

\* A window of a window is a window.
LEMMA WindowOfWindow ==
  ASSUME NEW S, NEW s \in Seq(S), NEW a \in Nat, NEW b \in Nat,
         a <= b, b <= Len(s), NEW c \in Nat, NEW d \in Nat, c <= d, d <= b - a
  PROVE  Window(Window(s, a, b), c, d) = Window(s, a + c, a + d)
<1> DEFINE w == Window(s, a, b)
           u == Window(w, c, d)
           v == Window(s, a + c, a + d)
<1>1. /\ w \in Seq(S) /\ Len(w) = b - a
      /\ \A j \in 1 .. b - a : w[j] = s[a + j]
  BY Zenon, WindowPlaces
<1>2. /\ u \in Seq(S) /\ Len(u) = d - c
      /\ \A j \in 1 .. d - c : u[j] = w[c + j]
  <2> HIDE DEF w
  <2>1. w \in Seq(S) /\ d <= Len(w)
    BY <1>1
  <2> QED BY <2>1, WindowPlaces
<1>3. /\ v \in Seq(S) /\ Len(v) = d - c
      /\ \A j \in 1 .. d - c : v[j] = s[(a + c) + j]
  <2>1. a + c \in Nat /\ a + d \in Nat /\ a + c <= a + d /\ a + d <= Len(s)
        /\ (a + d) - (a + c) = d - c
    OBVIOUS
  <2> DEFINE p == a + c
             q == a + d
  <2>2. p \in Nat /\ q \in Nat /\ p <= q /\ q <= Len(s) /\ q - p = d - c
    BY <2>1
  <2> HIDE DEF p, q
  <2>3. /\ Window(s, p, q) \in Seq(S) /\ Len(Window(s, p, q)) = q - p
        /\ \A j \in 1 .. q - p : Window(s, p, q)[j] = s[p + j]
    BY <2>2, WindowPlaces
  <2> QED BY <2>2, <2>3 DEF p, q
<1> HIDE DEF w, u, v
<1>4. ASSUME NEW j \in 1 .. d - c  PROVE u[j] = v[j]
  <2>1. c + j \in 1 .. b - a /\ a + (c + j) = (a + c) + j
    OBVIOUS
  <2> QED BY <2>1, <1>1, <1>2, <1>3
<1>5. u = v
  BY <1>2, <1>3, <1>4, SameSymbols
<1> QED BY <1>5 DEF u, v, w

\* findFrom gives npos, or the first occurrence from pos on.
LEMMA FindFirst ==
  ASSUME NEW S, NEW s \in Seq(S), NEW R, NEW D \in Seq(R), NEW pos \in Nat
  PROVE  LET at == {k \in Occurrences(s, D) : k >= pos}
             f == findFrom(s, D, pos)
         IN  IF at = {} THEN f = npos
             ELSE f \in at /\ f \in Nat /\ \A k \in at : f <= k
<1> DEFINE at == {k \in Occurrences(s, D) : k >= pos}
<1>1. at \subseteq Nat
  BY DEF Occurrences
<1>2. CASE at = {}
  BY <1>2 DEF findFrom
<1>3. CASE at # {}
  <2> HIDE DEF at
  <2>1. \E g \in at : \A h \in at : g <= h
    BY <1>1, <1>3, LowestExists
  <2>2. Min(at) \in at /\ \A h \in at : Min(at) <= h
    BY <2>1 DEF Min
  <2>3. findFrom(s, D, pos) = Min(at)
    BY <1>3 DEF findFrom, at
  <2> QED BY <1>1, <1>3, <2>2, <2>3 DEF at
<1> QED BY <1>2, <1>3

\* The delimiter stands at k in a window if it does at a + k in the whole and
\* ends in the window.
LEMMA OccurrencesInWindow ==
  ASSUME NEW S, NEW s \in Seq(S), NEW R, NEW D \in Seq(R),
         NEW a \in Nat, NEW b \in Nat, a <= b, b <= Len(s), NEW k \in Nat
  PROVE  k \in Occurrences(Window(s, a, b), D)
           <=> a + k \in Occurrences(s, D) /\ (a + k) + Len(D) <= b
<1> DEFINE w == Window(s, a, b)
           m == Len(D)
<1>1. /\ w \in Seq(S) /\ Len(w) = b - a
      /\ \A j \in 1 .. b - a : w[j] = s[a + j]
  BY WindowPlaces
<1>2. m \in Nat /\ Len(s) \in Nat
  OBVIOUS
<1> HIDE DEF w, m
<1>3. k \in 0 .. Len(w) - m <=> (a + k) + m <= b
  BY <1>1, <1>2
<1>4. (a + k) + m <= b => a + k \in 0 .. Len(s) - m
  BY <1>2
<1>5. ASSUME (a + k) + m <= b
      PROVE  (\A j \in 1 .. m : w[k + j] = D[j]) <=> (\A j \in 1 .. m : s[(a + k) + j] = D[j])
  <2>1. ASSUME NEW j \in 1 .. m  PROVE w[k + j] = s[(a + k) + j]
    <3>1. k + j \in 1 .. b - a /\ a + (k + j) = (a + k) + j
      BY <1>2, <1>5
    <3> QED BY <3>1, <1>1
  <2> QED BY <2>1
<1>6. k \in Occurrences(w, D) <=> k \in 0 .. Len(w) - m /\ \A j \in 1 .. m : w[k + j] = D[j]
  BY DEF Occurrences, m
<1>7. a + k \in Occurrences(s, D)
        <=> a + k \in 0 .. Len(s) - m /\ \A j \in 1 .. m : s[(a + k) + j] = D[j]
  BY DEF Occurrences, m
<1> QED BY <1>3, <1>4, <1>5, <1>6, <1>7 DEF w, m

\* The first occurrence in a window is the first in the whole, and where the
\* window has none the whole has none that ends in it.
LEMMA FindInWindow ==
  ASSUME NEW S, NEW s \in Seq(S), NEW R, NEW D \in Seq(R),
         NEW a \in Nat, NEW b \in Nat, a <= b, b <= Len(s), NEW p \in Nat
  PROVE  LET f == findFrom(Window(s, a, b), D, p)
             g == findFrom(s, D, a + p)
         IN  /\ f # npos => /\ f \in Nat /\ p <= f /\ g = a + f
                            /\ (a + f) + Len(D) <= b
             /\ f = npos => g = npos \/ (g \in Nat /\ g + Len(D) > b)
<1> DEFINE w == Window(s, a, b)
           f == findFrom(w, D, p)
           g == findFrom(s, D, a + p)
           F == {k \in Occurrences(w, D) : k >= p}
           G == {k \in Occurrences(s, D) : k >= a + p}
<1>1. w \in Seq(S)
  BY WindowPlaces
<1>2. IF F = {} THEN f = npos ELSE f \in F /\ f \in Nat /\ \A k \in F : f <= k
  <2> HIDE DEF w
  <2> QED BY <1>1, FindFirst
<1>3. IF G = {} THEN g = npos ELSE g \in G /\ g \in Nat /\ \A k \in G : g <= k
  <2>1. a + p \in Nat
    OBVIOUS
  <2> QED BY <2>1, FindFirst
<1>4. \A k \in Nat : k \in Occurrences(w, D)
                       <=> a + k \in Occurrences(s, D) /\ (a + k) + Len(D) <= b
  BY OccurrencesInWindow
<1>5. Len(D) \in Nat
  OBVIOUS
<1>6. \A k \in Nat : k \in F <=> k >= p /\ a + k \in G /\ (a + k) + Len(D) <= b
  <2> HIDE DEF w
  <2> QED BY <1>4
<1>7. F \subseteq Nat
  BY DEF Occurrences
<1>8. \A k \in G : k \in Nat /\ k >= a + p
  BY DEF Occurrences
<1> HIDE DEF w, F, G, f, g
<1>9. npos \notin Nat
  BY DEF npos
<1>10. CASE f # npos
  <2>1. f \in F /\ f \in Nat /\ \A k \in F : f <= k
    BY <1>2, <1>10
  <2>2. f >= p /\ a + f \in G /\ (a + f) + Len(D) <= b
    BY <1>6, <2>1
  <2>3. g \in G /\ g \in Nat /\ g <= a + f /\ g >= a + p
    BY <1>3, <1>8, <2>2
  <2>4. g - a \in Nat /\ g - a >= p /\ a + (g - a) = g
    BY <2>3
  <2>5. g + Len(D) <= b
    BY <1>5, <2>1, <2>2, <2>3
  <2>6. g - a \in F
    BY <1>6, <2>3, <2>4, <2>5
  <2>7. f <= g - a
    BY Zenon, <2>1, <2>6
  <2>8. g = a + f
    BY <2>1, <2>3, <2>7
  <2> QED BY <1>10, <2>1, <2>2, <2>8 DEF f, g, w
<1>11. CASE f = npos
  <2>1. F = {}
    BY <1>2, <1>9, <1>11
  <2>2. ASSUME g # npos  PROVE g \in Nat /\ g + Len(D) > b
    <3>1. g \in G /\ g \in Nat /\ g >= a + p
      BY <1>3, <1>8, <2>2
    <3>2. g - a \in Nat /\ g - a >= p /\ a + (g - a) = g
      BY <3>1
    <3>3. ~(g + Len(D) <= b)
      BY <1>6, <2>1, <3>1, <3>2
    <3> QED BY <1>5, <3>1, <3>3
  <2> QED BY <1>11, <2>2 DEF f, g, w
<1> QED BY <1>10, <1>11

\* What is left behind pos is a window to the end.
LEMMA RestIsWindow ==
  ASSUME NEW S, NEW s \in Seq(S), NEW p \in 0 .. Len(s)
  PROVE  /\ rest(s, p) = Window(s, p, Len(s))
         /\ rest(s, p) \in Seq(S) /\ Len(rest(s, p)) = Len(s) - p
<1>1. rest(s, p) = Window(s, p, Len(s))
  BY DEF rest, Window
<1>2. /\ Window(s, p, Len(s)) \in Seq(S)
      /\ Len(Window(s, p, Len(s))) = Len(s) - p
  <2> DEFINE n == Len(s)
  <2>1. p \in Nat /\ n \in Nat /\ p <= n /\ n <= Len(s)
    OBVIOUS
  <2> HIDE DEF n
  <2>2. Window(s, p, n) \in Seq(S) /\ Len(Window(s, p, n)) = n - p
    BY <2>1, WindowPlaces
  <2> QED BY <2>2 DEF n
<1> QED BY <1>1, <1>2

\* The first n symbols of a string that has them.
LEMMA SubstrIsWindow ==
  ASSUME NEW S, NEW s \in Seq(S), NEW p \in Nat, NEW n \in Nat, p + n <= Len(s)
  PROVE  substr(s, p, n) = Window(s, p, p + n)
<1>1. Len(s) \in Nat
  OBVIOUS
<1>2. (IF p + n < Len(s) THEN p + n ELSE Len(s)) = p + n
  BY <1>1
<1> QED BY <1>2 DEF substr, Window

\* A payload taken off the front of a window leaves the window behind it.
LEMMA TakenOff ==
  ASSUME NEW S, NEW s \in Seq(S), NEW a \in Nat, NEW b \in Nat,
         a <= b, b <= Len(s), NEW n \in Nat, n <= Len(Window(s, a, b))
  PROVE  /\ a + n \in Nat /\ a <= a + n /\ a + n <= b
         /\ substr(Window(s, a, b), 0, n) = Window(s, a, a + n)
         /\ rest(Window(s, a, b), n) = Window(s, a + n, b)
<1> DEFINE w == Window(s, a, b)
<1>1. w \in Seq(S) /\ Len(w) = b - a
  BY WindowType
<1>2. PICK z \in Nat : z = 0
  OBVIOUS
<1> HIDE DEF w
<1>3. /\ a + n \in Nat /\ a <= a + n /\ a + n <= b /\ n <= b - a /\ n \in 0 .. Len(w)
      /\ z + n \in Nat /\ z <= z + n /\ z + n <= Len(w) /\ z + n <= b - a
      /\ a + z = a /\ a + (z + n) = a + n
      /\ b - a \in Nat /\ a + (b - a) = b /\ b - a <= b - a
  BY <1>1, <1>2 DEF w
<1>4. substr(w, z, n) = Window(w, z, z + n)
  BY <1>1, <1>3, SubstrIsWindow
<1>5. rest(w, n) = Window(w, n, b - a)
  BY <1>1, <1>3, RestIsWindow
<1>6. Window(Window(s, a, b), z, z + n) = Window(s, a + z, a + (z + n))
  BY <1>3, WindowOfWindow
<1>7. Window(Window(s, a, b), n, b - a) = Window(s, a + n, a + (b - a))
  BY <1>3, WindowOfWindow
<1> QED BY Zenon, <1>2, <1>3, <1>4, <1>5, <1>6, <1>7 DEF w

-----------------------------------------------------------------------------
(***************************************************************************)
(* The destructive split.                                                  *)
(***************************************************************************)
Cuts(S) == [parts : Seq(Seq(S)), left : Seq(S)]

\* What one turn of its loop makes of what the later turns give.
SplitStep(s, D, f, n) ==
  LET t == rest(s, Len(s) - n)
      pos == find(t, D)
      next == f[n - (pos + Len(D))]
  IN  IF pos = npos THEN [parts |-> <<>>, left |-> t]
      ELSE [next EXCEPT !.parts = <<substr(t, 0, pos)>> \o @]

\* The delimiter found in what is left of s, seen from the start of s.
LEMMA FindInRest ==
  ASSUME NEW S, NEW s \in Seq(S), NEW R, NEW D \in Seq(R), NEW n \in 0 .. Len(s)
  PROVE  LET t == rest(s, Len(s) - n)
             pos == find(t, D)
             a == Len(s) - n
         IN  /\ t \in Seq(S) /\ t = Window(s, a, Len(s)) /\ Len(t) = n
             /\ pos # npos => /\ pos \in Nat /\ pos + Len(D) <= n
                              /\ findFrom(s, D, a) = a + pos
                              /\ substr(t, 0, pos) = Window(s, a, a + pos)
                              /\ substr(t, 0, pos) \in Seq(S)
             /\ pos = npos => findFrom(s, D, a) = npos
<1> DEFINE N == Len(s)
           a == N - n
           t == rest(s, a)
           pos == find(t, D)
<1>1. N \in Nat /\ a \in Nat /\ a <= N /\ N - a = n /\ a \in 0 .. N /\ a + 0 = a
  OBVIOUS
<1> HIDE DEF a
<1>2. t = Window(s, a, N) /\ t \in Seq(S) /\ Len(t) = n
  BY <1>1, RestIsWindow
<1> HIDE DEF N, t
<1>3. N <= Len(s)
  BY DEF N
<1> DEFINE f == findFrom(Window(s, a, N), D, 0)
           g == findFrom(s, D, a + 0)
<1>4. /\ f # npos => /\ f \in Nat /\ 0 <= f /\ g = a + f
                     /\ (a + f) + Len(D) <= N
      /\ f = npos => g = npos \/ (g \in Nat /\ g + Len(D) > N)
  BY <1>1, <1>3, FindInWindow
<1>5. f = pos
  BY <1>2 DEF find
<1>6. g = findFrom(s, D, a)
  BY <1>1
<1> HIDE DEF f, g, pos
<1>7. Len(D) \in Nat
  OBVIOUS
<1>8. ASSUME pos # npos
      PROVE  /\ pos \in Nat /\ pos + Len(D) <= n /\ findFrom(s, D, a) = a + pos
             /\ substr(t, 0, pos) = Window(s, a, a + pos) /\ substr(t, 0, pos) \in Seq(S)
  <2>1. pos \in Nat /\ (a + pos) + Len(D) <= N /\ findFrom(s, D, a) = a + pos
    BY <1>4, <1>5, <1>6, <1>8
  <2>2. pos + Len(D) <= n /\ 0 + pos <= Len(t) /\ 0 + pos = pos /\ pos <= N - a /\ a + 0 = a
    BY <1>1, <1>2, <1>7, <2>1
  <2>3. substr(t, 0, pos) = Window(t, 0, 0 + pos)
    BY <1>2, <2>1, <2>2, SubstrIsWindow
  <2>4. Window(Window(s, a, N), 0, pos) = Window(s, a + 0, a + pos)
    BY <1>1, <1>3, <2>1, <2>2, WindowOfWindow
  <2>5. substr(t, 0, pos) = Window(s, a, a + pos)
    BY <1>2, <2>2, <2>3, <2>4
  <2>6. Window(t, 0, pos) \in Seq(S)
    <3>1. 0 <= pos /\ pos <= Len(t)
      BY <2>1, <2>2
    <3> QED BY <1>2, <2>1, <3>1, WindowPlaces
  <2> QED BY <2>1, <2>2, <2>3, <2>5, <2>6
<1>9. ASSUME pos = npos  PROVE findFrom(s, D, a) = npos
  <2> DEFINE at == {k \in Occurrences(s, D) : k >= a}
  <2>1. IF at = {} THEN g = npos ELSE g \in at
    <3>1. IF at = {} THEN findFrom(s, D, a) = npos ELSE findFrom(s, D, a) \in at
      BY <1>1, FindFirst
    <3> QED BY <3>1, <1>6
  <2>2. \A k \in at : k + Len(D) <= N
    BY <1>7 DEF Occurrences, N
  <2>3. at \subseteq Int
    BY DEF Occurrences
  <2> HIDE DEF at
  <2>4. g = npos \/ g + Len(D) > N
    BY <1>4, <1>5, <1>9
  <2>5. g # npos => g + Len(D) <= N /\ g \in Int
    BY <2>1, <2>2, <2>3
  <2> QED BY <1>1, <1>6, <1>7, <2>4, <2>5
<1> QED BY <1>2, <1>8, <1>9 DEF pos, t, a, N

\* The loop computes something.
LEMMA SplitUnfolds ==
  ASSUME NEW S, NEW s \in Seq(S), NEW R, NEW D \in Seq(R), Len(D) >= 1
  PROVE  SplitLoop(s, D) = [n \in 0 .. Len(s) |-> SplitStep(s, D, SplitLoop(s, D), n)]
<1> DEFINE N == Len(s)
           V == Cuts(S)
           t(n) == rest(s, N - n)
           pos(n) == find(t(n), D)
           part(n) == IF pos(n) = npos THEN <<>> ELSE <<substr(t(n), 0, pos(n))>>
           stop == [n \in 0 .. N |-> pos(n) = npos]
           base == [n \in 0 .. N |-> [parts |-> <<>>, left |-> t(n)]]
           prev == [n \in 0 .. N |-> n - (pos(n) + Len(D))]
           step == [n \in 0 .. N |->
                      [v \in V |-> [v EXCEPT !.parts = part(n) \o @]]]
<1>1. N \in Nat
  OBVIOUS
<1>2. ASSUME NEW n \in 0 .. N
      PROVE  /\ t(n) \in Seq(S)
             /\ pos(n) # npos => /\ pos(n) \in Nat /\ pos(n) + Len(D) <= n
                                 /\ substr(t(n), 0, pos(n)) \in Seq(S)
  BY FindInRest
<1>3. Len(D) \in Nat
  OBVIOUS
<1> HIDE DEF N, t, pos
<1>4. Descends(0 .. N, V, stop, base, prev, step)
  <2>1. stop \in [0 .. N -> BOOLEAN]
    OBVIOUS
  <2>2. base \in [0 .. N -> V]
    BY <1>2 DEF Cuts
  <2>3. step \in [0 .. N -> [V -> V]]
    <3>1. ASSUME NEW n \in 0 .. N, NEW v \in V
          PROVE  [v EXCEPT !.parts = part(n) \o @] \in V
      <4>1. part(n) \in Seq(Seq(S))
        BY <1>2
      <4> HIDE DEF part
      <4>2. v = [parts |-> v.parts, left |-> v.left] /\ v.parts \in Seq(Seq(S)) /\ v.left \in Seq(S)
        BY DEF Cuts
      <4>3. part(n) \o v.parts \in Seq(Seq(S))
        BY <4>1, <4>2
      <4> DEFINE q == part(n) \o v.parts
      <4>4. [v EXCEPT !.parts = part(n) \o @] = [v EXCEPT !.parts = q]
        OBVIOUS
      <4> HIDE DEF q
      <4>5. [v EXCEPT !.parts = q] \in Cuts(S)
        <5>1. q \in Seq(Seq(S))
          BY <4>3 DEF q
        <5> QED BY Zenon, <5>1 DEF Cuts
      <4> QED BY <4>4, <4>5
    <3> QED BY Zenon, <3>1
  <2>4. ASSUME NEW n \in 0 .. N, ~stop[n]  PROVE prev[n] \in 0 .. n - 1
    <3>1. pos(n) # npos
      BY Zenon, <2>4
    <3>2. pos(n) \in Nat /\ pos(n) + Len(D) <= n
      BY <1>2, <3>1
    <3> QED BY <1>3, <3>2
  <2> HIDE DEF stop, base, prev, step
  <2> QED BY <2>1, <2>2, <2>3, <2>4 DEF Descends
<1>5. PICK f : Unfolds(f, 0 .. N, V, stop, base, prev, step)
  <2> HIDE DEF stop, base, prev, step, V
  <2> QED BY <1>1, <1>4, RangeRecursion
<1>6. ASSUME NEW n \in 0 .. N  PROVE f[n] = SplitStep(s, D, f, n)
  <2>1. f[n] = IF stop[n] THEN base[n] ELSE step[n][f[prev[n]]]
    <3> HIDE DEF stop, base, prev, step, V
    <3> QED BY <1>5 DEF Unfolds
  <2>2. CASE pos(n) = npos
    BY Zenon, <2>1, <2>2 DEF SplitStep, pos, t, N
  <2>3. CASE pos(n) # npos
    <3>1. prev[n] \in 0 .. N /\ prev[n] = n - (pos(n) + Len(D))
      <4>1. pos(n) \in Nat /\ pos(n) + Len(D) <= n
        BY <1>2, <2>3
      <4> QED BY <1>1, <1>3, <4>1
    <3> HIDE DEF prev
    <3>2. f[prev[n]] \in V
      <4> HIDE DEF stop, base, prev, step, V
      <4> QED BY <1>5, <3>1 DEF Unfolds
    <3> DEFINE v == f[prev[n]]
    <3>3. f[n] = [v EXCEPT !.parts = <<substr(t(n), 0, pos(n))>> \o @]
      <4> HIDE DEF V
      <4> QED BY Zenon, <2>1, <2>3, <3>2
    <3> QED BY <2>3, <3>1, <3>3 DEF SplitStep, pos, t, N
  <2> QED BY <2>2, <2>3
<1>7. f = [n \in 0 .. N |-> SplitStep(s, D, f, n)]
  <2>1. f \in [0 .. N -> V]
    BY <1>5 DEF Unfolds
  <2> QED BY <2>1, <1>6
<1>8. \E g : g = [n \in 0 .. N |-> SplitStep(s, D, g, n)]
  BY <1>7
<1> QED BY Zenon, <1>8 DEF SplitLoop, SplitStep, N

(***************************************************************************)
(* The parts of s from start on, as b marks them: each goes to the next    *)
(* occurrence of the delimiter, the one after it starts behind that, and   *)
(* what is left has none.                                                  *)
(***************************************************************************)
Marks(s, D, start, cut, b) ==
  LET m == Len(cut.parts)
  IN  /\ b \in [0 .. m -> 0 .. Len(s)]
      /\ b[0] = start
      /\ \A k \in 1 .. m : /\ findFrom(s, D, b[k - 1]) # npos
                           /\ b[k] = findFrom(s, D, b[k - 1]) + Len(D)
                           /\ cut.parts[k] = Window(s, b[k - 1], b[k] - Len(D))
      /\ findFrom(s, D, b[m]) = npos
      /\ cut.left = Window(s, b[m], Len(s))

\* A part in front of the parts of what follows it.
LEMMA MarksStep ==
  ASSUME NEW S, NEW s \in Seq(S), NEW R, NEW D \in Seq(R),
         NEW a \in 0 .. Len(s), NEW cut \in Cuts(S), NEW b,
         NEW pos \in Nat, findFrom(s, D, a) = a + pos,
         Marks(s, D, (a + pos) + Len(D), cut, b),
         NEW p \in Seq(S), p = Window(s, a, a + pos)
  PROVE  LET new == [cut EXCEPT !.parts = <<p>> \o @]
         IN  new \in Cuts(S) /\ \E h : Marks(s, D, a, new, h)
<1> DEFINE parts == <<p>> \o cut.parts
           new == [cut EXCEPT !.parts = <<p>> \o @]
           m == Len(cut.parts)
           h == [k \in 0 .. m + 1 |-> IF k = 0 THEN a ELSE b[k - 1]]
<1>1. cut.parts \in Seq(Seq(S)) /\ cut.left \in Seq(S) /\ m \in Nat /\ Len(D) \in Nat
  BY DEF Cuts
<1>2. /\ parts \in Seq(Seq(S)) /\ Len(parts) = m + 1 /\ parts[1] = p
      /\ \A k \in 2 .. m + 1 : parts[k] = cut.parts[k - 1]
  BY <1>1
<1>3. new \in Cuts(S) /\ new.parts = parts /\ new.left = cut.left
  <2>1. new = [cut EXCEPT !.parts = parts]
    OBVIOUS
  <2> HIDE DEF parts, new
  <2> QED BY Zenon, <1>2, <2>1 DEF Cuts
<1> HIDE DEF parts, new, m
<1>4. /\ b \in [0 .. m -> 0 .. Len(s)] /\ b[0] = (a + pos) + Len(D)
      /\ \A k \in 1 .. m : /\ findFrom(s, D, b[k - 1]) # npos
                           /\ b[k] = findFrom(s, D, b[k - 1]) + Len(D)
                           /\ cut.parts[k] = Window(s, b[k - 1], b[k] - Len(D))
      /\ findFrom(s, D, b[m]) = npos
      /\ cut.left = Window(s, b[m], Len(s))
  BY DEF Marks, m
<1>5. h \in [0 .. m + 1 -> 0 .. Len(s)] /\ h[0] = a /\ \A k \in 1 .. m + 1 : h[k] = b[k - 1]
  BY <1>1, <1>4
<1> HIDE DEF h
<1>6. ASSUME NEW k \in 1 .. m + 1
      PROVE  /\ findFrom(s, D, h[k - 1]) # npos
             /\ h[k] = findFrom(s, D, h[k - 1]) + Len(D)
             /\ parts[k] = Window(s, h[k - 1], h[k] - Len(D))
  <2>1. CASE k = 1
    <3>1. h[1] = (a + pos) + Len(D) /\ h[k - 1] = a /\ ((a + pos) + Len(D)) - Len(D) = a + pos
          /\ a + pos # -1
      BY <1>1, <1>4, <1>5, <2>1
    <3> QED BY <2>1, <3>1, <1>2 DEF npos
  <2>2. CASE k # 1
    <3> DEFINE j == k - 1
    <3>1. j \in 1 .. m /\ j \in 1 .. m + 1 /\ k \in 2 .. m + 1 /\ k - 1 = j
      BY <1>1, <2>2
    <3>2. h[k] = b[j] /\ h[j] = b[j - 1] /\ parts[k] = cut.parts[j]
      BY <1>2, <1>5, <3>1
    <3> HIDE DEF j
    <3> QED BY <1>4, <3>1, <3>2
  <2> QED BY <2>1, <2>2
<1>7. h[m + 1] = b[m]
  <2>1. m + 1 \in 1 .. m + 1 /\ (m + 1) - 1 = m
    BY <1>1
  <2> QED BY <1>5, <2>1
<1>8. Marks(s, D, a, new, h)
  BY <1>2, <1>3, <1>4, <1>5, <1>6, <1>7 DEF Marks
<1> QED BY Zenon, <1>3, <1>8 DEF new

\* split takes the string apart at every occurrence of the delimiter, searched
\* from the end of the one before.
LEMMA SplitIsExact ==
  ASSUME NEW S, NEW s \in Seq(S), NEW R, NEW D \in Seq(R), Len(D) >= 1
  PROVE  split(s, D) \in Cuts(S) /\ \E b : Marks(s, D, 0, split(s, D), b)
<1> DEFINE N == Len(s)
           loop == SplitLoop(s, D)
           T == {n \in Nat : n <= N => /\ loop[n] \in Cuts(S)
                                       /\ \E b : Marks(s, D, N - n, loop[n], b)}
<1>1. loop = [n \in 0 .. N |-> SplitStep(s, D, loop, n)] /\ N \in Nat /\ Len(D) \in Nat
  BY SplitUnfolds
<1>2. ASSUME NEW n \in Nat, \A m \in 0 .. n - 1 : m \in T  PROVE n \in T
  <2> SUFFICES ASSUME n <= N
               PROVE  loop[n] \in Cuts(S) /\ \E b : Marks(s, D, N - n, loop[n], b)
    OBVIOUS
  <2> DEFINE a == N - n
             t == rest(s, a)
             pos == find(t, D)
  <2>1. n \in 0 .. N /\ a \in 0 .. N
    BY <1>1
  <2>2. loop[n] = SplitStep(s, D, loop, n)
    <3> HIDE DEF loop
    <3> QED BY <1>1, <2>1
  <2> HIDE DEF loop
  <2>3. /\ t \in Seq(S) /\ t = Window(s, a, N) /\ Len(t) = n
        /\ pos # npos => /\ pos \in Nat /\ pos + Len(D) <= n
                         /\ findFrom(s, D, a) = a + pos
                         /\ substr(t, 0, pos) = Window(s, a, a + pos)
                         /\ substr(t, 0, pos) \in Seq(S)
        /\ pos = npos => findFrom(s, D, a) = npos
    BY <2>1, FindInRest
  <2>4. loop[n] = IF pos = npos THEN [parts |-> <<>>, left |-> t]
                  ELSE [loop[n - (pos + Len(D))] EXCEPT !.parts = <<substr(t, 0, pos)>> \o @]
    BY <2>2 DEF SplitStep
  <2> HIDE DEF t, pos, a, N
  <2>5. CASE pos = npos
    <3> DEFINE b == [k \in 0 .. 0 |-> a]
               cut == [parts |-> <<>>, left |-> t]
    <3>1. loop[n] = cut /\ Len(cut.parts) = 0 /\ cut.left = t /\ cut \in Cuts(S)
      BY <2>3, <2>4, <2>5 DEF Cuts
    <3>2. b \in [0 .. 0 -> 0 .. N] /\ b[0] = a
      BY <2>1
    <3> HIDE DEF b, cut
    <3>3. Marks(s, D, a, cut, b)
      BY <2>3, <2>5, <3>1, <3>2 DEF Marks, N
    <3> QED BY <3>1, <3>3 DEF a
  <2>6. CASE pos # npos
    <3> DEFINE m == n - (pos + Len(D))
               p == substr(t, 0, pos)
    <3>1. m \in 0 .. n - 1 /\ m <= N /\ N - m = (a + pos) + Len(D)
      BY <1>1, <2>1, <2>3, <2>6 DEF a
    <3> HIDE DEF m
    <3>2. m \in T
      BY <1>2, <3>1
    <3>3. loop[m] \in Cuts(S) /\ \E b : Marks(s, D, N - m, loop[m], b)
      BY <3>1, <3>2
    <3>4. PICK b : Marks(s, D, (a + pos) + Len(D), loop[m], b)
      BY <3>1, <3>3
    <3> DEFINE cut == loop[m]
               new == [cut EXCEPT !.parts = <<p>> \o @]
    <3>5. loop[n] = new
      BY <2>4, <2>6 DEF m
    <3>6. p \in Seq(S) /\ p = Window(s, a, a + pos) /\ pos \in Nat
          /\ findFrom(s, D, a) = a + pos
      BY <2>3, <2>6
    <3>7. a \in 0 .. Len(s) /\ cut \in Cuts(S) /\ Marks(s, D, (a + pos) + Len(D), cut, b)
      BY <2>1, <3>3, <3>4 DEF N
    <3> HIDE DEF p, cut
    <3>8. new \in Cuts(S) /\ \E h : Marks(s, D, a, new, h)
      BY Zenon, <3>6, <3>7, MarksStep
    <3> QED BY <3>5, <3>8 DEF a
  <2> QED BY <2>5, <2>6
<1> HIDE DEF T
<1>3. Nat \subseteq T
  BY <1>2, StrongInduction
<1>4. N \in T /\ N <= N /\ N - N = 0
  BY <1>1, <1>3
<1> QED BY <1>4 DEF T, split

-----------------------------------------------------------------------------
(***************************************************************************)
(* What the other string functions return.                                 *)
(***************************************************************************)
\* A part of a sequence, which may be empty, is a sequence of the same symbols.
LEMMA PartType ==
  ASSUME NEW S, NEW s \in Seq(S), NEW m \in Nat, NEW n \in Int,
         1 <= m, n <= Len(s)
  PROVE  SubSeq(s, m, n) \in Seq(S)
<1>1. CASE m <= n + 1
  <2>1. n \in Nat
    BY <1>1
  <2> QED BY <1>1, <2>1, PartPlaces
<1>2. CASE m > n + 1
  <2>1. SubSeq(s, m, n) = <<>>
    BY <1>2
  <2> QED BY <2>1
<1> QED BY <1>1, <1>2

\* substr and rest of a string.
LEMMA SubstrType ==
  ASSUME NEW S, NEW s \in Seq(S), NEW p \in Nat, NEW n \in Int
  PROVE  substr(s, p, n) \in Seq(S) /\ rest(s, p) \in Seq(S)
<1> DEFINE e == IF p + n < Len(s) THEN p + n ELSE Len(s)
           q == p + 1
<1>1. e \in Int /\ e <= Len(s) /\ q \in Nat /\ 1 <= q /\ Len(s) \in Int /\ Len(s) <= Len(s)
  OBVIOUS
<1> HIDE DEF e, q
<1>2. SubSeq(s, q, e) \in Seq(S)
  BY <1>1, PartType
<1>3. SubSeq(s, q, Len(s)) \in Seq(S)
  BY <1>1, PartType
<1> QED BY <1>2, <1>3 DEF substr, rest, e, q

\* Among numbers up to a bound there is a greatest.
LEMMA HighestExists ==
  ASSUME NEW T, NEW n \in Nat, T \subseteq 0 .. n, T # {}
  PROVE  Max(T) \in T
<1> DEFINE U == {n - x : x \in T}
<1>1. U \subseteq Nat /\ U # {}
  <2>1. \A x \in T : n - x \in Nat
    OBVIOUS
  <2> QED BY <2>1
<1>2. PICK g \in U : \A h \in U : g <= h
  <2> HIDE DEF U
  <2> QED BY <1>1, LowestExists
<1>3. PICK x \in T : g = n - x
  BY <1>2
<1>4. \A y \in T : x >= y
  <2> SUFFICES ASSUME NEW y \in T  PROVE x >= y
    OBVIOUS
  <2>1. n - y \in U
    OBVIOUS
  <2>2. n - x <= n - y
    BY <1>2, <1>3, <2>1
  <2> QED BY <2>2
<1> QED BY Zenon, <1>4 DEF Max

\* rfind gives npos, or an occurrence at pos or before.
LEMMA RfindType ==
  ASSUME NEW S, NEW s \in Seq(S), NEW R, NEW D \in Seq(R), NEW pos \in Nat
  PROVE  LET f == rfind(s, D, pos)
         IN  f # npos => f \in Nat /\ f <= pos /\ f + Len(D) <= Len(s)
<1> DEFINE at == {k \in Occurrences(s, D) : k <= pos}
<1>1. at \subseteq 0 .. pos /\ \A k \in at : k + Len(D) <= Len(s)
  BY DEF Occurrences
<1>2. CASE at = {}
  BY <1>2 DEF rfind
<1>3. CASE at # {}
  <2>1. rfind(s, D, pos) = Max(at)
    BY <1>3 DEF rfind
  <2> HIDE DEF at
  <2>2. Max(at) \in at
    BY <1>1, <1>3, HighestExists
  <2> DEFINE f == rfind(s, D, pos)
  <2>3. f \in at
    BY <2>1, <2>2
  <2> HIDE DEF f
  <2>4. f \in 0 .. pos /\ f + Len(D) <= Len(s)
    BY <1>1, <2>3
  <2> QED BY <2>4 DEF f
<1> QED BY <1>2, <1>3

\* What one turn of the loop of rsplit makes of what the later turns give.
RsplitStep(s, D, f, pos) ==
  LET n == Len(D)
      FindPos == rfind(s, D, pos)
      part == substr(s, FindPos + n, pos - FindPos)
  IN  IF FindPos = npos THEN <<substr(s, 0, pos + n)>>
      ELSE IF FindPos < n THEN <<part, substr(s, 0, FindPos)>>
      ELSE <<part>> \o f[FindPos - n]

\* The loop computes something.
LEMMA RsplitUnfolds ==
  ASSUME NEW S, NEW s \in Seq(S), NEW R, NEW D \in Seq(R), Len(D) >= 1
  PROVE  RsplitLoop(s, D) = [pos \in 0 .. Len(s) |-> RsplitStep(s, D, RsplitLoop(s, D), pos)]
<1> DEFINE N == Len(s)
           n == Len(D)
           V == Seq(Seq(S))
           at(pos) == rfind(s, D, pos)
           part(pos) == IF at(pos) = npos THEN <<>>
                        ELSE substr(s, at(pos) + n, pos - at(pos))
           stop == [pos \in 0 .. N |-> at(pos) = npos \/ at(pos) < n]
           base == [pos \in 0 .. N |-> IF at(pos) = npos THEN <<substr(s, 0, pos + n)>>
                                       ELSE <<part(pos), substr(s, 0, at(pos))>>]
           prev == [pos \in 0 .. N |-> at(pos) - n]
           step == [pos \in 0 .. N |-> [v \in V |-> <<part(pos)>> \o v]]
<1>1. N \in Nat /\ n \in Nat /\ n >= 1
  OBVIOUS
<1>2. \A pos \in 0 .. N : at(pos) # npos => at(pos) \in Nat /\ at(pos) <= pos
  BY RfindType
<1> HIDE DEF N, n, at
<1>3. ASSUME NEW pos \in 0 .. N
      PROVE  /\ part(pos) \in Seq(S) /\ substr(s, 0, pos + n) \in Seq(S)
             /\ at(pos) # npos => substr(s, 0, at(pos)) \in Seq(S)
  <2>1. pos + n \in Int /\ 0 \in Nat
    BY <1>1
  <2>2. ASSUME at(pos) # npos
        PROVE  at(pos) + n \in Nat /\ pos - at(pos) \in Int /\ at(pos) \in Int
    BY <1>1, <1>2, <2>2
  <2>3. substr(s, 0, pos + n) \in Seq(S)
    BY <2>1, SubstrType
  <2>4. ASSUME at(pos) # npos
        PROVE  substr(s, at(pos) + n, pos - at(pos)) \in Seq(S) /\ substr(s, 0, at(pos)) \in Seq(S)
    BY <2>1, <2>2, <2>4, SubstrType
  <2> QED BY <2>3, <2>4
<1> HIDE DEF part
<1>4. Descends(0 .. N, V, stop, base, prev, step)
  <2>1. stop \in [0 .. N -> BOOLEAN]
    OBVIOUS
  <2>2. base \in [0 .. N -> V]
    BY <1>3
  <2>3. step \in [0 .. N -> [V -> V]]
    <3>1. ASSUME NEW pos \in 0 .. N, NEW v \in V  PROVE <<part(pos)>> \o v \in V
      BY <1>3
    <3> HIDE DEF V
    <3> QED BY <3>1
  <2>4. ASSUME NEW pos \in 0 .. N, ~stop[pos]  PROVE prev[pos] \in 0 .. pos - 1
    <3>1. at(pos) # npos /\ ~(at(pos) < n)
      BY Zenon, <2>4
    <3> QED BY <1>1, <1>2, <3>1
  <2> HIDE DEF stop, base, prev, step
  <2> QED BY <2>1, <2>2, <2>3, <2>4 DEF Descends
<1>5. PICK f : Unfolds(f, 0 .. N, V, stop, base, prev, step)
  <2> HIDE DEF stop, base, prev, step, V
  <2> QED BY <1>1, <1>4, RangeRecursion
<1>6. ASSUME NEW pos \in 0 .. N  PROVE f[pos] = RsplitStep(s, D, f, pos)
  <2>1. f[pos] = IF stop[pos] THEN base[pos] ELSE step[pos][f[prev[pos]]]
    <3> HIDE DEF stop, base, prev, step, V
    <3> QED BY <1>5 DEF Unfolds
  <2>2. CASE at(pos) = npos
    BY Zenon, <2>1, <2>2 DEF RsplitStep, at, n
  <2>3. CASE at(pos) # npos /\ at(pos) < n
    BY Zenon, <2>1, <2>3 DEF RsplitStep, at, n, part
  <2>4. CASE at(pos) # npos /\ ~(at(pos) < n)
    <3>1. prev[pos] \in 0 .. N /\ prev[pos] = at(pos) - n
      BY <1>1, <1>2, <2>4
    <3> HIDE DEF prev
    <3>2. f[prev[pos]] \in V
      <4> HIDE DEF stop, base, prev, step, V
      <4> QED BY <1>5, <3>1 DEF Unfolds
    <3>3. f[pos] = <<part(pos)>> \o f[prev[pos]]
      <4> HIDE DEF V
      <4> QED BY <2>1, <2>4, <3>2
    <3> QED BY <2>4, <3>1, <3>3 DEF RsplitStep, at, n, part
  <2> QED BY <2>2, <2>3, <2>4
<1>7. f = [pos \in 0 .. N |-> RsplitStep(s, D, f, pos)]
  <2>1. f \in [0 .. N -> V]
    BY <1>5 DEF Unfolds
  <2> QED BY <2>1, <1>6
<1>8. \E g : g = [pos \in 0 .. N |-> RsplitStep(s, D, g, pos)]
  BY <1>7
<1> QED BY Zenon, <1>8 DEF RsplitLoop, RsplitStep, N

\* rsplit returns a list of strings.
LEMMA RsplitType ==
  ASSUME NEW S, NEW s \in Seq(S), NEW R, NEW D \in Seq(R), Len(D) >= 1,
         NEW StartPos \in 0 .. Len(s)
  PROVE  rsplit(s, StartPos, D) \in Seq(Seq(S))
<1> DEFINE N == Len(s)
           loop == RsplitLoop(s, D)
           T == {pos \in Nat : pos <= N => loop[pos] \in Seq(Seq(S))}
<1>1. loop = [pos \in 0 .. N |-> RsplitStep(s, D, loop, pos)] /\ N \in Nat /\ Len(D) \in Nat
  BY RsplitUnfolds
<1> HIDE DEF loop
<1>2. ASSUME NEW pos \in Nat, \A m \in 0 .. pos - 1 : m \in T  PROVE pos \in T
  <2> SUFFICES ASSUME pos <= N  PROVE loop[pos] \in Seq(Seq(S))
    OBVIOUS
  <2> DEFINE at == rfind(s, D, pos)
             n == Len(D)
  <2>1. loop[pos] = RsplitStep(s, D, loop, pos)
    BY <1>1
  <2>2. at # npos => at \in Nat /\ at <= pos
    BY RfindType
  <2>3. n \in Nat /\ n >= 1
    OBVIOUS
  <2> HIDE DEF at, n
  <2>4. CASE at = npos
    <3>1. substr(s, 0, pos + n) \in Seq(S)
      BY <2>3, SubstrType
    <3> QED BY <2>1, <2>4, <3>1 DEF RsplitStep, at, n
  <2>5. CASE at # npos
    <3> DEFINE part == substr(s, at + n, pos - at)
    <3>1. part \in Seq(S) /\ substr(s, 0, at) \in Seq(S)
      <4>1. at + n \in Nat /\ pos - at \in Int /\ 0 \in Nat /\ at \in Int
        BY <2>2, <2>3, <2>5
      <4> QED BY <4>1, SubstrType
    <3>2. loop[pos] = IF at < n THEN <<part, substr(s, 0, at)>> ELSE <<part>> \o loop[at - n]
      BY <2>1, <2>5 DEF RsplitStep, at, n
    <3> HIDE DEF part
    <3>3. ~(at < n) => loop[at - n] \in Seq(Seq(S))
      <4> SUFFICES ASSUME ~(at < n)  PROVE loop[at - n] \in Seq(Seq(S))
        OBVIOUS
      <4>1. at - n \in 0 .. pos - 1 /\ at - n <= N
        BY <1>1, <2>2, <2>3, <2>5
      <4> QED BY <1>2, <4>1
    <3> QED BY <3>1, <3>2, <3>3
  <2> QED BY <2>4, <2>5
<1> HIDE DEF T
<1>3. Nat \subseteq T
  BY <1>2, StrongInduction
<1>4. ASSUME NEW pos \in 0 .. N  PROVE loop[pos] \in Seq(Seq(S))
  <2>1. pos \in T
    BY <1>3
  <2> QED BY <2>1 DEF T
<1> DEFINE pos == StartPos - Len(D)
<1>5. substr(s, 0, StartPos) \in Seq(S)
  BY SubstrType
<1>6. CASE pos < 0
  BY <1>5, <1>6 DEF rsplit
<1>7. CASE pos >= 0
  <2>1. pos \in 0 .. N
    BY <1>1, <1>7
  <2>2. loop[pos] \in Seq(Seq(S)) /\ <<<<>>>> \in Seq(Seq(S))
    BY <1>4, <2>1
  <2> QED BY <1>7, <2>2 DEF rsplit, loop
<1> QED BY <1>1, <1>6, <1>7

\* A digit is worth 0 to 9.
LEMMA DigitType ==
  ASSUME NEW d \in Range(Digits)  PROVE digit(d) \in 0 .. 9
<1>1. DOMAIN Digits = 1 .. 10
  BY DEF Digits
<1>2. \E k \in 1 .. 10 : Digits[k] = d
  BY <1>1 DEF Range
<1>3. (CHOOSE k \in 1 .. 10 : Digits[k] = d) \in 1 .. 10
  BY <1>2
<1> QED BY <1>3 DEF digit

\* stoi reads a natural number from digits.
LEMMA NumberType ==
  ASSUME NEW S, NEW s \in Seq(S), is_digits(s)  PROVE Number(s) \in Nat
<1> DEFINE N == Len(s)
           Step(f, k) == IF k = 0 THEN 0 ELSE 10 * f[k - 1] + digit(s[k])
           stop == [k \in 0 .. N |-> k = 0]
           base == [k \in 0 .. N |-> 0]
           prev == [k \in 0 .. N |-> k - 1]
           plus(k) == IF k = 0 THEN 0 ELSE digit(s[k])
           step == [k \in 0 .. N |-> [v \in Nat |-> 10 * v + plus(k)]]
<1>1. N \in Nat
  OBVIOUS
<1>2. \A k \in 1 .. N : digit(s[k]) \in Nat
  <2> SUFFICES ASSUME NEW k \in 1 .. N  PROVE digit(s[k]) \in Nat
    OBVIOUS
  <2>1. s[k] \in Range(Digits)
    BY DEF is_digits, Range
  <2> QED BY <2>1, DigitType
<1> HIDE DEF N
<1>3. \A k \in 0 .. N : plus(k) \in Nat
  BY <1>1, <1>2
<1>4. Descends(0 .. N, Nat, stop, base, prev, step)
  <2>1. stop \in [0 .. N -> BOOLEAN]
    OBVIOUS
  <2>2. base \in [0 .. N -> Nat]
    OBVIOUS
  <2>3. step \in [0 .. N -> [Nat -> Nat]]
    <3> HIDE DEF plus
    <3> QED BY <1>3
  <2>4. ASSUME NEW k \in 0 .. N, ~stop[k]  PROVE prev[k] \in 0 .. k - 1
    <3>1. k # 0
      BY Zenon, <2>4
    <3>2. prev[k] = k - 1
      OBVIOUS
    <3> HIDE DEF prev
    <3> QED BY <1>1, <3>1, <3>2
  <2> HIDE DEF stop, base, prev, step
  <2> QED BY Zenon, <2>1, <2>2, <2>3, <2>4 DEF Descends
<1>5. PICK f : Unfolds(f, 0 .. N, Nat, stop, base, prev, step)
  <2> HIDE DEF stop, base, prev, step
  <2> QED BY <1>1, <1>4, RangeRecursion
<1>6. ASSUME NEW k \in 0 .. N  PROVE f[k] = Step(f, k)
  <2>1. f[k] = IF stop[k] THEN base[k] ELSE step[k][f[prev[k]]]
    <3> HIDE DEF stop, base, prev, step
    <3> QED BY <1>5 DEF Unfolds
  <2>2. CASE k = 0
    BY Zenon, <2>1, <2>2
  <2>3. CASE k # 0
    <3>1. k - 1 \in 0 .. N /\ prev[k] = k - 1
      BY <1>1, <2>3
    <3>2. f[k - 1] \in Nat
      <4> HIDE DEF stop, base, prev, step
      <4> QED BY <1>5, <3>1 DEF Unfolds
    <3> QED BY <2>1, <2>3, <3>1, <3>2
  <2> QED BY <2>2, <2>3
<1>7. f = [k \in 0 .. N |-> Step(f, k)]
  <2>1. f \in [0 .. N -> Nat]
    BY <1>5 DEF Unfolds
  <2> HIDE DEF Step
  <2> QED BY <2>1, <1>6
<1> DEFINE value == CHOOSE g : g = [k \in 0 .. N |-> Step(g, k)]
<1>8. value = [k \in 0 .. N |-> Step(value, k)]
  <2>1. \E g : g = [k \in 0 .. N |-> Step(g, k)]
    BY <1>7
  <2> HIDE DEF Step
  <2> QED BY Zenon, <2>1
<1>9. Number(s) = value[N]
  BY DEF Number, N
<1> HIDE DEF value
<1> DEFINE T == {k \in Nat : k <= N => value[k] \in Nat}
<1>10. 0 \in T
  BY <1>1, <1>8
<1>11. ASSUME NEW k \in Nat, k \in T  PROVE k + 1 \in T
  <2> SUFFICES ASSUME k + 1 <= N  PROVE value[k + 1] \in Nat
    OBVIOUS
  <2>1. k + 1 \in 1 .. N /\ k + 1 \in 0 .. N /\ (k + 1) - 1 = k /\ k <= N
    BY <1>1
  <2>2. value[k + 1] = 10 * value[k] + digit(s[k + 1])
    BY <1>8, <2>1
  <2> QED BY <1>2, <1>11, <2>1, <2>2
<1> HIDE DEF T
<1>12. Nat \subseteq T
  BY <1>10, <1>11, SetInduction
<1>13. N \in T
  BY <1>1, <1>12
<1> QED BY <1>1, <1>9, <1>13 DEF T

-----------------------------------------------------------------------------
(***************************************************************************)
(* What the parser takes from a head.                                      *)
(***************************************************************************)
\* The members of a sequence.
LEMMA MemberType ==
  ASSUME NEW A, NEW s \in Seq(A), NEW k \in 1 .. Len(s)  PROVE s[k] \in A
  OBVIOUS

Delimiter(D) == Len(D) \in Nat /\ Len(D) >= 1 /\ \E R : D \in Seq(R)

\* The delimiters the parser looks for.
LEMMA Delimiters ==
  /\ Delimiter(CRLF) /\ Len(CRLF) = 2
  /\ Delimiter(HTTP_1_1_END_MARKER) /\ Len(HTTP_1_1_END_MARKER) = 4
  /\ Delimiter(<<"LF">>) /\ Delimiter(<<"?">>) /\ Delimiter(<<"&">>)
  /\ Delimiter(<<"=">>) /\ Delimiter(<<" ">>) /\ Delimiter(<<":", " ">>)
<1> DEFINE R == {"CR", "LF", "?", "&", "=", " ", ":"}
<1>1. CRLF \in Seq(R) /\ Len(CRLF) = 2
  BY DEF CRLF
<1>2. HTTP_1_1_END_MARKER \in Seq(R) /\ Len(HTTP_1_1_END_MARKER) = 4
  <2> HIDE DEF R
  <2>1. CRLF \o CRLF \in Seq(R)
    BY <1>1
  <2>2. Len(CRLF \o CRLF) = 4
    <3>1. \A x \in Seq(R) : Len(x \o x) = Len(x) + Len(x)
      OBVIOUS
    <3> DEFINE n == Len(CRLF)
    <3>2. Len(CRLF \o CRLF) = n + n
      BY Zenon, <1>1, <3>1
    <3>3. n = 2
      BY <1>1
    <3> HIDE DEF n
    <3> QED BY <3>2, <3>3
  <2> QED BY <2>1, <2>2 DEF HTTP_1_1_END_MARKER
<1>3. ASSUME NEW x \in R  PROVE Delimiter(<<x>>)
  <2> HIDE DEF R
  <2>1. <<x>> \in Seq(R) /\ Len(<<x>>) = 1
    OBVIOUS
  <2> QED BY <2>1 DEF Delimiter
<1>4. <<":", " ">> \in Seq(R) /\ Len(<<":", " ">>) = 2
  OBVIOUS
<1>5. Delimiter(<<":", " ">>)
  <2> DEFINE D == <<":", " ">>
  <2>1. D \in Seq(R) /\ Len(D) = 2
    BY <1>4
  <2> HIDE DEF D, R
  <2>2. Delimiter(D)
    BY <2>1 DEF Delimiter
  <2> QED BY <2>2 DEF D
<1>6. Delimiter(CRLF) /\ Delimiter(HTTP_1_1_END_MARKER)
  <2> HIDE DEF R
  <2> QED BY <1>1, <1>2 DEF Delimiter
<1> QED BY <1>1, <1>2, <1>3, <1>5, <1>6

\* find, split, splitView, rsplit and Pair on strings over S.
LEMMA StringFunctions ==
  ASSUME NEW S, NEW s \in Seq(S), NEW D, Delimiter(D)
  PROVE  /\ find(s, D) = npos \/ find(s, D) \in 0 .. Len(s)
         /\ split(s, D).parts \in Seq(Seq(S)) /\ split(s, D).left \in Seq(S)
         /\ splitView(s, D) \in Seq(Seq(S))
         /\ Append(split(s, D).parts, split(s, D).left) \in Seq(Seq(S))
         /\ \A StartPos \in 0 .. Len(s) : rsplit(s, StartPos, D) \in Seq(Seq(S))
         /\ Pair(s, D) \in Seq(S) \X Seq(S)
<1>1. PICK R : D \in Seq(R) /\ Len(D) >= 1
  BY DEF Delimiter
<1>2. Len(s) \in Nat /\ Len(D) \in Nat
  BY <1>1
<1> DEFINE pos == find(s, D)
           cut == split(s, D)
<1>3. pos = npos \/ pos \in 0 .. Len(s)
  <2> DEFINE at == {k \in Occurrences(s, D) : k >= 0}
  <2>1. at = {} => pos = npos
    BY <1>1, FindFirst DEF find
  <2>2. at # {} => pos \in at
    BY <1>1, FindFirst DEF find
  <2>3. at \subseteq 0 .. Len(s)
    BY <1>2 DEF Occurrences
  <2> HIDE DEF at, pos
  <2> QED BY <2>1, <2>2, <2>3
<1>4. cut.parts \in Seq(Seq(S)) /\ cut.left \in Seq(S)
  <2>1. cut \in Cuts(S)
    BY <1>1, SplitIsExact
  <2> HIDE DEF cut
  <2> QED BY <2>1 DEF Cuts
<1>5. Append(cut.parts, cut.left) \in Seq(Seq(S))
  <2> HIDE DEF cut
  <2> QED BY <1>4
<1>6. splitView(s, D) \in Seq(Seq(S))
  BY <1>4, <1>5 DEF splitView
<1>7. \A StartPos \in 0 .. Len(s) : rsplit(s, StartPos, D) \in Seq(Seq(S))
  BY <1>1, RsplitType
<1>8. Pair(s, D) \in Seq(S) \X Seq(S)
  <2> HIDE DEF pos
  <2> DEFINE q == pos + Len(D)
  <2>1. pos \in Int /\ q \in Nat
    BY <1>1, <1>2, <1>3 DEF npos
  <2> HIDE DEF q
  <2>2. substr(s, 0, pos) \in Seq(S) /\ rest(s, q) \in Seq(S)
    BY <2>1, SubstrType
  <2> QED BY <2>2 DEF Pair, pos, q
<1> QED BY <1>3, <1>4, <1>5, <1>6, <1>7, <1>8

\* Pairs of one string each out of a list of strings.
LEMMA HeadersType ==
  ASSUME NEW S, NEW Request \in Seq(S), NEW build
  PROVE  Headers(build, Request) \in SUBSET (Seq(S) \X Seq(S))
<1>1. _parseRequestHeaders(Request) \in SUBSET (Seq(S) \X Seq(S))
  <2> DEFINE chomp(l) ==
               IF l # <<>> /\ l[Len(l)] = "CR" THEN substr(l, 0, Len(l) - 1) ELSE l
             lines == splitView(Request, <<"LF">>)
             pairs == [k \in DOMAIN lines |-> Pair(chomp(lines[k]), <<":", " ">>)]
             good == {k \in DOMAIN lines : <<>> \notin Range(pairs[k])}
  <2>1. lines \in Seq(Seq(S))
    BY Delimiters, StringFunctions
  <2> HIDE DEF lines
  <2>2. ASSUME NEW l \in Seq(S)  PROVE chomp(l) \in Seq(S)
    <3>1. Len(l) - 1 \in Int /\ 0 \in Nat
      OBVIOUS
    <3>2. substr(l, 0, Len(l) - 1) \in Seq(S)
      BY <3>1, SubstrType
    <3> QED BY <3>2
  <2>3. ASSUME NEW k \in DOMAIN lines  PROVE Pair(chomp(lines[k]), <<":", " ">>) \in Seq(S) \X Seq(S)
    <3> DEFINE l == chomp(lines[k])
    <3>1. lines[k] \in Seq(S)
      BY <2>1
    <3>2. l \in Seq(S)
      <4> HIDE DEF chomp
      <4> QED BY <2>2, <3>1
    <3> HIDE DEF l
    <3>3. Pair(l, <<":", " ">>) \in Seq(S) \X Seq(S)
      BY <3>2, Delimiters, StringFunctions
    <3> QED BY Zenon, <3>3 DEF l
  <2> HIDE DEF chomp
  <2>4. \A k \in good : pairs[k] \in Seq(S) \X Seq(S)
    BY <2>3
  <2>5. _parseRequestHeaders(Request) = emplace(pairs, good)
    BY DEF _parseRequestHeaders, HeaderPairs, lines, chomp
  <2> HIDE DEF pairs, good
  <2> QED BY <2>4, <2>5 DEF emplace
<1>2. _parseRequestHeadersCpp11(Request) \in SUBSET (Seq(S) \X Seq(S))
  <2> DEFINE cut == split(Request, CRLF)
             lines == Append(cut.parts, cut.left)
             HeaderPair(k) == rsplit(lines[k], Len(lines[k]), <<":", " ">>)
             good == {k \in DOMAIN lines : /\ Len(HeaderPair(k)) = 2
                                           /\ <<>> \notin Range(HeaderPair(k))}
             pairs == [k \in good |-> <<HeaderPair(k)[2], HeaderPair(k)[1]>>]
  <2>1. lines \in Seq(Seq(S))
    BY Delimiters, StringFunctions
  <2> HIDE DEF cut, lines
  <2>2. ASSUME NEW k \in DOMAIN lines  PROVE HeaderPair(k) \in Seq(Seq(S))
    <3> DEFINE l == lines[k]
    <3>1. l \in Seq(S) /\ Len(l) \in 0 .. Len(l)
      <4>1. l \in Seq(S)
        BY <2>1
      <4> QED BY <4>1
    <3> HIDE DEF l
    <3>2. rsplit(l, Len(l), <<":", " ">>) \in Seq(Seq(S))
      BY <3>1, Delimiters, StringFunctions
    <3> QED BY <3>2 DEF l
  <2> HIDE DEF HeaderPair
  <2>3. ASSUME NEW k \in good  PROVE pairs[k] \in Seq(S) \X Seq(S)
    <3>1. HeaderPair(k) \in Seq(Seq(S)) /\ Len(HeaderPair(k)) = 2
      BY <2>2
    <3>2. HeaderPair(k)[1] \in Seq(S) /\ HeaderPair(k)[2] \in Seq(S)
      <4> DEFINE h == HeaderPair(k)
                 A == Seq(S)
      <4>1. h \in Seq(A) /\ 1 \in 1 .. Len(h) /\ 2 \in 1 .. Len(h)
        BY <3>1
      <4> HIDE DEF h, A
      <4>2. h[1] \in A /\ h[2] \in A
        BY <4>1, MemberType
      <4> QED BY <4>2 DEF h, A
    <3> QED BY <3>2
  <2>4. _parseRequestHeadersCpp11(Request) = emplace(pairs, good)
    BY DEF _parseRequestHeadersCpp11, HeaderPairsCpp11, cut, lines, HeaderPair
  <2> HIDE DEF pairs, good
  <2> QED BY <2>3, <2>4 DEF emplace
<1> QED BY <1>1, <1>2 DEF Headers

\* The parameters of a URL.
LEMMA ParametersType ==
  ASSUME NEW S, NEW URL \in Seq(S), NEW build
  PROVE  Parameters(build, URL) \in SUBSET (Seq(S) \X Seq(S))
<1>1. ASSUME NEW parts \in Seq(Seq(S))
      PROVE  ParamValuePairs(parts) \in SUBSET (Seq(S) \X Seq(S))
  <2> DEFINE pairs == [k \in DOMAIN parts |-> Pair(parts[k], <<"=">>)]
             good == {k \in DOMAIN parts : pairs[k][1] # <<>>}
  <2>1. ASSUME NEW k \in DOMAIN parts  PROVE Pair(parts[k], <<"=">>) \in Seq(S) \X Seq(S)
    <3> DEFINE l == parts[k]
    <3>1. l \in Seq(S)
      OBVIOUS
    <3> HIDE DEF l
    <3>2. Pair(l, <<"=">>) \in Seq(S) \X Seq(S)
      BY <3>1, Delimiters, StringFunctions
    <3> QED BY <3>2 DEF l
  <2>2. \A k \in good : pairs[k] \in Seq(S) \X Seq(S)
    BY <2>1
  <2>3. ParamValuePairs(parts) = emplace(pairs, good)
    BY DEF ParamValuePairs
  <2> HIDE DEF pairs, good
  <2> QED BY <2>2, <2>3 DEF emplace
<1> DEFINE pos == find(URL, <<"?">>)
           query == rest(URL, pos + 1)
<1>2. pos # npos => query \in Seq(S)
  <2>1. pos = npos \/ pos + 1 \in Nat
    <3>1. pos = npos \/ pos \in 0 .. Len(URL)
      BY Delimiters, StringFunctions
    <3> QED BY <3>1
  <2> DEFINE q == pos + 1
  <2> HIDE DEF q
  <2>2. q \in Nat => rest(URL, q) \in Seq(S)
    BY SubstrType
  <2> QED BY <2>1, <2>2 DEF q
<1> HIDE DEF pos, query
<1>3. query \in Seq(S) =>
        /\ splitView(query, <<"&">>) \in Seq(Seq(S))
        /\ split(query, <<"&">>).parts \in Seq(Seq(S))
        /\ Append(split(query, <<"&">>).parts, split(query, <<"&">>).left) \in Seq(Seq(S))
  BY Delimiters, StringFunctions
<1>4. _parseGETParameter(URL) \in SUBSET (Seq(S) \X Seq(S))
  BY <1>1, <1>2, <1>3 DEF _parseGETParameter, pos, query
<1>5. _parseGETParameterCpp11(URL) \in SUBSET (Seq(S) \X Seq(S))
  BY Zenon, <1>1, <1>2, <1>3 DEF _parseGETParameterCpp11, pos, query
<1> QED BY <1>4, <1>5 DEF Parameters

\* The properties of a head.
LEMMA PropertiesType ==
  ASSUME NEW S, "/" \in S, NEW Request \in Seq(S), NEW build
  PROVE  /\ DefaultProperties \in RequestProperties_t(S)
         /\ _parseRequestProperties(Request) \in RequestProperties_t(S)
         /\ Properties(build, Request) \in RequestProperties_t(S)
         /\ Properties(build, Request).HTTPMethod
              = _parseRequestProperties(Request).HTTPMethod
<1>1. DefaultProperties \in RequestProperties_t(S)
  <2>1. <<"/">> \in Seq(S) /\ <<>> \in Seq(S)
    OBVIOUS
  <2> QED BY <2>1 DEF DefaultProperties, RequestProperties_t
<1>2. _parseRequestProperties(Request) \in RequestProperties_t(S)
  <2> DEFINE StartPos == find(Request, CRLF)
             at == IF StartPos = npos THEN Len(Request) ELSE StartPos
             words == rsplit(Request, at, <<" ">>)
  <2>1. at \in 0 .. Len(Request)
    <3>1. StartPos = npos \/ StartPos \in 0 .. Len(Request)
      BY Delimiters, StringFunctions
    <3> HIDE DEF StartPos
    <3> QED BY <3>1
  <2> HIDE DEF at
  <2>2. words \in Seq(Seq(S))
    BY <2>1, Delimiters, StringFunctions
  <2>3. Len(words) = 3 => words[2] \in Seq(S)
    <3> DEFINE A == Seq(S)
    <3> HIDE DEF words
    <3> DEFINE n == Len(words)
    <3>1. words \in Seq(A) /\ (n = 3 => 2 \in 1 .. n)
      <4>1. words \in Seq(A)
        BY <2>2
      <4> HIDE DEF n
      <4> QED BY <4>1
    <3> HIDE DEF A
    <3>2. Len(words) = 3 => words[2] \in A
      BY <3>1, MemberType
    <3> QED BY <3>2 DEF A
  <2> DEFINE HTTPVersion == IF has(words[1], <<"HTTP/1.1">>) THEN "1.1" ELSE "unknown"
             HTTPMethod == IF has(words[3], <<"GET">>) THEN "GET"
                           ELSE IF has(words[3], <<"POST">>) THEN "POST" ELSE "OTHER"
  <2>4. _parseRequestProperties(Request) =
          IF Len(words) # 3 THEN DefaultProperties
          ELSE [DefaultProperties EXCEPT !.HTTPVersion = HTTPVersion,
                                         !.HTTPMethod = HTTPMethod, !.URL = words[2]]
    BY DEF _parseRequestProperties, WordProperties, DefaultProperties, at
  <2>5. HTTPVersion \in {"unknown", "1.1"} /\ HTTPMethod \in {"OTHER", "GET", "POST"}
    OBVIOUS
  <2> HIDE DEF words, HTTPVersion, HTTPMethod
  <2> QED BY Zenon, <1>1, <2>3, <2>4, <2>5 DEF RequestProperties_t
<1> DEFINE props == _parseRequestProperties(Request)
           headers == Headers(build, Request)
           params == IF props.HTTPMethod = "GET" THEN Parameters(build, props.URL)
                     ELSE props.URLParams
<1>3. Properties(build, Request)
        = [props EXCEPT !.RequestHeaders = headers, !.URLParams = params]
  BY DEF Properties
<1> HIDE DEF props
<1>4. headers \in SUBSET (Seq(S) \X Seq(S))
  BY HeadersType
<1>5. params \in SUBSET (Seq(S) \X Seq(S))
  <2>1. props.URL \in Seq(S) /\ props.URLParams \in SUBSET (Seq(S) \X Seq(S))
    BY <1>2 DEF RequestProperties_t, props
  <2> QED BY <2>1, ParametersType
<1> HIDE DEF headers, params
<1> QED BY <1>1, <1>2, <1>3, <1>4, <1>5 DEF RequestProperties_t, props

-----------------------------------------------------------------------------
(***************************************************************************)
(* The state that _processRequests works on.                               *)
(***************************************************************************)
Parsing(S) ==
  [splits : Seq(Seq(S)), buffer : Seq(S), wait : BOOLEAN,
   length : 0 .. LengthMod - 1, props : RequestProperties_t(S),
   requests : Seq(RequestProperties_t(S)), ok : BOOLEAN, thrown : BOOLEAN]

\* A request with another payload.
LEMMA PayloadType ==
  ASSUME NEW S, NEW props \in RequestProperties_t(S), NEW payload \in Seq(S)
  PROVE  [props EXCEPT !.Payload = payload] \in RequestProperties_t(S)
  BY Zenon DEF RequestProperties_t

\* A request that is handed out.
LEMMA PushType ==
  ASSUME NEW S, NEW st \in Parsing(S), NEW payload \in Seq(S)
  PROVE  /\ Push(st, payload) \in Parsing(S)
         /\ Push(st, payload).splits = st.splits
         /\ Push(st, payload).buffer = st.buffer
         /\ Push(st, payload).wait = st.wait
         /\ Push(st, payload).ok = st.ok
         /\ Push(st, payload).thrown = st.thrown
         /\ Push(st, payload).requests =
              Append(st.requests, [st.props EXCEPT !.Payload = payload])
<1> DEFINE props == [st.props EXCEPT !.Payload = payload]
<1>1. st.props \in RequestProperties_t(S) /\ st.requests \in Seq(RequestProperties_t(S))
  BY DEF Parsing
<1>2. props \in RequestProperties_t(S)
  BY <1>1, PayloadType
<1>3. Push(st, payload) = [st EXCEPT !.props = props, !.requests = Append(st.requests, props)]
  BY DEF Push
<1> HIDE DEF props
<1> DEFINE requests == Append(st.requests, props)
<1>4. requests \in Seq(RequestProperties_t(S))
  BY <1>1, <1>2
<1> HIDE DEF requests
<1>5. [st EXCEPT !.props = props, !.requests = requests] \in Parsing(S)
  BY <1>2, <1>4 DEF Parsing
<1> DEFINE new == Push(st, payload)
<1>6. new = [st EXCEPT !.props = props, !.requests = requests]
  BY <1>3 DEF requests
<1> HIDE DEF new
<1>7. /\ new.splits = st.splits /\ new.buffer = st.buffer /\ new.wait = st.wait
      /\ new.ok = st.ok /\ new.thrown = st.thrown /\ new.requests = requests
  BY <1>6 DEF Parsing
<1> QED BY <1>3, <1>5, <1>7 DEF props, requests, new

\* The length a head announces.
LEMMA ContentLengthType ==
  ASSUME NEW S, NEW props \in RequestProperties_t(S), HasLength(props)
  PROVE  Number(LengthValue(props)) \in Nat /\ ContentLength(props) \in 0 .. LengthMod - 1
<1> DEFINE value == LengthValue(props)
<1>1. value \in ContentLengths(props) /\ is_digits(value)
  BY DEF HasLength, LengthValue
<1>2. ContentLengths(props) \subseteq Seq(S)
  <2>1. props.RequestHeaders \subseteq Seq(S) \X Seq(S)
    BY DEF RequestProperties_t
  <2> QED BY <2>1 DEF ContentLengths
<1> HIDE DEF value
<1>3. Number(value) \in Nat
  BY <1>1, <1>2, NumberType
<1>4. LengthMod \in Nat \ {0}
  BY ParserAssumption
<1> DEFINE n == Number(value)
<1>5. n % LengthMod \in 0 .. LengthMod - 1
  <2>1. n \in Nat
    BY <1>3
  <2> HIDE DEF n
  <2> QED BY <1>4, <2>1
<1> QED BY <1>3, <1>5 DEF ContentLength, value

\* The branches of TakePayload.
LEMMA TakePayloadType ==
  ASSUME NEW S, NEW st \in Parsing(S), NEW Index \in 1 .. Len(st.splits)
  PROVE  LET new == TakePayload(st, Index)
         IN  /\ new \in Parsing(S)
             /\ Len(new.splits) = Len(st.splits)
             /\ Len(new.buffer) <= Len(st.buffer)
<1> DEFINE n == st.length
           new == TakePayload(st, Index)
           j == Index + 1
<1>1. /\ st.splits \in Seq(Seq(S)) /\ st.buffer \in Seq(S) /\ n \in Nat
      /\ Len(st.splits) \in Nat /\ Len(st.buffer) \in Nat
  BY ParserAssumption DEF Parsing
<1>2. CASE Len(st.splits) = 1
  <2>1. CASE Len(st.buffer) >= n
    <3> DEFINE payload == substr(st.buffer, 0, n)
               left == rest(st.buffer, n)
    <3>1. payload \in Seq(S) /\ left \in Seq(S) /\ Len(left) <= Len(st.buffer)
      <4>1. n \in 0 .. Len(st.buffer) /\ n \in Int /\ 0 \in Nat
        BY <1>1, <2>1
      <4>2. payload \in Seq(S)
        BY Zenon, <1>1, <4>1, SubstrType
      <4>3. left \in Seq(S) /\ Len(left) = Len(st.buffer) - n
        BY <1>1, <4>1, RestIsWindow
      <4> QED BY <1>1, <4>2, <4>3
    <3>2. new = [Push(st, payload) EXCEPT !.buffer = rest(Push(st, payload).buffer, n)]
      BY <1>2, <2>1 DEF TakePayload
    <3> HIDE DEF payload
    <3>3. Push(st, payload) \in Parsing(S) /\ Push(st, payload).buffer = st.buffer
          /\ Push(st, payload).splits = st.splits
      <4>1. payload \in Seq(S)
        BY <3>1
      <4> QED BY Zenon, <4>1, PushType
    <3> HIDE DEF left
    <3>4. new = [Push(st, payload) EXCEPT !.buffer = left]
      BY <3>2, <3>3 DEF left
    <3> HIDE DEF new
    <3>5. new \in Parsing(S) /\ new.splits = st.splits /\ new.buffer = left
      BY Zenon, <3>1, <3>3, <3>4 DEF Parsing
    <3> QED BY <3>1, <3>5 DEF new
  <2>2. CASE ~(Len(st.buffer) >= n)
    <3>1. new = [st EXCEPT !.wait = TRUE]
      BY <1>2, <2>2 DEF TakePayload
    <3> HIDE DEF new
    <3>2. new \in Parsing(S) /\ new.splits = st.splits /\ new.buffer = st.buffer
      BY Zenon, <3>1 DEF Parsing
    <3> QED BY <1>1, <3>2 DEF new
  <2> QED BY <2>1, <2>2
<1>3. CASE Len(st.splits) # 1
  <2>1. CASE j > Len(st.splits)
    <3>1. new = [st EXCEPT !.thrown = TRUE]
      BY <1>3, <2>1 DEF TakePayload, Throw
    <3> HIDE DEF new
    <3>2. new \in Parsing(S) /\ new.splits = st.splits /\ new.buffer = st.buffer
      BY <3>1 DEF Parsing
    <3> QED BY <1>1, <3>2 DEF new
  <2>2. CASE j <= Len(st.splits)
    <3> DEFINE part == st.splits[j]
    <3>1. j \in 1 .. Len(st.splits) /\ part \in Seq(S)
      <4>1. j \in 1 .. Len(st.splits)
        BY <1>1, <2>2
      <4> QED BY <1>1, <4>1
    <3>2. CASE Len(part) >= n
      <4> DEFINE payload == substr(part, 0, n)
                 left == rest(part, n)
      <4>1. payload \in Seq(S) /\ left \in Seq(S)
        <5> HIDE DEF part
        <5>1. n \in Int /\ 0 \in Nat /\ n \in Nat
          BY <1>1
        <5> QED BY Zenon, <3>1, <5>1, SubstrType
      <4>2. new = [Push(st, payload) EXCEPT
                     !.splits = [Push(st, payload).splits EXCEPT ![j] = left]]
        BY <1>1, <1>3, <2>2, <3>2 DEF TakePayload
      <4> HIDE DEF payload
      <4>3. Push(st, payload) \in Parsing(S) /\ Push(st, payload).buffer = st.buffer
            /\ Push(st, payload).splits = st.splits
        <5>1. payload \in Seq(S)
          BY <4>1
        <5> QED BY <5>1, PushType
      <4> DEFINE splits == [st.splits EXCEPT ![j] = left]
      <4>4. splits \in Seq(Seq(S)) /\ Len(splits) = Len(st.splits)
        <5> HIDE DEF left, j
        <5> QED BY <1>1, <3>1, <4>1
      <4>5. new = [Push(st, payload) EXCEPT !.splits = splits]
        BY <4>2, <4>3
      <4> HIDE DEF new, splits, left
      <4>6. new \in Parsing(S) /\ new.splits = splits /\ new.buffer = st.buffer
        BY Zenon, <4>3, <4>4, <4>5 DEF Parsing
      <4> QED BY <1>1, <4>4, <4>6 DEF new
    <3>3. CASE ~(Len(part) >= n)
      <4>1. new = [st EXCEPT !.ok = FALSE]
        BY <1>1, <1>3, <2>2, <3>3 DEF TakePayload, Refuse
      <4> HIDE DEF new
      <4>2. new \in Parsing(S) /\ new.splits = st.splits /\ new.buffer = st.buffer
        BY Zenon, <4>1 DEF Parsing
      <4> QED BY <1>1, <4>2 DEF new
    <3> QED BY <3>2, <3>3
  <2> QED BY <1>1, <2>1, <2>2
<1> QED BY <1>2, <1>3

\* TakePOST keeps the types, the number of parts, and makes the buffer no longer.
LEMMA TakePOSTType ==
  ASSUME NEW S, NEW st \in Parsing(S), NEW Index \in 1 .. Len(st.splits)
  PROVE  LET new == TakePOST(st, Index)
         IN  /\ new \in Parsing(S)
             /\ Len(new.splits) = Len(st.splits)
             /\ Len(new.buffer) <= Len(st.buffer)
<1> DEFINE new == TakePOST(st, Index)
           n == ContentLength(st.props)
           sized == [st EXCEPT !.length = n]
<1>1. st.props \in RequestProperties_t(S) /\ Len(st.buffer) \in Nat
  BY DEF Parsing
<1>2. CASE ~HasLength(st.props)
  <2>1. new = [st EXCEPT !.ok = FALSE]
    BY <1>2 DEF TakePOST, Refuse
  <2> HIDE DEF new
  <2>2. new \in Parsing(S) /\ new.splits = st.splits /\ new.buffer = st.buffer
    BY Zenon, <2>1 DEF Parsing
  <2> QED BY <1>1, <2>2 DEF new
<1>3. CASE HasLength(st.props)
  <2>1. n \in 0 .. LengthMod - 1
    BY <1>1, <1>3, ContentLengthType
  <2> HIDE DEF n
  <2>2. sized \in Parsing(S) /\ sized.splits = st.splits /\ sized.buffer = st.buffer
        /\ sized.length = n
    BY Zenon, <2>1 DEF Parsing
  <2>3. new = IF Number(LengthValue(st.props)) > IntMax THEN [st EXCEPT !.thrown = TRUE]
              ELSE IF TooLarge(sized.length) THEN [sized EXCEPT !.ok = FALSE]
              ELSE TakePayload(sized, Index)
    BY <1>3 DEF TakePOST, Refuse, Throw, n
  <2> HIDE DEF sized
  <2>4. CASE new = [st EXCEPT !.thrown = TRUE]
    <3> HIDE DEF new
    <3>1. new \in Parsing(S) /\ new.splits = st.splits /\ new.buffer = st.buffer
      BY Zenon, <2>4 DEF Parsing
    <3> QED BY <1>1, <3>1 DEF new
  <2>5. CASE new = [sized EXCEPT !.ok = FALSE]
    <3> HIDE DEF new
    <3>1. new \in Parsing(S) /\ new.splits = sized.splits /\ new.buffer = sized.buffer
      BY <2>2, <2>5 DEF Parsing
    <3> QED BY <1>1, <2>2, <3>1 DEF new
  <2>6. CASE new = TakePayload(sized, Index)
    <3> HIDE DEF new
    <3>1. sized \in Parsing(S) /\ Index \in 1 .. Len(sized.splits)
      BY <2>2
    <3>2. /\ TakePayload(sized, Index) \in Parsing(S)
          /\ Len(TakePayload(sized, Index).splits) = Len(sized.splits)
          /\ Len(TakePayload(sized, Index).buffer) <= Len(sized.buffer)
      BY <3>1, TakePayloadType
    <3> QED BY <2>2, <2>6, <3>2 DEF new
  <2> QED BY <2>3, <2>4, <2>5, <2>6
<1> QED BY <1>2, <1>3

\* So does _processRequestProperties.
LEMMA StepType ==
  ASSUME NEW S, "/" \in S, NEW st \in Parsing(S), NEW Index \in 1 .. Len(st.splits)
  PROVE  LET new == _processRequestProperties(st, Index)
         IN  /\ new \in Parsing(S)
             /\ Len(new.splits) = Len(st.splits)
             /\ Len(new.buffer) <= Len(st.buffer)
<1> DEFINE new == _processRequestProperties(st, Index)
           Request == st.splits[Index]
           props == _parseRequestProperties(Request)
           all == Properties(connection.build, Request)
           base == [st EXCEPT !.props = props]
           full == [st EXCEPT !.props = all]
<1>1. Request \in Seq(S) /\ Len(st.buffer) \in Nat
  <2>1. st.splits \in Seq(Seq(S)) /\ st.buffer \in Seq(S)
    BY DEF Parsing
  <2> QED BY <2>1
<1> HIDE DEF Request
<1>2. props \in RequestProperties_t(S) /\ all \in RequestProperties_t(S)
  BY <1>1, PropertiesType
<1>3. new = IF Request = <<>> THEN [st EXCEPT !.ok = FALSE]
            ELSE IF props.HTTPVersion # "1.1" \/ props.HTTPMethod = "OTHER"
            THEN [base EXCEPT !.ok = FALSE]
            ELSE IF props.HTTPMethod = "GET" THEN Push(full, <<>>)
            ELSE TakePOST(full, Index)
  BY DEF _processRequestProperties, Refuse, Request
<1> HIDE DEF props, all
<1>4. base \in Parsing(S) /\ base.splits = st.splits /\ base.buffer = st.buffer
  BY Zenon, <1>2 DEF Parsing
<1>5. full \in Parsing(S) /\ full.splits = st.splits /\ full.buffer = st.buffer
  BY <1>2 DEF Parsing
<1> HIDE DEF base, full, new
<1>6. CASE new = [st EXCEPT !.ok = FALSE]
  <2>1. new \in Parsing(S) /\ new.splits = st.splits /\ new.buffer = st.buffer
    BY Zenon, <1>6 DEF Parsing
  <2> QED BY <1>1, <2>1 DEF new
<1>7. CASE new = [base EXCEPT !.ok = FALSE]
  <2>1. new \in Parsing(S) /\ new.splits = base.splits /\ new.buffer = base.buffer
    BY <1>4, <1>7 DEF Parsing
  <2> QED BY <1>1, <1>4, <2>1 DEF new
<1>8. CASE new = Push(full, <<>>)
  <2> DEFINE none == <<>>
  <2>1. none \in Seq(S) /\ new = Push(full, none)
    BY <1>8
  <2> HIDE DEF none
  <2>2. Push(full, none) \in Parsing(S) /\ Push(full, none).splits = full.splits
        /\ Push(full, none).buffer = full.buffer
    BY <1>5, <2>1, PushType
  <2> QED BY <1>1, <1>5, <2>1, <2>2 DEF new
<1>9. CASE new = TakePOST(full, Index)
  <2>1. Index \in 1 .. Len(full.splits)
    BY <1>5
  <2>2. /\ TakePOST(full, Index) \in Parsing(S)
        /\ Len(TakePOST(full, Index).splits) = Len(full.splits)
        /\ Len(TakePOST(full, Index).buffer) <= Len(full.buffer)
    BY <1>5, <2>1, TakePOSTType
  <2> QED BY <1>5, <1>9, <2>2 DEF new
<1> QED BY <1>3, <1>6, <1>7, <1>8, <1>9

\* One turn of the loop of _processRequests.
Turn(st, k) ==
  IF ~st.ok \/ st.thrown THEN st ELSE _processRequestProperties(st, k)

\* The loop, from a state st of the parser to the one after each request.
LEMMA LoopType ==
  ASSUME NEW S, "/" \in S, NEW st \in Parsing(S)
  PROVE  LET after == _processRequests(st)
             m == Len(st.splits)
         IN  /\ after[0] = st
             /\ \A k \in 1 .. m : after[k] = Turn(after[k - 1], k)
             /\ \A k \in 0 .. m : /\ after[k] \in Parsing(S)
                                  /\ Len(after[k].splits) = m
                                  /\ Len(after[k].buffer) <= Len(st.buffer)
<1> DEFINE m == Len(st.splits)
           V == {x \in Parsing(S) : Len(x.splits) = m /\ Len(x.buffer) <= Len(st.buffer)}
           Step(f, k) == IF k = 0 THEN st ELSE Turn(f[k - 1], k)
           stop == [k \in 0 .. m |-> k = 0]
           base == [k \in 0 .. m |-> st]
           prev == [k \in 0 .. m |-> k - 1]
           turn(x, k) == IF k = 0 THEN x ELSE Turn(x, k)
           step == [k \in 0 .. m |-> [x \in V |-> turn(x, k)]]
<1>1. m \in Nat /\ Len(st.buffer) \in Nat
  BY DEF Parsing
<1>2. st \in V
  BY <1>1
<1>3. ASSUME NEW x \in V, NEW k \in 1 .. m  PROVE Turn(x, k) \in V
  <2>1. x \in Parsing(S) /\ Len(x.splits) = m /\ Len(x.buffer) <= Len(st.buffer)
    OBVIOUS
  <2>2. Len(x.buffer) \in Nat
    BY <2>1 DEF Parsing
  <2> DEFINE new == _processRequestProperties(x, k)
  <2>3. new \in Parsing(S) /\ Len(new.splits) = Len(x.splits) /\ Len(new.buffer) <= Len(x.buffer)
    <3>1. k \in 1 .. Len(x.splits)
      BY <2>1
    <3> QED BY <2>1, <3>1, StepType
  <2> HIDE DEF new
  <2>4. Len(new.buffer) \in Nat
    BY <2>3 DEF Parsing
  <2>5. new \in V
    BY <1>1, <2>1, <2>2, <2>3, <2>4
  <2> HIDE DEF V
  <2> QED BY <2>5 DEF Turn, new
<1> HIDE DEF m, V
<1>4. Descends(0 .. m, V, stop, base, prev, step)
  <2>1. stop \in [0 .. m -> BOOLEAN]
    OBVIOUS
  <2>2. base \in [0 .. m -> V]
    BY <1>2
  <2>3. step \in [0 .. m -> [V -> V]]
    <3>1. ASSUME NEW k \in 0 .. m, NEW x \in V  PROVE turn(x, k) \in V
      <4>1. k = 0 \/ k \in 1 .. m
        BY <1>1
      <4> QED BY <1>3, <4>1
    <3> HIDE DEF turn
    <3> QED BY <3>1
  <2>4. ASSUME NEW k \in 0 .. m, ~stop[k]  PROVE prev[k] \in 0 .. k - 1
    <3>1. k # 0
      BY Zenon, <2>4
    <3>2. prev[k] = k - 1
      OBVIOUS
    <3> HIDE DEF prev
    <3> QED BY <1>1, <3>1, <3>2
  <2> HIDE DEF stop, base, prev, step
  <2> QED BY <2>1, <2>2, <2>3, <2>4 DEF Descends
<1>5. PICK f : Unfolds(f, 0 .. m, V, stop, base, prev, step)
  <2> HIDE DEF stop, base, prev, step
  <2> QED BY <1>1, <1>4, RangeRecursion
<1>6. ASSUME NEW k \in 0 .. m  PROVE f[k] = Step(f, k)
  <2>1. f[k] = IF stop[k] THEN base[k] ELSE step[k][f[prev[k]]]
    <3> HIDE DEF stop, base, prev, step
    <3> QED BY <1>5 DEF Unfolds
  <2>2. CASE k = 0
    BY Zenon, <2>1, <2>2
  <2>3. CASE k # 0
    <3>1. k - 1 \in 0 .. m /\ prev[k] = k - 1
      BY <1>1, <2>3
    <3>2. f[k - 1] \in V
      <4> HIDE DEF stop, base, prev, step
      <4> QED BY <1>5, <3>1 DEF Unfolds
    <3> QED BY <2>1, <2>3, <3>1, <3>2
  <2> QED BY <2>2, <2>3
<1>7. f = [k \in 0 .. m |-> Step(f, k)]
  <2>1. f \in [0 .. m -> V]
    BY <1>5 DEF Unfolds
  <2> HIDE DEF Step
  <2> QED BY <2>1, <1>6
<1> DEFINE after == CHOOSE g : g = [k \in 0 .. m |-> Step(g, k)]
<1>8. after = [k \in 0 .. m |-> Step(after, k)]
  <2>1. \E g : g = [k \in 0 .. m |-> Step(g, k)]
    BY <1>7
  <2> HIDE DEF Step
  <2> QED BY Zenon, <2>1
<1>9. _processRequests(st) = after
  BY DEF _processRequests, m, Turn
<1> HIDE DEF after
<1>10. after[0] = st /\ \A k \in 1 .. m : after[k] = Turn(after[k - 1], k)
  BY <1>1, <1>8
<1> DEFINE T == {k \in Nat : k <= m => after[k] \in V}
<1>11. 0 \in T
  BY <1>2, <1>10
<1>12. ASSUME NEW k \in Nat, k \in T  PROVE k + 1 \in T
  <2> SUFFICES ASSUME k + 1 <= m  PROVE after[k + 1] \in V
    OBVIOUS
  <2> DEFINE j == k + 1
  <2>1. j \in 1 .. m /\ j - 1 = k /\ k <= m
    BY <1>1
  <2> HIDE DEF j
  <2>2. after[j] = Turn(after[k], j) /\ after[k] \in V
    BY <1>10, <1>12, <2>1
  <2>3. after[j] \in V
    BY <1>3, <2>1, <2>2
  <2> QED BY <2>3 DEF j
<1> HIDE DEF T
<1>13. Nat \subseteq T
  BY <1>11, <1>12, SetInduction
<1>14. \A k \in 0 .. m : after[k] \in V
  BY <1>1, <1>13 DEF T
<1> QED BY <1>9, <1>10, <1>14 DEF m, V

-----------------------------------------------------------------------------
(***************************************************************************)
(* The types: the connection never changes, and every string the parser    *)
(* holds is made of what was received.                                     *)
(***************************************************************************)
TypeInv == TypeOK /\ connection \in Connections

\* The connection, as the proofs use it.
LEMMA ConnectionType ==
  ASSUME connection \in Connections
  PROVE  /\ stream \in Seq(Received) /\ "/" \in Received
         /\ connection.bufferMax \in Nat
<1>1. stream \in Seq(STRING) /\ connection.bufferMax \in Nat
  BY ParserAssumption DEF stream
<1> DEFINE s == stream
<1>2. \A k \in 1 .. Len(s) : s[k] \in Received
  BY <1>1 DEF Received, Range
<1> HIDE DEF s
<1>3. s \in Seq(Received)
  BY <1>1, <1>2 DEF s
<1> QED BY <1>1, <1>3 DEF s, Received

\* The record that appendBuffer hands to _processRequests.
Begin(buffer) ==
  [splits |-> split(buffer, HTTP_1_1_END_MARKER).parts,
   buffer |-> split(buffer, HTTP_1_1_END_MARKER).left,
   wait |-> _POSTWaitContentLength, length |-> _POSTContentLength,
   props |-> _RequestProperties, requests |-> _Requests,
   ok |-> TRUE, thrown |-> FALSE]

LEMMA BeginType ==
  ASSUME TypeInv, NEW buffer \in Seq(Received)
  PROVE  Begin(buffer) \in Parsing(Received) /\ Len(Begin(buffer).buffer) <= Len(buffer)
<1> DEFINE D == HTTP_1_1_END_MARKER
           cut == split(buffer, D)
<1>1. PICK R : D \in Seq(R) /\ Len(D) >= 1
  BY Delimiters DEF Delimiter
<1> HIDE DEF D
<1>2. cut \in Cuts(Received) /\ \E b : Marks(buffer, D, 0, cut, b)
  BY <1>1, SplitIsExact
<1> HIDE DEF cut
<1>3. cut.parts \in Seq(Seq(Received)) /\ cut.left \in Seq(Received)
  BY <1>2 DEF Cuts
<1>4. Len(cut.left) <= Len(buffer)
  <2>1. PICK b : Marks(buffer, D, 0, cut, b)
    BY <1>2
  <2> DEFINE m == Len(cut.parts)
  <2>2. m \in Nat /\ m \in 0 .. m
    BY <1>3
  <2>3. b \in [0 .. m -> 0 .. Len(buffer)] /\ cut.left = Window(buffer, b[m], Len(buffer))
    BY <2>1 DEF Marks
  <2> HIDE DEF m
  <2>4. b[m] \in Nat /\ b[m] <= Len(buffer) /\ Len(buffer) \in Nat
    BY <2>2, <2>3
  <2>5. PICK a \in Nat : a = b[m]
    BY <2>4
  <2>6. PICK n \in Nat : n = Len(buffer)
    BY <2>4
  <2>7. Len(Window(buffer, a, n)) = n - a
    <3>1. a <= n /\ n <= Len(buffer) /\ buffer \in Seq(Received)
      BY <2>4, <2>5, <2>6
    <3> QED BY <3>1, WindowType
  <2> QED BY <2>3, <2>4, <2>5, <2>6, <2>7
<1>5. Begin(buffer) =
        [splits |-> cut.parts, buffer |-> cut.left,
         wait |-> _POSTWaitContentLength, length |-> _POSTContentLength,
         props |-> _RequestProperties, requests |-> _Requests,
         ok |-> TRUE, thrown |-> FALSE]
  BY DEF Begin, cut, D
<1> QED BY <1>3, <1>4, <1>5 DEF TypeInv, TypeOK, Parsing

\* What a chunk is, and what it makes of the buffer.
LEMMA ChunkType ==
  ASSUME TypeInv, NEW to \in fed + 1 .. Len(stream)
  PROVE  LET chunk == SubSeq(stream, fed + 1, to)
         IN  /\ to \in Nat /\ fed \in Nat /\ fed < to
             /\ chunk = Window(stream, fed, to)
             /\ chunk \in Seq(Received) /\ Len(chunk) = to - fed
             /\ _HTTPRequestBuffer \o chunk \in Seq(Received)
             /\ Len(_HTTPRequestBuffer \o chunk) = Len(_HTTPRequestBuffer) + Len(chunk)
<1>1. stream \in Seq(Received) /\ fed \in Nat /\ to \in Nat /\ fed < to /\ to <= Len(stream)
      /\ _HTTPRequestBuffer \in Seq(Received) /\ fed <= to
  BY ConnectionType DEF TypeInv, TypeOK
<1> DEFINE chunk == Window(stream, fed, to)
<1>2. chunk \in Seq(Received) /\ Len(chunk) = to - fed
  BY <1>1, WindowType
<1> HIDE DEF chunk
<1>3. /\ _HTTPRequestBuffer \o chunk \in Seq(Received)
      /\ Len(_HTTPRequestBuffer \o chunk) = Len(_HTTPRequestBuffer) + Len(chunk)
  BY <1>1, <1>2
<1> QED BY <1>1, <1>2, <1>3 DEF chunk, Window

LEMMA FeedType ==
  ASSUME TypeInv, NEW to \in fed + 1 .. Len(stream), fed' = to,
         connection' = connection,
         LET chunk == SubSeq(stream, fed + 1, to)
         IN  Dropped(chunk) \/ CompletePOST(chunk) \/ ProcessHeads(chunk)
  PROVE  TypeInv'
<1> DEFINE chunk == SubSeq(stream, fed + 1, to)
           buffer == _HTTPRequestBuffer \o chunk
<1>1. /\ chunk \in Seq(Received) /\ Len(chunk) \in Nat /\ to \in 0 .. Len(stream)
      /\ buffer \in Seq(Received) /\ Len(buffer) = Len(_HTTPRequestBuffer) + Len(chunk)
  BY ChunkType
<1>2. Dropped(chunk) \/ CompletePOST(chunk) \/ ProcessHeads(chunk)
  OBVIOUS
<1>3. stream' = stream /\ Received' = Received /\ (fed \in 0 .. Len(stream))'
      /\ (connection \in Connections)'
  BY <1>1 DEF stream, Received, TypeInv
<1>4. /\ _HTTPRequestBuffer \in Seq(Received) /\ _POSTWaitContentLength \in BOOLEAN
      /\ _POSTContentLength \in 0 .. LengthMod - 1
      /\ _RequestProperties \in RequestProperties_t(Received)
      /\ _Requests \in Seq(RequestProperties_t(Received))
      /\ _RequestParseError \in {0, 400} /\ thrown \in BOOLEAN /\ lost \in BOOLEAN
      /\ Len(_HTTPRequestBuffer) <= connection.bufferMax /\ connection.bufferMax \in Nat
  BY ConnectionType DEF TypeInv, TypeOK
<1>5. SUFFICES /\ _HTTPRequestBuffer' \in Seq(Received)
               /\ Len(_HTTPRequestBuffer') <= connection.bufferMax
               /\ _POSTWaitContentLength' \in BOOLEAN
               /\ _POSTContentLength' \in 0 .. LengthMod - 1
               /\ _RequestProperties' \in RequestProperties_t(Received)
               /\ _Requests' \in Seq(RequestProperties_t(Received))
               /\ _RequestParseError' \in {0, 400} /\ thrown' \in BOOLEAN /\ lost' \in BOOLEAN
  BY <1>3 DEF TypeInv, TypeOK
<1> HIDE DEF chunk
<1>6. CASE Dropped(chunk)
  BY <1>4, <1>6 DEF Dropped
<1>7. CASE CompletePOST(chunk)
  <2> DEFINE n == _POSTContentLength
             payload == substr(buffer, 0, n)
  <2>1. Len(buffer) <= connection.bufferMax /\ Len(buffer) \in Nat
    BY <1>1, <1>4, <1>7 DEF CompletePOST, Overflows
  <2>2. n \in 0 .. Len(buffer) /\ n \in Nat
    BY <1>4, <1>7, <2>1, ParserAssumption DEF CompletePOST, PayloadArrived
  <2>3. payload \in Seq(Received)
    <3> HIDE DEF buffer
    <3>1. 0 \in Nat /\ n \in Int
      BY <2>2
    <3> HIDE DEF n
    <3> QED BY <1>1, <3>1, SubstrType
  <2>4. rest(buffer, n) \in Seq(Received) /\ Len(rest(buffer, n)) = Len(buffer) - n
    BY <1>1, <2>2, RestIsWindow
  <2>5. /\ _RequestProperties' = [_RequestProperties EXCEPT !.Payload = payload]
        /\ _HTTPRequestBuffer' = rest(buffer, n)
        /\ _Requests' = Append(_Requests, _RequestProperties')
        /\ _POSTWaitContentLength' = FALSE
        /\ UNCHANGED <<_POSTContentLength, _RequestParseError, thrown, lost>>
    BY <1>7 DEF CompletePOST
  <2> HIDE DEF n, payload, buffer
  <2>6. _RequestProperties' \in RequestProperties_t(Received)
    BY <1>4, <2>3, <2>5, PayloadType
  <2>7. _Requests' \in Seq(RequestProperties_t(Received))
    BY <1>4, <2>5, <2>6
  <2>8. Len(_HTTPRequestBuffer') <= connection.bufferMax
    BY <1>4, <2>1, <2>2, <2>4, <2>5
  <2> QED BY <1>4, <2>4, <2>5, <2>6, <2>7, <2>8
<1>8. CASE ProcessHeads(chunk)
  <2> DEFINE st == _processRequests(Begin(buffer))[Len(Begin(buffer).splits)]
  <2>1. Len(buffer) <= connection.bufferMax /\ Len(buffer) \in Nat
    <3>1. ~(Len(_HTTPRequestBuffer) + Len(chunk) > connection.bufferMax)
      BY Zenon, <1>8 DEF ProcessHeads, Overflows
    <3>2. Len(_HTTPRequestBuffer) \in Nat /\ connection.bufferMax \in Nat
      BY <1>4
    <3> HIDE DEF buffer
    <3> QED BY <1>1, <3>1, <3>2
  <2>2. /\ _HTTPRequestBuffer' = st.buffer /\ _POSTWaitContentLength' = st.wait
        /\ _POSTContentLength' = st.length /\ _RequestProperties' = st.props
        /\ _Requests' = st.requests
        /\ _RequestParseError' = IF st.ok THEN _RequestParseError ELSE 400
        /\ thrown' = st.thrown /\ UNCHANGED lost
    BY <1>8 DEF ProcessHeads, Processed, Begin
  <2>3. st \in Parsing(Received) /\ Len(st.buffer) <= Len(Begin(buffer).buffer)
    <3> DEFINE m == Len(Begin(buffer).splits)
    <3>1. Begin(buffer) \in Parsing(Received) /\ "/" \in Received
      BY Zenon, <1>1, BeginType, ConnectionType DEF TypeInv
    <3>2. m \in Nat
      BY <3>1 DEF Parsing
    <3> HIDE DEF m
    <3>3. m \in 0 .. m
      BY <3>2
    <3> HIDE DEF buffer
    <3>4. \A k \in 0 .. m : /\ _processRequests(Begin(buffer))[k] \in Parsing(Received)
                            /\ Len(_processRequests(Begin(buffer))[k].buffer)
                                 <= Len(Begin(buffer).buffer)
      BY Zenon, <3>1, LoopType DEF m
    <3> QED BY <3>3, <3>4 DEF m
  <2>4. Len(Begin(buffer).buffer) <= Len(buffer) /\ Begin(buffer) \in Parsing(Received)
    BY <1>1, BeginType
  <2> HIDE DEF st, buffer
  <2>5. Len(st.buffer) \in Nat /\ Len(Begin(buffer).buffer) \in Nat
    BY <2>3, <2>4 DEF Parsing
  <2>6. Len(st.buffer) <= connection.bufferMax
    BY <1>4, <2>1, <2>3, <2>4, <2>5
  <2> QED BY <1>4, <2>2, <2>3, <2>6 DEF Parsing
<1> QED BY <1>2, <1>6, <1>7, <1>8

\* TypeOK is inductive, with the connection.
LEMMA TypeInductive == TypeInv /\ [Next]_vars => TypeInv'
<1> SUFFICES ASSUME TypeInv, [Next]_vars  PROVE TypeInv'
  OBVIOUS
<1>1. CASE Feed
  BY <1>1, FeedType DEF Feed
<1>2. CASE UNCHANGED vars
  BY <1>2 DEF vars, TypeInv, TypeOK, Received, stream
<1> QED BY <1>1, <1>2 DEF Next, appendBuffer, appendBufferCpp11

\* The types hold initially.
LEMMA InitType == Init => TypeInv
<1> SUFFICES ASSUME Init  PROVE TypeInv
  OBVIOUS
<1>1. stream \in Seq(Received) /\ "/" \in Received /\ connection.bufferMax \in Nat
  BY ConnectionType DEF Init
<1> DEFINE none == <<>>
<1>2. none \in Seq(Received) /\ Len(none) = 0
  OBVIOUS
<1>3. DefaultProperties \in RequestProperties_t(Received)
  <2> HIDE DEF none
  <2> QED BY <1>1, <1>2, PropertiesType
<1>4. fed \in 0 .. Len(stream)
  BY <1>1 DEF Init
<1>5. 0 \in 0 .. LengthMod - 1
  BY ParserAssumption
<1>6. /\ connection \in Connections /\ _HTTPRequestBuffer = none
      /\ _POSTWaitContentLength = FALSE /\ _POSTContentLength = 0
      /\ _RequestProperties = DefaultProperties /\ _Requests = none
      /\ _RequestParseError = 0 /\ thrown = FALSE /\ lost = FALSE
  BY DEF Init
<1>7. none \in Seq(RequestProperties_t(Received))
  OBVIOUS
<1> HIDE DEF none
<1>8. _POSTWaitContentLength \in BOOLEAN /\ thrown \in BOOLEAN /\ lost \in BOOLEAN
  BY <1>6
<1>9. _HTTPRequestBuffer \in Seq(Received) /\ Len(_HTTPRequestBuffer) <= connection.bufferMax
  BY <1>1, <1>2, <1>6
<1> QED BY <1>3, <1>4, <1>5, <1>6, <1>7, <1>8, <1>9 DEF TypeInv, TypeOK

(***************************************************************************)
(* Whatever comes over a connection, in whatever chunks: the buffer of the *)
(* parser never outgrows its limit, its strings are made of what was       *)
(* received, and the length of a payload fits a uint16_t.                  *)
(***************************************************************************)
THEOREM TypeCorrect == Spec => []TypeOK
<1>1. TypeInv => TypeOK
  BY DEF TypeInv
<1> QED BY <1>1, InitType, TypeInductive, PTL DEF Spec

-----------------------------------------------------------------------------
(***************************************************************************)
(* The reference: what reading the stream from a position gives.           *)
(***************************************************************************)
Symbols(c) == Range(c.stream) \cup {"/"}

LEMMA ReadFrom ==
  ASSUME NEW c \in Connections, NEW start \in Nat
  PROVE  /\ c.stream \in Seq(Symbols(c)) /\ "/" \in Symbols(c)
         /\ HeadEnd(c, start) = npos \/ HeadEnd(c, start) \in 0 .. Len(c.stream)
         /\ HeadFrom(c, start) \in RequestProperties_t(Symbols(c))
         /\ BodyStart(c, start) = HeadEnd(c, start) + 4 /\ BodyStart(c, start) \in Nat
         /\ BodyLength(c, start) \in Nat
         /\ BodyEnd(c, start) = BodyStart(c, start) + BodyLength(c, start)
         /\ BodyEnd(c, start) \in Nat
<1> DEFINE D == HTTP_1_1_END_MARKER
           S == Symbols(c)
           s == c.stream
           e == HeadEnd(c, start)
           head == SubSeq(s, start + 1, e)
<1>1. s \in Seq(STRING)
  BY ParserAssumption
<1>2. s \in Seq(S) /\ "/" \in S
  <2>1. \A k \in 1 .. Len(s) : s[k] \in S
    BY <1>1 DEF Symbols, Range
  <2> HIDE DEF s
  <2> QED BY <1>1, <2>1 DEF Symbols
<1>3. PICK R : D \in Seq(R) /\ Len(D) = 4
  BY Delimiters DEF Delimiter
<1> HIDE DEF D, S, s
<1>4. e = npos \/ e \in 0 .. Len(s)
  <2> DEFINE at == {k \in Occurrences(s, D) : k >= start}
             f == findFrom(s, D, start)
  <2>1. IF at = {} THEN f = npos ELSE f \in at /\ f \in Nat
    BY <1>2, <1>3, FindFirst
  <2>2. \A k \in at : k \in 0 .. Len(s)
    BY <1>2, <1>3 DEF Occurrences
  <2>3. e = f
    BY DEF HeadEnd, D, s
  <2> HIDE DEF at, f, e
  <2> QED BY <2>1, <2>2, <2>3
<1>5. HeadFrom(c, start) = Properties(c.build, head)
  BY DEF HeadFrom, s
<1>6. head \in Seq(S)
  <2>1. start + 1 \in Nat /\ 1 <= start + 1 /\ e \in Int /\ e <= Len(s)
    BY <1>2, <1>4 DEF npos
  <2> HIDE DEF e
  <2> QED BY <1>2, <2>1, PartType
<1>7. HeadFrom(c, start) \in RequestProperties_t(S)
  <2> HIDE DEF head
  <2> QED BY <1>2, <1>5, <1>6, PropertiesType
<1>8. BodyStart(c, start) = e + 4
  BY <1>3 DEF BodyStart, D
<1>9. BodyLength(c, start) \in Nat
  <2> DEFINE props == HeadFrom(c, start)
  <2>1. HasLength(props) => ContentLength(props) \in 0 .. LengthMod - 1
    BY <1>7, ContentLengthType
  <2>2. HasLength(props) => ContentLength(props) \in Nat
    BY <2>1, ParserAssumption
  <2> QED BY <2>2 DEF BodyLength, Announced
<1>10. BodyEnd(c, start) = BodyStart(c, start) + BodyLength(c, start)
  BY DEF BodyEnd
<1> HIDE DEF e
<1> QED BY <1>2, <1>4, <1>7, <1>8, <1>9, <1>10 DEF S, s, e, npos

\* RequestEnd is what its recursion says.
LEMMA EndUnfolds ==
  ASSUME NEW c \in Connections
  PROVE  /\ RequestEnd(c)[0] = 0
         /\ \A k \in Nat : /\ RequestEnd(c)[k] \in Nat
                           /\ RequestEnd(c)[k + 1] = BodyEnd(c, RequestEnd(c)[k])
<1> DEFINE Step(f, k) == IF k = 0 THEN 0 ELSE BodyEnd(c, f[k - 1])
           stop == [k \in Nat |-> k = 0]
           base == [k \in Nat |-> 0]
           prev == [k \in Nat |-> k - 1]
           step == [k \in Nat |-> [x \in Nat |-> BodyEnd(c, x)]]
<1>1. \A x \in Nat : BodyEnd(c, x) \in Nat
  BY ReadFrom
<1>2. Descends(Nat, Nat, stop, base, prev, step)
  <2>1. stop \in [Nat -> BOOLEAN] /\ base \in [Nat -> Nat]
    OBVIOUS
  <2>2. step \in [Nat -> [Nat -> Nat]]
    BY <1>1
  <2>3. ASSUME NEW k \in Nat, ~stop[k]  PROVE prev[k] \in 0 .. k - 1
    <3>1. k # 0 /\ prev[k] = k - 1
      BY Zenon, <2>3
    <3> HIDE DEF prev
    <3> QED BY <3>1
  <2> HIDE DEF stop, base, prev, step
  <2> QED BY <2>1, <2>2, <2>3 DEF Descends
<1>3. PICK f : Unfolds(f, Nat, Nat, stop, base, prev, step)
  <2> HIDE DEF stop, base, prev, step
  <2> QED BY <1>2, NatRecursion
<1>4. ASSUME NEW k \in Nat  PROVE f[k] = Step(f, k)
  <2>1. f[k] = IF stop[k] THEN base[k] ELSE step[k][f[prev[k]]]
    <3> HIDE DEF stop, base, prev, step
    <3> QED BY <1>3 DEF Unfolds
  <2>2. CASE k = 0
    BY Zenon, <2>1, <2>2
  <2>3. CASE k # 0
    <3>1. k - 1 \in Nat /\ prev[k] = k - 1
      BY <2>3
    <3>2. f[k - 1] \in Nat
      <4> HIDE DEF stop, base, prev, step
      <4> QED BY <1>3, <3>1 DEF Unfolds
    <3> QED BY <2>1, <2>3, <3>1, <3>2
  <2> QED BY <2>2, <2>3
<1>5. f = [k \in Nat |-> Step(f, k)]
  <2>1. f \in [Nat -> Nat]
    BY <1>3 DEF Unfolds
  <2> HIDE DEF Step
  <2> QED BY <2>1, <1>4
<1> DEFINE end == CHOOSE g : g = [k \in Nat |-> Step(g, k)]
<1>6. end = [k \in Nat |-> Step(end, k)]
  <2>1. \E g : g = [k \in Nat |-> Step(g, k)]
    BY <1>5
  <2> HIDE DEF Step
  <2> QED BY <2>1
<1>7. RequestEnd(c) = end
  BY DEF RequestEnd
<1> HIDE DEF end
<1>8. end[0] = 0
  BY <1>6
<1>9. ASSUME NEW k \in Nat  PROVE end[k + 1] = BodyEnd(c, end[k])
  <2> DEFINE j == k + 1
  <2>1. j \in Nat /\ j # 0 /\ j - 1 = k
    OBVIOUS
  <2> HIDE DEF j
  <2>2. end[j] = BodyEnd(c, end[k])
    BY <1>6, <2>1
  <2> QED BY <2>2 DEF j
<1> DEFINE T == {k \in Nat : end[k] \in Nat}
<1>10. Nat \subseteq T
  <2>1. 0 \in T
    BY <1>8
  <2>2. ASSUME NEW k \in Nat, k \in T  PROVE k + 1 \in T
    BY <1>1, <1>9, <2>2
  <2> HIDE DEF T
  <2> QED BY <2>1, <2>2, SetInduction
<1> QED BY <1>7, <1>8, <1>9, <1>10

\* The first occurrence from a position is the first from any between the two.
LEMMA FindLater ==
  ASSUME NEW S, NEW s \in Seq(S), NEW D, Delimiter(D), NEW a \in Nat, NEW e \in Nat,
         findFrom(s, D, a) # npos, a <= e, e <= findFrom(s, D, a)
  PROVE  findFrom(s, D, e) = findFrom(s, D, a)
<1>1. PICK R : D \in Seq(R)
  BY DEF Delimiter
<1> DEFINE from(p) == {k \in Occurrences(s, D) : k >= p}
           f == findFrom(s, D, a)
           g == findFrom(s, D, e)
<1>2. f \in from(a) /\ f \in Nat /\ \A k \in from(a) : f <= k
  BY <1>1, FindFirst
<1>3. IF from(e) = {} THEN g = npos ELSE g \in from(e) /\ g \in Nat /\ \A k \in from(e) : g <= k
  BY <1>1, FindFirst
<1>4. f \in from(e)
  BY <1>2
<1>5. g \in from(a) /\ g \in Nat /\ g <= f
  BY <1>3, <1>4
<1> QED BY <1>2, <1>5

(***************************************************************************)
(* The parts of the window from a to b of s: A marks, in s, where each     *)
(* begins, and where what is left does.                                    *)
(***************************************************************************)
Places(s, D, a, b, cut, A) ==
  LET m == Len(cut.parts)
  IN  /\ A \in [0 .. m -> a .. b]
      /\ A[0] = a
      /\ \A k \in 1 .. m :
           /\ findFrom(s, D, A[k - 1]) \in Nat
           /\ A[k - 1] <= findFrom(s, D, A[k - 1])
           /\ A[k] = findFrom(s, D, A[k - 1]) + Len(D)
           /\ cut.parts[k] = Window(s, A[k - 1], findFrom(s, D, A[k - 1]))
      /\ cut.left = Window(s, A[m], b)

LEMMA SplitOfWindow ==
  ASSUME NEW S, NEW s \in Seq(S), NEW D, Delimiter(D),
         NEW a \in Nat, NEW b \in Nat, a <= b, b <= Len(s)
  PROVE  \E A : Places(s, D, a, b, split(Window(s, a, b), D), A)
<1>1. PICK R : D \in Seq(R) /\ Len(D) \in Nat /\ Len(D) >= 1
  BY DEF Delimiter
<1> DEFINE t == Window(s, a, b)
           cut == split(t, D)
           m == Len(cut.parts)
<1>2. t \in Seq(S) /\ Len(t) = b - a
  BY Zenon, WindowType
<1> HIDE DEF t
<1>3. cut \in Cuts(S) /\ \E h : Marks(t, D, 0, cut, h)
  BY <1>1, <1>2, SplitIsExact
<1> HIDE DEF cut
<1>4. PICK h : Marks(t, D, 0, cut, h)
  BY <1>3
<1>5. m \in Nat
  BY <1>3 DEF Cuts
<1>6. /\ h \in [0 .. m -> 0 .. Len(t)] /\ h[0] = 0
      /\ \A k \in 1 .. m : /\ findFrom(t, D, h[k - 1]) # npos
                           /\ h[k] = findFrom(t, D, h[k - 1]) + Len(D)
                           /\ cut.parts[k] = Window(t, h[k - 1], h[k] - Len(D))
      /\ cut.left = Window(t, h[m], Len(t))
  BY <1>4 DEF Marks
<1> HIDE DEF m
<1> DEFINE A == [k \in 0 .. m |-> a + h[k]]
<1>7. \A k \in 0 .. m : h[k] \in Nat /\ h[k] <= b - a /\ A[k] = a + h[k]
  BY <1>2, <1>6
<1>8. A \in [0 .. m -> a .. b]
  <2>1. \A k \in 0 .. m : a + h[k] \in a .. b
    BY <1>7
  <2> QED BY <2>1
<1>9. A[0] = a
  BY <1>5, <1>6
<1> HIDE DEF A
<1>10. ASSUME NEW k \in 1 .. m
       PROVE  /\ findFrom(s, D, A[k - 1]) \in Nat
              /\ A[k - 1] <= findFrom(s, D, A[k - 1])
              /\ A[k] = findFrom(s, D, A[k - 1]) + Len(D)
              /\ cut.parts[k] = Window(s, A[k - 1], findFrom(s, D, A[k - 1]))
  <2>1. k \in 0 .. m /\ k - 1 \in 0 .. m
    BY <1>5
  <2>2. PICK p \in Nat : p = h[k - 1] /\ p <= b - a /\ A[k - 1] = a + p
    BY <1>7, <2>1
  <2>3. PICK q \in Nat : q = h[k] /\ q <= b - a /\ A[k] = a + q
    BY <1>7, <2>1
  <2> DEFINE f == findFrom(t, D, p)
             g == findFrom(s, D, a + p)
  <2>4. f # npos /\ q = f + Len(D) /\ cut.parts[k] = Window(t, p, q - Len(D))
    BY Zenon, <1>6, <2>2, <2>3
  <2>5. f \in Nat /\ p <= f /\ g = a + f /\ (a + f) + Len(D) <= b
    BY SMTT(30), <1>1, <2>4, FindInWindow DEF t
  <2> HIDE DEF f, g
  <2>6. q - Len(D) = f /\ f <= b - a
    BY <1>1, <2>4, <2>5
  <2>7. Window(t, p, f) = Window(s, a + p, a + f)
    BY <2>5, <2>6, WindowOfWindow DEF t
  <2>8. g \in Nat /\ a + p <= g /\ a + q = g + Len(D)
    BY <1>1, <2>4, <2>5
  <2> QED BY <2>2, <2>3, <2>4, <2>5, <2>6, <2>7, <2>8 DEF g
<1>11. cut.left = Window(s, A[m], b)
  <2>1. m \in 0 .. m
    BY <1>5
  <2>2. PICK p \in Nat : p = h[m] /\ p <= b - a /\ A[m] = a + p
    BY <1>7, <2>1
  <2>3. PICK q \in Nat : q = Len(t) /\ q = b - a
    BY <1>2
  <2>4. Window(t, p, q) = Window(s, a + p, a + q)
    BY <2>2, <2>3, WindowOfWindow DEF t
  <2>5. a + q = b
    BY SMTT(30), <2>3
  <2> QED BY <1>6, <2>2, <2>3, <2>4, <2>5
<1>12. Places(s, D, a, b, cut, A)
  BY <1>8, <1>9, <1>10, <1>11 DEF Places, m
<1> QED BY <1>12 DEF cut, t

\* Without an occurrence there is one part, which is left.
LEMMA SplitOfPlain ==
  ASSUME NEW S, NEW s \in Seq(S), NEW D, Delimiter(D), find(s, D) = npos
  PROVE  split(s, D).parts = <<>> /\ split(s, D).left = s
<1>1. PICK R : D \in Seq(R) /\ Len(D) \in Nat /\ Len(D) >= 1
  BY DEF Delimiter
<1> DEFINE cut == split(s, D)
           m == Len(cut.parts)
<1>2. cut \in Cuts(S) /\ \E h : Marks(s, D, 0, cut, h)
  BY <1>1, SplitIsExact
<1> HIDE DEF cut
<1>3. cut.parts \in Seq(Seq(S)) /\ m \in Nat
  BY <1>2 DEF Cuts
<1>4. PICK h : Marks(s, D, 0, cut, h)
  BY <1>2
<1>5. /\ h[0] = 0 /\ \A k \in 1 .. m : findFrom(s, D, h[k - 1]) # npos
      /\ cut.left = Window(s, h[m], Len(s))
  BY <1>4 DEF Marks
<1> HIDE DEF m
<1>6. m = 0
  <2> SUFFICES ASSUME m # 0  PROVE FALSE
    OBVIOUS
  <2>1. 1 \in 1 .. m
    BY <1>3
  <2>2. findFrom(s, D, h[1 - 1]) # npos
    BY <1>5, <2>1
  <2>3. 1 - 1 = 0
    OBVIOUS
  <2> QED BY <1>5, <2>2, <2>3 DEF find
<1>7. cut.parts = <<>>
  BY <1>3, <1>6 DEF m
<1>8. cut.left = Window(s, 0, Len(s))
  BY <1>5, <1>6
<1>9. Window(s, 0, Len(s)) = s
  <2> DEFINE w == Window(s, 0, Len(s))
  <2>1. PICK z \in Nat : z = 0
    OBVIOUS
  <2>2. PICK n \in Nat : n = Len(s)
    OBVIOUS
  <2>3. Window(s, z, n) \in Seq(S) /\ Len(Window(s, z, n)) = n - z
        /\ \A j \in 1 .. n - z : Window(s, z, n)[j] = s[z + j]
    <3>1. z <= n /\ n <= Len(s)
      BY <2>1, <2>2
    <3> QED BY <3>1, WindowPlaces
  <2>4. w = Window(s, z, n)
    BY <2>1, <2>2
  <2> HIDE DEF w
  <2>5. w \in Seq(S) /\ Len(w) = Len(s) /\ \A j \in 1 .. Len(w) : w[j] = s[j]
    BY <2>1, <2>2, <2>3, <2>4
  <2>6. w = s
    BY <2>5, SameSymbols
  <2> QED BY <2>6 DEF w
<1> QED BY <1>7, <1>8, <1>9 DEF cut

-----------------------------------------------------------------------------
(***************************************************************************)
(* The loop: requests are only added, a wait is not ended, and when the    *)
(* last request is processed without refusal and exception then so were    *)
(* all.                                                                    *)
(***************************************************************************)
Grows(st, new) ==
  /\ Len(new.requests) >= Len(st.requests)
  /\ st.wait => new.wait

LEMMA GrowsStep ==
  ASSUME NEW S, "/" \in S, NEW st \in Parsing(S), NEW Index \in 1 .. Len(st.splits)
  PROVE  Grows(st, _processRequestProperties(st, Index))
<1> DEFINE new == _processRequestProperties(st, Index)
           Same(x) == x.requests = st.requests /\ (st.wait => x.wait)
           More(x) == \E p : x.requests = Append(st.requests, p) /\ x.wait = st.wait
<1>1. st.requests \in Seq(RequestProperties_t(S)) /\ st.wait \in BOOLEAN
  BY DEF Parsing
<1>2. Same(new) \/ More(new)
  BY Zenon DEF _processRequestProperties, TakePOST, TakePayload, Refuse, Throw, Push, Parsing
<1>3. CASE Same(new)
  BY <1>1, <1>3 DEF Grows
<1>4. CASE More(new)
  <2>1. PICK p : new.requests = Append(st.requests, p) /\ new.wait = st.wait
    BY <1>4
  <2> HIDE DEF new
  <2>2. Len(Append(st.requests, p)) = Len(st.requests) + 1
    BY <1>1
  <2> QED BY <1>1, <2>1, <2>2 DEF Grows, new
<1> QED BY Zenon, <1>2, <1>3, <1>4

\* The turns of the loop from st on, as LoopType gives them.
Turns(S, st, after) ==
  LET m == Len(st.splits)
  IN  /\ after[0] = st
      /\ \A k \in 1 .. m : after[k] = Turn(after[k - 1], k)
      /\ \A k \in 0 .. m : after[k] \in Parsing(S) /\ Len(after[k].splits) = m

Fine(x) == x.ok /\ ~x.thrown

LEMMA LoopGrows ==
  ASSUME NEW S, "/" \in S, NEW st \in Parsing(S), NEW after, Turns(S, st, after)
  PROVE  \A k \in 0 .. Len(st.splits) :
           /\ Grows(st, after[k])
           /\ Fine(after[k]) => \A j \in 0 .. k : Fine(after[j])
<1> DEFINE m == Len(st.splits)
           Good(k) == /\ Grows(st, after[k])
                      /\ Fine(after[k]) => \A j \in 0 .. k : Fine(after[j])
           T == {k \in Nat : k <= m => Good(k)}
<1>1. m \in Nat /\ st.requests \in Seq(RequestProperties_t(S))
  BY DEF Parsing
<1>2. /\ after[0] = st
      /\ \A k \in 1 .. m : after[k] = Turn(after[k - 1], k)
      /\ \A k \in 0 .. m : after[k] \in Parsing(S) /\ Len(after[k].splits) = m
  BY DEF Turns
<1> HIDE DEF m
<1>3. 0 \in T
  <2>1. Grows(st, st)
    BY <1>1 DEF Grows
  <2> QED BY <1>2, <2>1
<1>4. ASSUME NEW k \in Nat, k \in T  PROVE k + 1 \in T
  <2> SUFFICES ASSUME k + 1 <= m  PROVE Good(k + 1)
    OBVIOUS
  <2> DEFINE j == k + 1
  <2>1. j \in 1 .. m /\ j - 1 = k /\ k \in 0 .. m /\ Good(k) /\ 0 .. j = (0 .. k) \cup {j}
    BY <1>1, <1>4
  <2>2. after[j] = Turn(after[k], j) /\ after[k] \in Parsing(S) /\ Len(after[k].splits) = m
    BY <1>2, <2>1
  <2>3. after[j] \in Parsing(S)
    BY <1>1, <1>2, <2>1
  <2> HIDE DEF j
  <2>4. Grows(after[k], _processRequestProperties(after[k], j))
    BY <2>1, <2>2, GrowsStep
  <2>5. Grows(after[k], after[j])
    <3>1. Grows(after[k], after[k])
      BY <2>2 DEF Grows, Parsing
    <3> QED BY <2>2, <2>4, <3>1 DEF Turn
  <2>6. Grows(st, after[j])
    <3>1. /\ Len(after[k].requests) \in Nat /\ Len(after[j].requests) \in Nat
          /\ Len(st.requests) \in Nat
      BY <1>1, <2>2, <2>3 DEF Parsing
    <3> QED BY SMTT(30), <2>1, <2>5, <3>1 DEF Grows
  <2>7. Fine(after[j]) => Fine(after[k])
    BY <2>2 DEF Fine, Turn
  <2>8. Good(j)
    BY <2>1, <2>6, <2>7
  <2> QED BY <2>8 DEF j
<1> HIDE DEF T
<1>5. Nat \subseteq T
  BY <1>3, <1>4, SetInduction
<1> QED BY <1>1, <1>5 DEF T, m

-----------------------------------------------------------------------------
(***************************************************************************)
(* The requests that reading the stream gives, in its order.               *)
(***************************************************************************)
AsRead(c, requests) ==
  \A k \in 1 .. Len(requests) : requests[k] = RequestFrom(c, RequestEnd(c)[k - 1])

LEMMA AsReadAppend ==
  ASSUME NEW c, NEW P, NEW requests \in Seq(P), AsRead(c, requests),
         NEW r \in P, r = RequestFrom(c, RequestEnd(c)[Len(requests)])
  PROVE  AsRead(c, Append(requests, r)) /\ Len(Append(requests, r)) = Len(requests) + 1
<1> DEFINE new == Append(requests, r)
           n == Len(requests)
<1>1. /\ Len(new) = n + 1 /\ n \in Nat /\ new[n + 1] = r
      /\ \A k \in 1 .. n : new[k] = requests[k]
  OBVIOUS
<1> HIDE DEF new
<1>2. ASSUME NEW k \in 1 .. n + 1  PROVE new[k] = RequestFrom(c, RequestEnd(c)[k - 1])
  <2>1. CASE k \in 1 .. n
    BY <1>1, <2>1 DEF AsRead
  <2>2. CASE k = n + 1
    <3>1. k - 1 = n
      BY <1>1, <2>2
    <3> QED BY <1>1, <2>2, <3>1
  <2> QED BY <1>1, <2>1, <2>2
<1> QED BY <1>1, <1>2 DEF AsRead, new

(***************************************************************************)
(* Where the parser stands when it has read to position "to" of the stream *)
(* and is not inside its loop: behind the last request, or behind the head *)
(* of a POST whose payload it awaits.                                      *)
(***************************************************************************)
Stands(c, requests, wait, length, props, buffer, to) ==
  LET start == RequestEnd(c)[Len(requests)]
  IN  /\ AsRead(c, requests)
      /\ ~wait => start <= to /\ buffer = Window(c.stream, start, to)
      /\ wait => /\ HeadEnd(c, start) # npos
                 /\ BodyStart(c, start) <= to
                 /\ buffer = Window(c.stream, BodyStart(c, start), to)
                 /\ props = HeadFrom(c, start)
                 /\ props.HTTPMethod = "POST"
                 /\ HasLength(props)
                 /\ length = ContentLength(props)

(***************************************************************************)
(* The loop over the parts of the window from a to "to", placed by A,      *)
(* after i of them: before the last part, the next one begins where the    *)
(* next request does.                                                      *)
(***************************************************************************)
Inside(c, n, to, cut, A, i, x) ==
  LET start == RequestEnd(c)[n + i]
      e == findFrom(c.stream, HTTP_1_1_END_MARKER, A[i])
  IN  /\ AsRead(c, x.requests)
      /\ Len(x.requests) = n + i
      /\ x.wait = FALSE
      /\ x.buffer = cut.left
      /\ A[i] <= start /\ start <= e
      /\ x.splits[i + 1] = Window(c.stream, start, e)
      /\ \A j \in i + 2 .. Len(cut.parts) : x.splits[j] = cut.parts[j]

(***************************************************************************)
(* What a request that is neither refused nor throws does, with P read     *)
(* from its head: it is handed out with a payload from nowhere, from the   *)
(* buffer or from the next part, or its payload is awaited.                *)
(***************************************************************************)
Handed(st, new, P, payload) ==
  new.requests = Append(st.requests, [P EXCEPT !.Payload = payload]) /\ new.wait = st.wait

TookNothing(st, new, P) ==
  /\ P.HTTPMethod = "GET" /\ Handed(st, new, P, <<>>)
  /\ new.splits = st.splits /\ new.buffer = st.buffer

TookBuffered(st, new, P, n) ==
  /\ Len(st.splits) = 1 /\ n <= Len(st.buffer) /\ Handed(st, new, P, substr(st.buffer, 0, n))
  /\ new.splits = st.splits /\ new.buffer = rest(st.buffer, n)

Awaits(st, new, P, n) ==
  /\ Len(st.splits) = 1 /\ new.wait /\ new.length = n /\ new.props = P
  /\ new.requests = st.requests /\ new.buffer = st.buffer

TookNext(st, new, P, n, Index) ==
  /\ Len(st.splits) # 1 /\ Index + 1 <= Len(st.splits) /\ n <= Len(st.splits[Index + 1])
  /\ Handed(st, new, P, substr(st.splits[Index + 1], 0, n))
  /\ new.splits = [st.splits EXCEPT ![Index + 1] = rest(st.splits[Index + 1], n)]
  /\ new.buffer = st.buffer

LEMMA StepFine ==
  ASSUME NEW S, "/" \in S, NEW st \in Parsing(S), NEW Index \in 1 .. Len(st.splits),
         Fine(_processRequestProperties(st, Index))
  PROVE  LET new == _processRequestProperties(st, Index)
             P == Properties(connection.build, st.splits[Index])
             n == ContentLength(P)
         IN  \/ TookNothing(st, new, P)
             \/ /\ P.HTTPMethod = "POST" /\ HasLength(P) /\ n \in Nat
                /\ \/ TookBuffered(st, new, P, n)
                   \/ Awaits(st, new, P, n)
                   \/ TookNext(st, new, P, n, Index)
<1> DEFINE new == _processRequestProperties(st, Index)
           Request == st.splits[Index]
           props == _parseRequestProperties(Request)
           P == Properties(connection.build, Request)
           n == ContentLength(P)
           full == [st EXCEPT !.props = P]
           sized == [full EXCEPT !.length = n]
<1>1. Request \in Seq(S) /\ st.buffer \in Seq(S)
  <2>1. st.splits \in Seq(Seq(S)) /\ st.buffer \in Seq(S)
    BY DEF Parsing
  <2> QED BY <2>1
<1> HIDE DEF Request
<1>2. P \in RequestProperties_t(S) /\ P.HTTPMethod = props.HTTPMethod
  BY <1>1, PropertiesType
<1>3. new = IF Request = <<>> THEN [st EXCEPT !.ok = FALSE]
            ELSE IF props.HTTPVersion # "1.1" \/ props.HTTPMethod = "OTHER"
            THEN [[st EXCEPT !.props = props] EXCEPT !.ok = FALSE]
            ELSE IF props.HTTPMethod = "GET" THEN Push(full, <<>>)
            ELSE TakePOST(full, Index)
  BY DEF _processRequestProperties, Refuse, Request
<1> HIDE DEF props, P
<1>4. Fine(new)
  OBVIOUS
<1>5. full \in Parsing(S) /\ full.splits = st.splits /\ full.buffer = st.buffer
      /\ full.requests = st.requests /\ full.wait = st.wait /\ full.props = P
  BY Zenon, <1>2 DEF Parsing
<1> HIDE DEF new, full
<1>6. \/ P.HTTPMethod = "GET" /\ new = Push(full, <<>>)
      \/ P.HTTPMethod = "POST" /\ new = TakePOST(full, Index)
  <2>1. new # [st EXCEPT !.ok = FALSE] /\ new # [[st EXCEPT !.props = props] EXCEPT !.ok = FALSE]
    BY Zenon, <1>4 DEF Fine, Parsing
  <2>2. P.HTTPMethod \in {"OTHER", "GET", "POST"}
    BY SMTT(30), <1>2 DEF RequestProperties_t
  <2> QED BY <1>2, <1>3, <2>1, <2>2
<1>7. CASE P.HTTPMethod = "GET" /\ new = Push(full, <<>>)
  <2> DEFINE none == <<>>
  <2>1. none \in Seq(S) /\ new = Push(full, none)
    BY <1>7
  <2> HIDE DEF none
  <2>2. /\ new.splits = full.splits /\ new.buffer = full.buffer /\ new.wait = full.wait
        /\ new.requests = Append(full.requests, [full.props EXCEPT !.Payload = none])
    BY <1>5, <2>1, PushType
  <2>3. TookNothing(st, new, P)
    BY <1>5, <1>7, <2>2 DEF TookNothing, Handed, none
  <2> QED BY <2>3 DEF new, P, Request
<1>8. CASE P.HTTPMethod = "POST" /\ new = TakePOST(full, Index)
  <2>1. new = IF ~HasLength(P) THEN [full EXCEPT !.ok = FALSE]
              ELSE IF Number(LengthValue(P)) > IntMax THEN [full EXCEPT !.thrown = TRUE]
              ELSE IF TooLarge(n) THEN [sized EXCEPT !.ok = FALSE]
              ELSE TakePayload(sized, Index)
    BY <1>5, <1>8 DEF TakePOST, Refuse, Throw, Parsing
  <2>2. HasLength(P)
    BY <1>4, <1>5, <2>1 DEF Fine, Parsing
  <2>3. n \in 0 .. LengthMod - 1 /\ n \in Nat
    <3>1. n \in 0 .. LengthMod - 1
      BY Zenon, <1>2, <2>2, ContentLengthType
    <3> QED BY <3>1, ParserAssumption
  <2> HIDE DEF n
  <2>4. /\ sized \in Parsing(S) /\ sized.splits = st.splits /\ sized.buffer = st.buffer
        /\ sized.requests = st.requests /\ sized.wait = st.wait /\ sized.props = P
        /\ sized.length = n
    BY Zenon, <1>5, <2>3 DEF Parsing
  <2>5. new = TakePayload(sized, Index)
    <3>1. new # [full EXCEPT !.thrown = TRUE] /\ new # [sized EXCEPT !.ok = FALSE]
      BY Zenon, <1>4, <1>5, <2>4 DEF Fine, Parsing
    <3> QED BY <2>1, <2>2, <3>1
  <2> HIDE DEF sized
  <2> DEFINE NextRequest == st.splits[Index + 1]
             pushed(s) == Push(sized, substr(s, 0, n))
  <2>6. ASSUME NEW s \in Seq(S)
        PROVE  LET q == pushed(s)
               IN  /\ q \in Parsing(S) /\ q.splits = st.splits /\ q.buffer = st.buffer
                   /\ q.wait = st.wait
                   /\ q.requests = Append(st.requests, [P EXCEPT !.Payload = substr(s, 0, n)])
    <3> DEFINE payload == substr(s, 0, n)
    <3>1. payload \in Seq(S)
      <4>1. 0 \in Nat /\ n \in Int
        BY <2>3
      <4> QED BY <4>1, SubstrType
    <3> HIDE DEF payload
    <3>2. LET q == Push(sized, payload)
          IN  /\ q \in Parsing(S) /\ q.splits = sized.splits /\ q.buffer = sized.buffer
              /\ q.wait = sized.wait
              /\ q.requests = Append(sized.requests, [sized.props EXCEPT !.Payload = payload])
      BY <2>4, <3>1, PushType
    <3> QED BY <2>4, <3>2 DEF payload
  <2>7. new = IF Len(st.splits) = 1
              THEN IF Len(st.buffer) >= n
                   THEN [pushed(st.buffer) EXCEPT !.buffer = rest(@, n)]
                   ELSE [sized EXCEPT !.wait = TRUE]
              ELSE IF Index + 1 > Len(st.splits) THEN [sized EXCEPT !.thrown = TRUE]
              ELSE IF Len(NextRequest) >= n
              THEN [pushed(NextRequest) EXCEPT
                      !.splits = [@ EXCEPT ![Index + 1] = rest(NextRequest, n)]]
              ELSE [sized EXCEPT !.ok = FALSE]
    BY <2>4, <2>5 DEF TakePayload, Refuse, Throw
  <2>8. st.splits \in Seq(Seq(S)) /\ Len(st.splits) \in Nat /\ Len(st.buffer) \in Nat
    BY DEF Parsing
  <2>9. new # [sized EXCEPT !.thrown = TRUE] /\ new # [sized EXCEPT !.ok = FALSE]
    BY <1>4, <2>4 DEF Fine, Parsing
  <2> HIDE DEF pushed
  <2>10. CASE Len(st.splits) = 1 /\ Len(st.buffer) >= n
    <3> DEFINE q == pushed(st.buffer)
    <3>1. new = [q EXCEPT !.buffer = rest(q.buffer, n)]
      BY <2>7, <2>10
    <3>2. /\ q \in Parsing(S) /\ q.splits = st.splits /\ q.buffer = st.buffer
          /\ q.wait = st.wait
          /\ q.requests = Append(st.requests, [P EXCEPT !.Payload = substr(st.buffer, 0, n)])
      BY <1>1, <2>6
    <3> HIDE DEF q
    <3>3. /\ new.splits = q.splits /\ new.buffer = rest(q.buffer, n)
          /\ new.wait = q.wait /\ new.requests = q.requests
      BY <3>1, <3>2 DEF Parsing
    <3>4. TookBuffered(st, new, P, n)
      BY <2>3, <2>8, <2>10, <3>2, <3>3 DEF TookBuffered, Handed
    <3> QED BY Zenon, <1>8, <2>2, <2>3, <3>4 DEF new, P, Request, n
  <2>11. CASE Len(st.splits) = 1 /\ ~(Len(st.buffer) >= n)
    <3>1. new = [sized EXCEPT !.wait = TRUE]
      BY <2>7, <2>11
    <3>2. Awaits(st, new, P, n)
      BY <2>4, <2>11, <3>1 DEF Awaits, Parsing
    <3> QED BY Zenon, <1>8, <2>2, <2>3, <3>2 DEF new, P, Request, n
  <2>12. CASE Len(st.splits) # 1
    <3>1. /\ ~(Index + 1 > Len(st.splits)) /\ Len(NextRequest) >= n
          /\ new = [pushed(NextRequest) EXCEPT
                      !.splits = [@ EXCEPT ![Index + 1] = rest(NextRequest, n)]]
      BY <2>7, <2>9, <2>12
    <3>2. NextRequest \in Seq(S) /\ Index + 1 <= Len(st.splits) /\ Len(NextRequest) \in Nat
      BY <2>8, <3>1
    <3> DEFINE q == pushed(NextRequest)
    <3>3. new = [q EXCEPT !.splits = [q.splits EXCEPT ![Index + 1] = rest(NextRequest, n)]]
      BY <3>1
    <3>4. /\ q \in Parsing(S) /\ q.splits = st.splits /\ q.buffer = st.buffer
          /\ q.wait = st.wait
          /\ q.requests = Append(st.requests, [P EXCEPT !.Payload = substr(NextRequest, 0, n)])
      <4> HIDE DEF NextRequest
      <4> QED BY <2>6, <3>2
    <3> HIDE DEF q
    <3>5. /\ new.splits = [q.splits EXCEPT ![Index + 1] = rest(NextRequest, n)]
          /\ new.buffer = q.buffer /\ new.wait = q.wait /\ new.requests = q.requests
      BY SMTT(30), <3>3, <3>4 DEF Parsing
    <3>6. TookNext(st, new, P, n, Index)
      BY SMTT(30), <2>3, <2>12, <3>1, <3>2, <3>4, <3>5 DEF TookNext, Handed
    <3> QED BY Zenon, <1>8, <2>2, <2>3, <3>6 DEF new, P, Request, n
  <2> QED BY Zenon, <2>10, <2>11, <2>12
<1> QED BY <1>6, <1>7, <1>8

\* One turn of the loop, from x to y.
Turning(n, to, a, cut, A, i, x, v, y) ==
  /\ n \in Nat /\ to \in Nat /\ to <= Len(connection.stream) /\ a \in Nat
  /\ cut \in Cuts(Symbols(connection))
  /\ Places(connection.stream, HTTP_1_1_END_MARKER, a, to, cut, A)
  /\ i \in 0 .. Len(cut.parts) - 1 /\ v = i + 1
  /\ x \in Parsing(Symbols(connection)) /\ Len(x.splits) = Len(cut.parts)
  /\ Inside(connection, n, to, cut, A, i, x)
  /\ y = _processRequestProperties(x, v) /\ Fine(y)

\* The next part begins where the next request does, and behind the last part
\* the parser stands where the stream is read to.
LEMMA StepInside ==
  ASSUME connection \in Connections, NEW n, NEW to, NEW a, NEW cut, NEW A, NEW i, NEW x,
         NEW v, NEW y, Turning(n, to, a, cut, A, i, x, v, y)
  PROVE  /\ v < Len(cut.parts) => Inside(connection, n, to, cut, A, v, y)
         /\ v = Len(cut.parts) =>
              Stands(connection, y.requests, y.wait, y.length, y.props, y.buffer, to)
<1> n \in Nat /\ to \in Nat /\ a \in Nat
  BY DEF Turning
<1> DEFINE D == HTTP_1_1_END_MARKER
           S == Symbols(connection)
           m == Len(cut.parts)
<1>1. PICK c : c = connection
  OBVIOUS
<1>2. PICK s : s = c.stream
  OBVIOUS
<1>3. PICK E : E = RequestEnd(c)
  OBVIOUS
<1>4. c \in Connections /\ s \in Seq(S) /\ "/" \in S /\ Delimiter(D) /\ Len(D) = 4 /\ to <= Len(s)
  <2>1. 0 \in Nat
    OBVIOUS
  <2>2. to <= Len(s)
    BY <1>1, <1>2 DEF Turning
  <2> QED BY Zenon, <1>1, <1>2, <2>1, <2>2, ReadFrom, Delimiters
<1> HIDE DEF D, S
<1>5. /\ m \in Nat /\ cut.parts \in Seq(Seq(S)) /\ i \in Nat /\ i < m /\ v \in Nat /\ v \in 1 .. m
      /\ v - 1 = i /\ v = i + 1 /\ n + v = (n + i) + 1 /\ n + i \in Nat /\ v <= m
      /\ Len(x.splits) = m
  <2>1. m \in Nat /\ cut.parts \in Seq(Seq(S))
    BY DEF Turning, Cuts, S
  <2>2. i \in 0 .. m - 1 /\ v = i + 1 /\ Len(x.splits) = m
    BY DEF Turning
  <2> HIDE DEF m
  <2> QED BY <2>1, <2>2
<1> HIDE DEF m
<1>6. PICK start \in Nat : start = E[n + i]
  BY Zenon, <1>3, <1>4, <1>5, EndUnfolds
<1>7. E[n + v] = BodyEnd(c, start)
  <2>1. PICK k \in Nat : k = n + i /\ n + v = k + 1
    BY <1>5
  <2>2. E[k + 1] = BodyEnd(c, E[k])
    BY Zenon, <1>3, <1>4, EndUnfolds
  <2> QED BY <1>6, <2>1, <2>2
<1>8. /\ A \in [0 .. m -> a .. to]
      /\ \A k \in 1 .. m : /\ findFrom(s, D, A[k - 1]) \in Nat
                           /\ A[k - 1] <= findFrom(s, D, A[k - 1])
                           /\ A[k] = findFrom(s, D, A[k - 1]) + 4
                           /\ cut.parts[k] = Window(s, A[k - 1], findFrom(s, D, A[k - 1]))
      /\ cut.left = Window(s, A[m], to)
  <2>1. Places(s, D, a, to, cut, A)
    BY <1>1, <1>2 DEF Turning, D
  <2> QED BY <1>4, <2>1 DEF Places, m
<1>9. PICK e \in Nat : e = findFrom(s, D, A[i])
  BY Zenon, <1>5, <1>8
<1>10. PICK q \in Nat : q = A[v] /\ q = e + 4 /\ q <= to
  <2>1. A[v] = e + 4
    BY SMTT(30), <1>5, <1>8, <1>9
  <2>2. A[v] \in a .. to
    BY <1>5, <1>8
  <2> QED BY SMTT(30), <2>1, <2>2
<1>11. /\ AsRead(c, x.requests) /\ Len(x.requests) = n + i /\ x.wait = FALSE
       /\ x.buffer = cut.left /\ A[i] <= start /\ start <= e
       /\ x.splits[v] = Window(s, start, e)
       /\ \A j \in i + 2 .. m : x.splits[j] = cut.parts[j]
  <2>1. Inside(c, n, to, cut, A, i, x)
    BY <1>1 DEF Turning
  <2> QED BY Zenon, <1>2, <1>3, <1>5, <1>6, <1>9, <2>1 DEF Inside, D, m
<1>12. HeadEnd(c, start) = e
  <2>1. A[i] \in Nat /\ e # npos
    <3>1. A[i] \in a .. to
      BY <1>5, <1>8
    <3> QED BY SMTT(30), <3>1 DEF npos
  <2>2. PICK h \in Nat : h = A[i]
    BY SMTT(30), <2>1
  <2>3. findFrom(s, D, start) = e
    <3>1. /\ findFrom(s, D, h) = e /\ findFrom(s, D, h) # npos
          /\ h <= start /\ start <= findFrom(s, D, h)
      BY Zenon, <1>9, <1>11, <2>1, <2>2
    <3>2. findFrom(s, D, start) = findFrom(s, D, h)
      BY Zenon, <1>4, <1>6, <2>2, <3>1, FindLater
    <3> QED BY Zenon, <3>1, <3>2
  <2> QED BY <1>2, <2>3 DEF HeadEnd, D
<1> DEFINE P == Properties(connection.build, x.splits[v])
           L == BodyLength(c, start)
<1>13. HeadFrom(c, start) = P
  BY Zenon, <1>1, <1>2, <1>11, <1>12 DEF HeadFrom, Window
<1>14. BodyStart(c, start) = q /\ L \in Nat /\ BodyEnd(c, start) = q + L
       /\ P \in RequestProperties_t(S)
  <2>1. /\ BodyStart(c, start) = HeadEnd(c, start) + 4 /\ L \in Nat
        /\ BodyEnd(c, start) = BodyStart(c, start) + L
        /\ HeadFrom(c, start) \in RequestProperties_t(Symbols(c))
    BY Zenon, <1>4, ReadFrom
  <2> QED BY Zenon, <1>1, <1>10, <1>12, <1>13, <2>1 DEF S
<1>15. L = IF P.HTTPMethod = "POST" /\ HasLength(P) THEN ContentLength(P) ELSE 0
  BY <1>13 DEF BodyLength, Announced
<1>16. RequestFrom(c, start) = [P EXCEPT !.Payload = Window(s, q, q + L)]
  BY <1>2, <1>13, <1>14 DEF RequestFrom, Window
<1>17. y \in Parsing(S) /\ Len(y.splits) = m
  <2>1. v \in 1 .. Len(x.splits) /\ x \in Parsing(S) /\ y = _processRequestProperties(x, v)
    BY <1>5 DEF Turning, S
  <2> QED BY <1>4, <1>5, <2>1, StepType
<1> DEFINE N == ContentLength(P)
<1>18. \/ TookNothing(x, y, P)
       \/ /\ P.HTTPMethod = "POST" /\ HasLength(P) /\ N \in Nat
          /\ \/ TookBuffered(x, y, P, N)
             \/ Awaits(x, y, P, N)
             \/ TookNext(x, y, P, N, v)
  <2>1. /\ v \in 1 .. Len(x.splits) /\ x \in Parsing(S) /\ Fine(_processRequestProperties(x, v))
        /\ y = _processRequestProperties(x, v)
    BY SMTT(30), <1>5 DEF Turning, S
  <2> QED BY Zenon, <1>4, <2>1, StepFine
<1> HIDE DEF P, L, N
<1>19. ASSUME q + L <= Len(s), NEW payload, payload = Window(s, q, q + L),
              Handed(x, y, P, payload)
       PROVE  AsRead(c, y.requests) /\ Len(y.requests) = n + v /\ y.wait = FALSE
  <2>1. payload \in Seq(S)
    <3>1. q + L \in Nat /\ q <= q + L
      BY <1>14
    <3> QED BY <1>4, <1>19, <3>1, WindowType
  <2> DEFINE r == [P EXCEPT !.Payload = payload]
  <2>2. r \in RequestProperties_t(S)
    BY <1>14, <2>1, PayloadType
  <2>3. r = RequestFrom(c, E[n + i])
    BY SMTT(30), <1>6, <1>16, <1>19
  <2>4. y.requests = Append(x.requests, r) /\ y.wait = FALSE
    BY <1>11, <1>19 DEF Handed
  <2> HIDE DEF r
  <2>5. x.requests \in Seq(RequestProperties_t(S))
    BY DEF Turning, Parsing, S
  <2>6. AsRead(c, Append(x.requests, r)) /\ Len(Append(x.requests, r)) = Len(x.requests) + 1
    BY Zenon, <1>3, <1>11, <2>2, <2>3, <2>5, AsReadAppend
  <2> QED BY <1>5, <1>11, <2>4, <2>6
<1> DEFINE e2 == findFrom(s, D, A[v])
<1>20. ASSUME v < m
       PROVE  /\ v + 1 \in 1 .. m /\ e2 \in Nat /\ q <= e2 /\ e2 <= to
              /\ x.splits[v + 1] = Window(s, q, e2)
              /\ \A j \in v + 2 .. m : x.splits[j] = cut.parts[j]
  <2>1. v + 1 \in 1 .. m /\ (v + 1) - 1 = v /\ v + 1 \in i + 2 .. m /\ v + 1 \in 0 .. m
    BY SMTT(30), <1>5, <1>20
  <2>2. e2 \in Nat /\ A[v] <= e2 /\ cut.parts[v + 1] = Window(s, A[v], e2)
        /\ A[v + 1] = e2 + 4
    BY SMTT(30), <1>8, <2>1
  <2>3. A[v + 1] \in a .. to
    <3>1. A \in [0 .. m -> a .. to] /\ v + 1 \in 0 .. m
      BY Zenon, <1>8, <2>1
    <3> QED BY Zenon, <3>1
  <2>4. x.splits[v + 1] = cut.parts[v + 1]
    BY <1>11, <2>1
  <2>5. \A j \in v + 2 .. m : j \in i + 2 .. m
    BY <1>5
  <2> HIDE DEF e2
  <2>6. q <= e2 /\ x.splits[v + 1] = Window(s, q, e2)
    BY Zenon, <1>10, <2>2, <2>4
  <2>7. e2 <= to
    <3>1. e2 + 4 \in a .. to /\ e2 \in Nat
      BY Zenon, <2>2, <2>3
    <3> QED BY <3>1
  <2>8. \A j \in v + 2 .. m : x.splits[j] = cut.parts[j]
    BY Zenon, <1>11, <2>5
  <2> QED BY Zenon, <2>1, <2>2, <2>6, <2>7, <2>8
<1> HIDE DEF e2
<1>21. CASE TookNothing(x, y, P)
  <2>1. L = 0
    BY <1>15, <1>21 DEF TookNothing
  <2>2. Window(s, q, q + L) = <<>>
    <3>1. q + L = q /\ q <= Len(s)
      BY <1>4, <1>10, <2>1
    <3>2. Window(s, q, q) \in Seq(S) /\ Len(Window(s, q, q)) = q - q
      BY <1>4, <3>1, WindowType
    <3>3. q - q = 0
      BY SMTT(30)
    <3> QED BY <3>1, <3>2, <3>3
  <2>3. AsRead(c, y.requests) /\ Len(y.requests) = n + v /\ y.wait = FALSE
    <3>1. q + L <= Len(s)
      BY <1>4, <1>10, <2>1
    <3> QED BY Zenon, <1>19, <1>21, <2>2, <3>1 DEF TookNothing
  <2>4. E[n + v] = q
    BY SMTT(30), <1>7, <1>14, <2>1
  <2>5. y.splits = x.splits /\ y.buffer = cut.left
    BY <1>11, <1>21 DEF TookNothing
  <2>6. ASSUME v < m  PROVE Inside(c, n, to, cut, A, v, y)
    <3>1. y.splits[v + 1] = Window(s, q, e2) /\ q <= e2 /\ q <= q
          /\ \A j \in v + 2 .. m : y.splits[j] = cut.parts[j]
      <4>1. x.splits[v + 1] = Window(s, q, e2) /\ q <= e2
            /\ \A j \in v + 2 .. m : x.splits[j] = cut.parts[j]
        BY <1>20, <2>6
      <4>2. q <= q
        OBVIOUS
      <4> QED BY SMTT(30), <2>5, <4>1, <4>2
    <3> QED BY Zenon, <1>2, <1>3, <1>10, <2>3, <2>4, <2>5, <3>1 DEF Inside, e2, D, m
  <2>7. v = m => Stands(c, y.requests, y.wait, y.length, y.props, y.buffer, to)
    <3>1. v = m => y.buffer = Window(s, q, to)
      BY Zenon, <1>8, <1>10, <2>5
    <3> QED BY <1>2, <1>3, <1>10, <2>3, <2>4, <3>1 DEF Stands
  <2> QED BY SMTT(30), <1>1, <2>6, <2>7 DEF m
<1>22. CASE P.HTTPMethod = "POST" /\ HasLength(P) /\ N \in Nat /\ TookBuffered(x, y, P, N)
  <2>1. L = N /\ m = 1 /\ v = m
    <3>1. Len(x.splits) = 1
      BY <1>22 DEF TookBuffered
    <3> QED BY SMTT(30), <1>5, <1>15, <1>22, <3>1 DEF N
  <2>2. x.buffer = Window(s, q, to) /\ Len(x.buffer) = to - q /\ x.buffer \in Seq(S)
    <3>1. x.buffer = Window(s, q, to)
      BY Zenon, <1>8, <1>10, <1>11, <2>1
    <3>2. Len(Window(s, q, to)) = to - q /\ Window(s, q, to) \in Seq(S)
      <4>1. q <= to /\ to <= Len(s) /\ s \in Seq(S)
        BY SMTT(30), <1>4, <1>10
      <4> QED BY Zenon, <4>1, WindowType
    <3> QED BY <3>1, <3>2
  <2>3. /\ N <= Len(x.buffer) /\ Handed(x, y, P, substr(x.buffer, 0, N))
        /\ y.buffer = rest(x.buffer, N)
    BY <1>22 DEF TookBuffered
  <2>4. N <= to - q /\ q + N <= to /\ q + N \in Nat /\ N \in Nat /\ q + N <= Len(s)
    BY <1>4, <1>10, <1>22, <2>2, <2>3
  <2>5. PICK z \in Nat : z = 0
    OBVIOUS
  <2>6. substr(x.buffer, 0, N) = Window(s, q, q + N)
    <3>1. z + N <= Len(x.buffer) /\ z <= z + N /\ z + N \in Nat /\ z + N <= to - q
      BY <2>2, <2>4, <2>5
    <3>2. substr(x.buffer, z, N) = Window(x.buffer, z, z + N)
      BY <2>2, <2>4, <3>1, SubstrIsWindow
    <3>3. Window(Window(s, q, to), z, z + N) = Window(s, q + z, q + (z + N))
      BY <1>4, <1>10, <3>1, WindowOfWindow
    <3>4. q + z = q /\ q + (z + N) = q + N
      BY <2>4, <2>5
    <3> QED BY <2>2, <2>5, <3>2, <3>3, <3>4
  <2>7. AsRead(c, y.requests) /\ Len(y.requests) = n + v /\ y.wait = FALSE
    BY Zenon, <1>19, <2>1, <2>3, <2>4, <2>6
  <2>8. y.buffer = Window(s, q + N, to)
    <3>1. N \in 0 .. Len(x.buffer) /\ to - q \in Nat
      BY <1>10, <2>2, <2>4
    <3>2. rest(x.buffer, N) = Window(x.buffer, N, Len(x.buffer))
      BY <2>2, <3>1, RestIsWindow
    <3>3. Window(Window(s, q, to), N, to - q) = Window(s, q + N, q + (to - q))
      BY <1>4, <1>10, <2>4, <3>1, WindowOfWindow
    <3>4. q + (to - q) = to
      OBVIOUS
    <3> QED BY <2>2, <2>3, <3>2, <3>3, <3>4
  <2>9. E[n + v] = q + N
    BY <1>7, <1>14, <2>1
  <2>10. Stands(c, y.requests, y.wait, y.length, y.props, y.buffer, to)
    BY Zenon, <1>2, <1>3, <2>4, <2>7, <2>8, <2>9 DEF Stands
  <2>11. ~(v < m)
    BY <1>5, <2>1
  <2> QED BY <1>1, <2>10, <2>11 DEF m
<1>23. CASE P.HTTPMethod = "POST" /\ HasLength(P) /\ N \in Nat /\ Awaits(x, y, P, N)
  <2>1. m = 1 /\ v = m /\ i = 0
    <3>1. Len(x.splits) = 1
      BY SMTT(30), <1>23 DEF Awaits
    <3> QED BY <1>5, <3>1
  <2>2. /\ y.wait /\ y.length = N /\ y.props = P /\ y.requests = x.requests
        /\ y.buffer = x.buffer
    BY SMTT(30), <1>23 DEF Awaits
  <2>3. y.buffer = Window(s, q, to)
    BY ZenonT(30), <1>8, <1>10, <1>11, <2>1, <2>2
  <2>4. Len(y.requests) = n + i /\ AsRead(c, y.requests)
    BY <1>11, <2>2
  <2>5. E[Len(y.requests)] = start
    BY <1>6, <2>4
  <2>6. HeadEnd(c, start) # npos
    BY <1>12 DEF npos
  <2>7. Stands(c, y.requests, y.wait, y.length, y.props, y.buffer, to)
    BY Zenon, <1>2, <1>3, <1>10, <1>13, <1>14, <1>23, <2>2, <2>3, <2>4, <2>5, <2>6 DEF Stands, N
  <2>8. ~(v < m)
    BY <1>5, <2>1
  <2> QED BY <1>1, <2>7, <2>8 DEF m
<1>24. CASE P.HTTPMethod = "POST" /\ HasLength(P) /\ N \in Nat /\ TookNext(x, y, P, N, v)
  <2>1. L = N
    BY SMTT(30), <1>15, <1>24 DEF N
  <2> DEFINE next == x.splits[v + 1]
  <2>2. /\ v + 1 <= m /\ N <= Len(next) /\ Handed(x, y, P, substr(next, 0, N))
        /\ y.splits = [x.splits EXCEPT ![v + 1] = rest(next, N)]
        /\ y.buffer = x.buffer
    BY <1>5, <1>24 DEF TookNext
  <2>3. v < m /\ v # m
    <3>1. v \in Nat /\ m \in Nat /\ v + 1 <= m
      BY Zenon, <1>5, <2>2
    <3> QED BY <3>1
  <2>4. /\ v + 1 \in 1 .. m /\ e2 \in Nat /\ q <= e2 /\ e2 <= to /\ e2 <= Len(s)
        /\ next = Window(s, q, e2)
        /\ \A j \in v + 2 .. m : x.splits[j] = cut.parts[j]
    BY SMTT(30), <1>4, <1>20, <2>3
  <2> HIDE DEF next
  <2>5. /\ q + N \in Nat /\ q <= q + N /\ q + N <= e2
        /\ substr(next, 0, N) = Window(s, q, q + N)
        /\ rest(next, N) = Window(s, q + N, e2)
    <3>1. s \in Seq(S) /\ q <= e2 /\ e2 <= Len(s) /\ e2 \in Nat /\ N \in Nat
      BY Zenon, <1>4, <1>24, <2>4
    <3>2. N <= Len(Window(s, q, e2))
      BY Zenon, <2>2, <2>4
    <3>3. /\ q + N \in Nat /\ q <= q + N /\ q + N <= e2
          /\ substr(Window(s, q, e2), 0, N) = Window(s, q, q + N)
          /\ rest(Window(s, q, e2), N) = Window(s, q + N, e2)
      BY <3>1, <3>2, TakenOff
    <3> QED BY Zenon, <2>4, <3>3
  <2>6. N \in Nat /\ q + N <= Len(s)
    <3>1. N \in Nat /\ e2 \in Nat /\ e2 <= Len(s) /\ q + N <= e2 /\ s \in Seq(S)
      BY Zenon, <1>4, <1>24, <2>4, <2>5
    <3> QED BY <3>1
  <2>7. AsRead(c, y.requests) /\ Len(y.requests) = n + v /\ y.wait = FALSE
    BY Zenon, <1>19, <2>1, <2>2, <2>5, <2>6
  <2>8. E[n + v] = q + N
    BY SMTT(30), <1>7, <1>14, <2>1
  <2>9. y.splits[v + 1] = Window(s, q + N, e2)
         /\ \A j \in v + 2 .. m : y.splits[j] = cut.parts[j]
    <3>1. x.splits \in Seq(Seq(S)) /\ Len(x.splits) = m
      BY <1>5 DEF Turning, Parsing, S
    <3> DEFINE w == rest(next, N)
    <3>2. y.splits = [x.splits EXCEPT ![v + 1] = w]
      BY Zenon, <2>2
    <3> HIDE DEF w
    <3>3. DOMAIN x.splits = 1 .. m
      BY SMTT(30), <3>1
    <3>4. y.splits[v + 1] = w
      BY <2>4, <3>2, <3>3
    <3>5. ASSUME NEW j \in v + 2 .. m  PROVE y.splits[j] = cut.parts[j]
      <4>1. j \in 1 .. m /\ j # v + 1
        BY <1>5
      <4> QED BY SMTT(30), <2>4, <3>2, <3>3, <4>1
    <3> QED BY <2>5, <3>4, <3>5 DEF w
  <2>10. y.buffer = cut.left
    BY Zenon, <1>11, <2>2
  <2>11. Inside(c, n, to, cut, A, v, y)
    BY Zenon, <1>2, <1>3, <1>10, <2>5, <2>6, <2>7, <2>8, <2>9, <2>10 DEF Inside, e2, D, m
  <2> QED BY <1>1, <2>3, <2>11 DEF m
<1> QED BY <1>18, <1>21, <1>22, <1>23, <1>24

\* The loop over the parts of the window from a to "to", begun in st where the
\* parser stands behind a request at a.
Looping(to, a, cut, st, after, y) ==
  /\ to <= Len(connection.stream) /\ a <= to /\ st \in Parsing(Symbols(connection))
  /\ cut = split(Window(connection.stream, a, to), HTTP_1_1_END_MARKER)
  /\ st.splits = cut.parts /\ st.buffer = cut.left /\ st.wait = FALSE
  /\ a = RequestEnd(connection)[Len(st.requests)] /\ AsRead(connection, st.requests)
  /\ Turns(Symbols(connection), st, after) /\ y = after[Len(st.splits)] /\ Fine(y)

\* The whole loop, when the parser stood behind a request before the chunk.
LEMMA LoopStands ==
  ASSUME connection \in Connections, NEW to \in Nat, NEW a \in Nat, NEW cut, NEW st,
         NEW after, NEW y, Looping(to, a, cut, st, after, y)
  PROVE  Stands(connection, y.requests, y.wait, y.length, y.props, y.buffer, to)
<1> DEFINE D == HTTP_1_1_END_MARKER
           S == Symbols(connection)
           m == Len(cut.parts)
           n == Len(st.requests)
<1>1. PICK c : c = connection
  OBVIOUS
<1>2. PICK s : s = c.stream
  OBVIOUS
<1>3. c \in Connections /\ s \in Seq(S) /\ "/" \in S /\ Delimiter(D) /\ to <= Len(s)
  <2>1. 0 \in Nat
    OBVIOUS
  <2>2. to <= Len(s)
    BY Zenon, <1>1, <1>2 DEF Looping
  <2> QED BY Zenon, <1>1, <1>2, <2>1, <2>2, ReadFrom, Delimiters
<1>4. cut = split(Window(s, a, to), D) /\ a <= to
  BY Zenon, <1>1, <1>2 DEF Looping
<1>5. Window(s, a, to) \in Seq(S)
  <2> HIDE DEF S, D
  <2> QED BY <1>3, <1>4, WindowType
<1>6. cut \in Cuts(S)
  <2> DEFINE t == Window(s, a, to)
  <2>1. PICK R : D \in Seq(R) /\ Len(D) >= 1
    BY <1>3 DEF Delimiter
  <2> HIDE DEF S, D, t
  <2>2. split(t, D) \in Cuts(S)
    BY <1>5, <2>1, SplitIsExact DEF t
  <2> QED BY <1>4, <2>2 DEF t
<1>7. PICK A : Places(s, D, a, to, cut, A)
  <2> HIDE DEF S, D
  <2> QED BY <1>3, <1>4, SplitOfWindow
<1>8. m \in Nat /\ n \in Nat /\ st.requests \in Seq(RequestProperties_t(S))
  BY <1>6 DEF Looping, Cuts, Parsing
<1>9. /\ after[0] = st
      /\ \A k \in 1 .. m : after[k] = Turn(after[k - 1], k)
      /\ \A k \in 0 .. m : after[k] \in Parsing(S) /\ Len(after[k].splits) = m
  BY Zenon DEF Looping, Turns
<1>10. \A k \in 0 .. m : Fine(after[k])
  <2>1. m \in 0 .. m
    BY <1>8
  <2>2. \A k \in 0 .. m : Fine(after[k]) => \A j \in 0 .. k : Fine(after[j])
    <3>1. st \in Parsing(S) /\ Turns(S, st, after) /\ Len(st.splits) = m
      BY Zenon DEF Looping
    <3> HIDE DEF S, m
    <3> QED BY <1>3, <3>1, LoopGrows
  <2>3. Fine(after[m])
    BY Zenon DEF Looping
  <2> HIDE DEF m
  <2> QED BY <2>1, <2>2, <2>3
<1>11. /\ A \in [0 .. m -> a .. to] /\ A[0] = a
       /\ \A k \in 1 .. m : /\ findFrom(s, D, A[k - 1]) \in Nat
                            /\ A[k - 1] <= findFrom(s, D, A[k - 1])
                            /\ cut.parts[k] = Window(s, A[k - 1], findFrom(s, D, A[k - 1]))
       /\ cut.left = Window(s, A[m], to)
  BY Zenon, <1>7 DEF Places
<1>12. y = after[m] /\ st.splits = cut.parts /\ st.buffer = cut.left /\ st.wait = FALSE
  BY Zenon DEF Looping
<1>13. RequestEnd(c)[n] = a /\ AsRead(c, st.requests)
  BY Zenon, <1>1 DEF Looping
<1> HIDE DEF D, S, m, n
<1>14. CASE m = 0
  <2>1. y = st /\ st.buffer = Window(s, a, to)
    BY Zenon, <1>9, <1>11, <1>12, <1>14
  <2>2. Stands(c, y.requests, y.wait, y.length, y.props, y.buffer, to)
    BY Zenon, <1>2, <1>4, <1>12, <1>13, <2>1 DEF Stands, n
  <2> QED BY <1>1, <2>2
<1>15. CASE m # 0
  <2> DEFINE In(k) == Inside(c, n, to, cut, A, k, after[k])
             T == {k \in Nat : k < m => In(k)}
  <2>1. 0 \in T
    <3> DEFINE e == findFrom(s, D, A[0])
    <3>1. 1 \in 1 .. m /\ 1 - 1 = 0
      BY SMTT(30), <1>8, <1>15
    <3>2. e \in Nat /\ A[0] <= e /\ cut.parts[1] = Window(s, A[0], e)
      BY <1>11, <3>1
    <3>3. n + 0 = n /\ 0 + 1 = 1 /\ 0 + 2 = 2
      BY <1>8
    <3> HIDE DEF e
    <3>4. Inside(c, n, to, cut, A, 0, st)
      <4>1. Len(st.requests) = n + 0 /\ RequestEnd(c)[n + 0] = a
        BY SMTT(30), <1>13, <3>3 DEF n
      <4>2. st.splits[0 + 1] = Window(s, a, e)
        BY SMTT(30), <1>11, <1>12, <3>2, <3>3
      <4>3. A[0] <= a /\ a <= e
        BY <1>11, <3>2
      <4> QED BY Zenon, <1>2, <1>12, <1>13, <4>1, <4>2, <4>3 DEF Inside, e, D
    <3> QED BY <1>9, <3>4
  <2>2. ASSUME NEW k \in Nat, k < m, In(k), NEW v, v = k + 1
        PROVE  /\ v < m => In(v)
               /\ v = m => LET x == after[v]
                           IN  Stands(c, x.requests, x.wait, x.length, x.props, x.buffer, to)
    <3>1. k \in 0 .. m - 1 /\ k \in 0 .. m /\ v \in 0 .. m /\ v \in 1 .. m /\ v - 1 = k
      BY <1>8, <2>2
    <3>2. after[k] \in Parsing(S) /\ Len(after[k].splits) = m
      BY <1>9, <3>1
    <3>3. after[v] = _processRequestProperties(after[k], v) /\ Fine(after[v])
      <4>1. after[v] = Turn(after[k], v) /\ Fine(after[k]) /\ Fine(after[v])
        BY <1>9, <1>10, <3>1
      <4> QED BY <4>1 DEF Turn, Fine
    <3>4. PICK x \in Parsing(S) : x = after[k]
      BY <3>2
    <3>5. PICK z : z = after[v]
      OBVIOUS
    <3>6. /\ Inside(connection, n, to, cut, A, k, x) /\ Len(x.splits) = Len(cut.parts)
          /\ z = _processRequestProperties(x, v) /\ Fine(z) /\ k \in 0 .. Len(cut.parts) - 1
          /\ x \in Parsing(Symbols(connection)) /\ cut \in Cuts(Symbols(connection))
          /\ Places(connection.stream, HTTP_1_1_END_MARKER, a, to, cut, A)
      BY <1>1, <1>2, <1>6, <1>7, <2>2, <3>1, <3>2, <3>3, <3>4, <3>5 DEF m, S, D
    <3>7. /\ v < Len(cut.parts) => Inside(connection, n, to, cut, A, v, z)
          /\ v = Len(cut.parts) =>
               Stands(connection, z.requests, z.wait, z.length, z.props, z.buffer, to)
      <4>1. Turning(n, to, a, cut, A, k, x, v, z)
        BY <1>1, <1>2, <1>3, <1>8, <2>2, <3>6 DEF Turning
      <4> QED BY <4>1, StepInside
    <3> QED BY <1>1, <3>5, <3>7 DEF m
  <2>3. ASSUME NEW k \in Nat, k \in T  PROVE k + 1 \in T
    <3> SUFFICES ASSUME k + 1 < m  PROVE In(k + 1)
      OBVIOUS
    <3>1. k < m /\ In(k)
      BY <1>8, <2>3
    <3> HIDE DEF In
    <3> QED BY <2>2, <3>1
  <2>4. Nat \subseteq T
    <3> HIDE DEF T
    <3> QED BY <2>1, <2>3, SetInduction
  <2>5. PICK k \in Nat : k = m - 1
    BY <1>8, <1>15
  <2>6. k < m /\ k + 1 = m /\ In(k)
    BY <1>8, <2>4, <2>5
  <2> HIDE DEF In
  <2>7. LET x == after[m]
        IN  Stands(c, x.requests, x.wait, x.length, x.props, x.buffer, to)
    BY <2>2, <2>6
  <2> QED BY Zenon, <1>1, <1>12, <2>7
<1> QED BY <1>14, <1>15

-----------------------------------------------------------------------------
(***************************************************************************)
(* The invariant behind CutsDoNotMatter: undisturbed, the parser stands    *)
(* where the stream is read to.  While it awaits a payload it must also    *)
(* know the length and the head it will hand out.                          *)
(***************************************************************************)
Undisturbed ==
  /\ _RequestParseError = 0
  /\ ~thrown
  /\ ~lost
  /\ \A k \in 0 .. Len(_Requests) :
       k < Len(_Requests) \/ _POSTWaitContentLength =>
         PlainBody(connection, RequestEnd(connection)[k])

CutsInv ==
  Undisturbed =>
    Stands(connection, _Requests, _POSTWaitContentLength, _POSTContentLength,
           _RequestProperties, _HTTPRequestBuffer, fed)

\* A window and the one behind it.
LEMMA WindowsJoin ==
  ASSUME NEW S, NEW s \in Seq(S), NEW a \in Nat, NEW b \in Nat, NEW d \in Nat,
         a <= b, b <= d, d <= Len(s)
  PROVE  Window(s, a, b) \o Window(s, b, d) = Window(s, a, d)
<1> DEFINE u == Window(s, a, b)
           v == Window(s, b, d)
           w == Window(s, a, d)
<1>0. b <= Len(s) /\ Len(s) \in Nat
  OBVIOUS
<1>1. u \in Seq(S) /\ Len(u) = b - a /\ \A j \in 1 .. b - a : u[j] = s[a + j]
  BY Zenon, <1>0, WindowPlaces
<1>2. v \in Seq(S) /\ Len(v) = d - b /\ \A j \in 1 .. d - b : v[j] = s[b + j]
  BY WindowPlaces
<1>3. a <= d
  OBVIOUS
<1>4. w \in Seq(S) /\ Len(w) = d - a /\ \A j \in 1 .. d - a : w[j] = s[a + j]
  BY <1>3, WindowPlaces
<1> HIDE DEF u, v, w
<1> DEFINE x == u \o v
<1>5. x \in Seq(S) /\ Len(x) = d - a /\ Len(x) = Len(u) + Len(v)
  <2>1. x \in Seq(S) /\ Len(x) = Len(u) + Len(v)
    <3>1. u \in Seq(S) /\ v \in Seq(S)
      BY <1>1, <1>2
    <3> QED BY <3>1
  <2>2. (b - a) + (d - b) = d - a
    OBVIOUS
  <2> HIDE DEF x
  <2> QED BY <1>1, <1>2, <2>1, <2>2
<1>6. ASSUME NEW j \in 1 .. d - a  PROVE x[j] = w[j]
  <2>0. j \in Nat /\ j >= 1 /\ j <= d - a /\ b - a \in Nat
    OBVIOUS
  <2>1. CASE j <= b - a
    <3>1. j \in 1 .. b - a
      BY <2>1
    <3>2. x[j] = u[j]
      BY <1>1, <1>2, <3>1
    <3> QED BY <1>1, <1>4, <3>1, <3>2
  <2>2. CASE j > b - a
    <3>1. PICK i \in Nat : i = j - (b - a) /\ i \in 1 .. d - b /\ b + i = a + j
      BY <2>2
    <3>2. x[j] = v[i]
      <4>1. j \in 1 .. Len(u) + Len(v) /\ j > Len(u) /\ j - Len(u) = i
        BY <1>1, <1>2, <1>5, <2>0, <2>2, <3>1
      <4> QED BY <1>1, <1>2, <4>1
    <3> QED BY <1>2, <1>4, <3>1, <3>2
  <2>3. j <= b - a \/ j > b - a
    BY <2>0
  <2> HIDE DEF x
  <2> QED BY <2>1, <2>2, <2>3
<1> HIDE DEF x
<1>7. x = w
  BY SMTT(30), <1>4, <1>5, <1>6, SameSymbols
<1> QED BY <1>7 DEF x, u, v, w

\* A payload that is still incomplete and holds no end marker is not split.
LEMMA PlainIsKept ==
  ASSUME NEW c \in Connections, NEW start \in Nat, PlainBody(c, start),
         NEW to \in Nat, BodyStart(c, start) <= to, to < BodyEnd(c, start),
         to <= Len(c.stream), NEW buffer,
         buffer = Window(c.stream, BodyStart(c, start), to)
  PROVE  /\ split(buffer, HTTP_1_1_END_MARKER).parts = <<>>
         /\ split(buffer, HTTP_1_1_END_MARKER).left = buffer
<1> DEFINE D == HTTP_1_1_END_MARKER
           S == Symbols(c)
           s == c.stream
<1>1. s \in Seq(S) /\ BodyStart(c, start) \in Nat /\ BodyEnd(c, start) \in Nat
  BY ReadFrom
<1>2. PICK a \in Nat : a = BodyStart(c, start)
  BY <1>1
<1>3. Delimiter(D) /\ Len(D) = 4
  BY Zenon, Delimiters
<1>4. PICK R : D \in Seq(R)
  BY <1>3 DEF Delimiter
<1>5. \A pos \in Occurrences(s, D) : pos >= a => pos + 4 > BodyEnd(c, start)
  BY <1>2, <1>3 DEF PlainBody
<1>6. a <= to /\ to <= Len(s) /\ buffer = Window(s, a, to)
  BY <1>2
<1> HIDE DEF D, S, s
<1>7. buffer \in Seq(S)
  BY <1>1, <1>6, WindowType
<1>8. find(buffer, D) = npos
  <2> SUFFICES ASSUME find(buffer, D) # npos  PROVE FALSE
    OBVIOUS
  <2>1. PICK z \in Nat : z = 0
    OBVIOUS
  <2> DEFINE at == {k \in Occurrences(buffer, D) : k >= z}
             f == findFrom(buffer, D, z)
  <2>2. f # npos
    BY <2>1 DEF find
  <2>3. f \in at /\ f \in Nat
    BY <1>4, <1>7, <2>2, FindFirst
  <2>4. f \in Occurrences(buffer, D)
    BY <2>3
  <2> HIDE DEF f, at
  <2>5. a + f \in Occurrences(s, D) /\ (a + f) + Len(D) <= to
    BY <1>1, <1>4, <1>6, <2>3, <2>4, OccurrencesInWindow
  <2>6. (a + f) + 4 > BodyEnd(c, start)
    BY <1>5, <2>3, <2>5
  <2> QED BY <1>1, <1>3, <2>3, <2>5, <2>6
<1> QED BY <1>3, <1>7, <1>8, SplitOfPlain DEF D

\* The payload awaited arrives: the request is handed out as it is read.
LEMMA CompleteCuts ==
  ASSUME TypeInv, NEW to \in fed + 1 .. Len(stream), NEW chunk,
         chunk = SubSeq(stream, fed + 1, to), CompletePOST(chunk),
         Stands(connection, _Requests, _POSTWaitContentLength, _POSTContentLength,
                _RequestProperties, _HTTPRequestBuffer, fed)
  PROVE  Stands(connection, _Requests', _POSTWaitContentLength', _POSTContentLength',
                _RequestProperties', _HTTPRequestBuffer', to)
<1> DEFINE S == Symbols(connection)
           n == Len(_Requests)
           buffer == _HTTPRequestBuffer \o chunk
<1>1. PICK c : c = connection
  OBVIOUS
<1>2. PICK s : s = c.stream
  OBVIOUS
<1>3. c \in Connections /\ s \in Seq(S) /\ stream = s /\ to <= Len(s) /\ to \in Nat
      /\ fed \in Nat /\ fed <= to
  <2>1. c \in Connections /\ stream = s /\ fed \in Nat /\ to \in Nat /\ to <= Len(s) /\ fed <= to
    BY <1>1, <1>2, ChunkType DEF TypeInv, stream
  <2>2. 0 \in Nat
    OBVIOUS
  <2> QED BY Zenon, <1>1, <1>2, <2>1, <2>2, ReadFrom
<1>4. n \in Nat /\ _Requests \in Seq(RequestProperties_t(S))
  BY DEF TypeInv, TypeOK, Received, Symbols, stream
<1> HIDE DEF S, n
<1>5. PICK start \in Nat : start = RequestEnd(c)[n]
  BY <1>3, <1>4, EndUnfolds
<1>6. RequestEnd(c)[n + 1] = BodyEnd(c, start)
  BY <1>3, <1>4, <1>5, EndUnfolds
<1>7. /\ _RequestProperties' = [_RequestProperties EXCEPT !.Payload = substr(buffer, 0, _POSTContentLength)]
      /\ _HTTPRequestBuffer' = rest(buffer, _POSTContentLength)
      /\ _Requests' = Append(_Requests, _RequestProperties')
      /\ _POSTWaitContentLength' = FALSE
      /\ _POSTWaitContentLength /\ Len(buffer) >= _POSTContentLength
  BY Zenon DEF CompletePOST, PayloadArrived
<1>8. PICK q \in Nat : q = BodyStart(c, start)
  BY SMTT(30), <1>3, ReadFrom
<1> DEFINE P == HeadFrom(c, start)
           L == BodyLength(c, start)
<1>9. L \in Nat /\ BodyEnd(c, start) = q + L /\ P \in RequestProperties_t(S)
  BY <1>1, <1>3, <1>8, ReadFrom DEF S
<1>10. /\ AsRead(c, _Requests) /\ q <= fed /\ _HTTPRequestBuffer = Window(s, q, fed)
       /\ _RequestProperties = P /\ P.HTTPMethod = "POST" /\ HasLength(P)
       /\ _POSTContentLength = ContentLength(P)
  BY <1>1, <1>2, <1>5, <1>7, <1>8 DEF Stands, n
<1>11. _POSTContentLength = L
  BY <1>10 DEF BodyLength, Announced
<1> HIDE DEF P, L
<1>12. buffer = Window(s, q, to) /\ q <= to
  <2>1. chunk = Window(s, fed, to)
    BY <1>3 DEF Window
  <2>2. Window(s, q, fed) \o Window(s, fed, to) = Window(s, q, to)
    BY Zenon, <1>3, <1>10, WindowsJoin
  <2>3. q <= to
    BY <1>3, <1>10
  <2> QED BY Zenon, <1>10, <2>1, <2>2, <2>3
<1>13. buffer \in Seq(S) /\ Len(buffer) = to - q
  <2>1. Window(s, q, to) \in Seq(S) /\ Len(Window(s, q, to)) = to - q
    BY <1>3, <1>12, WindowType
  <2> QED BY Zenon, <1>12, <2>1
<1> HIDE DEF buffer
<1>14. L <= to - q /\ q + L <= to /\ q + L \in Nat /\ q + L <= Len(s)
  <2>1. L <= to - q
    BY <1>7, <1>9, <1>11, <1>13
  <2> QED BY <1>3, <1>9, <2>1
<1>15. substr(buffer, 0, L) = Window(s, q, q + L)
  <2>1. PICK z \in Nat : z = 0
    OBVIOUS
  <2>2. z + L <= Len(buffer) /\ z <= z + L /\ z + L \in Nat /\ z + L <= to - q
    BY <1>9, <1>13, <1>14, <2>1
  <2>3. substr(buffer, z, L) = Window(buffer, z, z + L)
    BY <1>9, <1>13, <2>2, SubstrIsWindow
  <2>4. Window(Window(s, q, to), z, z + L) = Window(s, q + z, q + (z + L))
    BY <1>3, <1>12, <2>2, WindowOfWindow
  <2>5. q + z = q /\ q + (z + L) = q + L
    BY <1>9, <2>1
  <2> QED BY <1>12, <2>1, <2>3, <2>4, <2>5
<1>16. rest(buffer, L) = Window(s, q + L, to)
  <2>1. L \in 0 .. Len(buffer) /\ to - q \in Nat
    BY <1>3, <1>9, <1>12, <1>13, <1>14
  <2>2. rest(buffer, L) = Window(buffer, L, Len(buffer))
    BY Zenon, <1>13, <2>1, RestIsWindow
  <2>3. Window(Window(s, q, to), L, to - q) = Window(s, q + L, q + (to - q))
    BY SMTT(30), <1>3, <1>9, <1>12, <1>14, <2>1, WindowOfWindow
  <2>4. q + (to - q) = to
    BY <1>3
  <2> QED BY <1>12, <1>13, <2>2, <2>3, <2>4
<1> DEFINE r == [P EXCEPT !.Payload = Window(s, q, q + L)]
<1>17. r = RequestFrom(c, start)
  BY <1>2, <1>8, <1>9 DEF RequestFrom, Window, P
<1>18. r \in RequestProperties_t(S)
  <2>1. Window(s, q, q + L) \in Seq(S)
    <3>1. q <= q + L
      BY <1>9
    <3> QED BY <1>3, <1>14, <3>1, WindowType
  <2> QED BY <1>9, <2>1, PayloadType
<1>19. _Requests' = Append(_Requests, r)
  BY <1>7, <1>10, <1>11, <1>15
<1> HIDE DEF r
<1>20. AsRead(c, Append(_Requests, r)) /\ Len(Append(_Requests, r)) = n + 1
  BY <1>4, <1>5, <1>10, <1>17, <1>18, AsReadAppend DEF n
<1>21. RequestEnd(c)[Len(_Requests')] = q + L
  BY <1>6, <1>9, <1>19, <1>20
<1>22. _HTTPRequestBuffer' = Window(s, q + L, to)
  BY SMTT(30), <1>7, <1>11, <1>16
<1>23. Stands(c, _Requests', FALSE, _POSTContentLength', _RequestProperties', _HTTPRequestBuffer', to)
  BY <1>2, <1>14, <1>19, <1>20, <1>21, <1>22 DEF Stands
<1> QED BY Zenon, <1>1, <1>7, <1>23

\* What ProcessHeads assigns: the state y after the last turn of its loop.
HeadsDone(chunk, st, after, y) ==
  /\ st \in Parsing(Symbols(connection))
  /\ st = Begin(_HTTPRequestBuffer \o chunk)
  /\ Turns(Symbols(connection), st, after) /\ y = after[Len(st.splits)]
  /\ _HTTPRequestBuffer' = y.buffer /\ _POSTWaitContentLength' = y.wait
  /\ _POSTContentLength' = y.length /\ _RequestProperties' = y.props
  /\ _Requests' = y.requests
  /\ _RequestParseError' = IF y.ok THEN _RequestParseError ELSE 400
  /\ thrown' = y.thrown /\ lost' = lost

LEMMA HeadsLoop ==
  ASSUME TypeInv, NEW to \in fed + 1 .. Len(stream), NEW chunk,
         chunk = SubSeq(stream, fed + 1, to), ProcessHeads(chunk)
  PROVE  \E st, after, y : HeadsDone(chunk, st, after, y)
<1> DEFINE buffer == _HTTPRequestBuffer \o chunk
           st == Begin(buffer)
           after == _processRequests(st)
           y == after[Len(st.splits)]
<1>1. /\ _HTTPRequestBuffer' = y.buffer /\ _POSTWaitContentLength' = y.wait
      /\ _POSTContentLength' = y.length /\ _RequestProperties' = y.props
      /\ _Requests' = y.requests
      /\ _RequestParseError' = IF y.ok THEN _RequestParseError ELSE 400
      /\ thrown' = y.thrown /\ lost' = lost
  BY Zenon DEF ProcessHeads, Processed, Begin
<1>2. buffer \in Seq(Received)
  BY ChunkType
<1> HIDE DEF buffer
<1>3. st \in Parsing(Received) /\ "/" \in Received
  BY <1>2, BeginType, ConnectionType DEF TypeInv
<1> HIDE DEF st
<1>4. Turns(Received, st, after)
  BY <1>3, LoopType DEF Turns
<1>5. Received = Symbols(connection)
  BY DEF Received, Symbols, stream
<1> HIDE DEF after, y
<1>6. y = after[Len(st.splits)]
  BY DEF y
<1>7. HeadsDone(chunk, st, after, y)
  BY <1>1, <1>3, <1>4, <1>5, <1>6 DEF HeadsDone, st, buffer
<1> QED BY <1>7

\* ProcessHeads adds requests, ends no wait and forgets no refusal.
LEMMA HeadsGrow ==
  ASSUME TypeInv, NEW to \in fed + 1 .. Len(stream), NEW chunk,
         chunk = SubSeq(stream, fed + 1, to), ProcessHeads(chunk)
  PROVE  /\ Len(_Requests) \in Nat /\ Len(_Requests') \in Nat
         /\ Len(_Requests') >= Len(_Requests)
         /\ _POSTWaitContentLength => _POSTWaitContentLength'
         /\ _RequestParseError' = 0 => _RequestParseError = 0
         /\ lost' = lost
<1> DEFINE S == Symbols(connection)
<1>1. PICK st, after, y : HeadsDone(chunk, st, after, y)
  BY Zenon, HeadsLoop
<1>2. /\ st = Begin(_HTTPRequestBuffer \o chunk) /\ st \in Parsing(S)
      /\ Turns(S, st, after) /\ y = after[Len(st.splits)]
      /\ _POSTWaitContentLength' = y.wait /\ _Requests' = y.requests
      /\ _RequestParseError' = IF y.ok THEN _RequestParseError ELSE 400
      /\ lost' = lost
  BY SMTT(30), <1>1 DEF HeadsDone
<1>3. st.requests = _Requests /\ st.wait = _POSTWaitContentLength
  BY <1>2 DEF Begin
<1>4. "/" \in S
  BY DEF Symbols
<1>5. Len(st.splits) \in 0 .. Len(st.splits)
  BY <1>2 DEF Parsing
<1> HIDE DEF S
<1>6. Grows(st, y)
  BY <1>2, <1>4, <1>5, LoopGrows
<1>7. y \in Parsing(S)
  BY SMTT(30), <1>2, <1>5 DEF Turns
<1>8. Len(st.requests) \in Nat /\ Len(y.requests) \in Nat
  BY <1>2, <1>7 DEF Parsing
<1> QED BY <1>2, <1>3, <1>6, <1>8 DEF Grows

\* The heads are processed: the parser stands where the stream is read to.
LEMMA HeadsCuts ==
  ASSUME TypeInv, NEW to \in fed + 1 .. Len(stream), NEW chunk,
         chunk = SubSeq(stream, fed + 1, to), ProcessHeads(chunk),
         Stands(connection, _Requests, _POSTWaitContentLength, _POSTContentLength,
                _RequestProperties, _HTTPRequestBuffer, fed),
         _RequestParseError' = 0, ~thrown',
         _POSTWaitContentLength =>
           PlainBody(connection, RequestEnd(connection)[Len(_Requests)])
  PROVE  Stands(connection, _Requests', _POSTWaitContentLength', _POSTContentLength',
                _RequestProperties', _HTTPRequestBuffer', to)
<1> DEFINE S == Symbols(connection)
           D == HTTP_1_1_END_MARKER
           n == Len(_Requests)
           buffer == _HTTPRequestBuffer \o chunk
<1>1. PICK c : c = connection
  OBVIOUS
<1>2. PICK s : s = c.stream
  OBVIOUS
<1>3. c \in Connections /\ s \in Seq(S) /\ stream = s /\ to <= Len(s) /\ to \in Nat
      /\ fed \in Nat /\ fed <= to /\ chunk = Window(s, fed, to)
  <2>1. c \in Connections /\ stream = s /\ fed \in Nat /\ to \in Nat /\ to <= Len(s) /\ fed <= to
    BY <1>1, <1>2, ChunkType DEF TypeInv, stream
  <2>2. 0 \in Nat
    OBVIOUS
  <2> QED BY Zenon, <1>1, <1>2, <2>1, <2>2, ReadFrom DEF Window
<1>4. n \in Nat /\ _POSTWaitContentLength \in BOOLEAN
  BY DEF TypeInv, TypeOK
<1>5. PICK st, after, y : HeadsDone(chunk, st, after, y)
  BY HeadsLoop
<1>6. /\ st = Begin(buffer) /\ st \in Parsing(S)
      /\ Turns(S, st, after) /\ y = after[Len(st.splits)]
      /\ _HTTPRequestBuffer' = y.buffer /\ _POSTWaitContentLength' = y.wait
      /\ _POSTContentLength' = y.length /\ _RequestProperties' = y.props
      /\ _Requests' = y.requests
      /\ _RequestParseError' = IF y.ok THEN _RequestParseError ELSE 400
      /\ thrown' = y.thrown
  BY SMTT(30), <1>5 DEF HeadsDone
<1>7. Fine(y)
  BY <1>6 DEF Fine
<1>8. /\ st.requests = _Requests /\ st.wait = _POSTWaitContentLength
      /\ st.length = _POSTContentLength /\ st.props = _RequestProperties
      /\ st.splits = split(buffer, D).parts /\ st.buffer = split(buffer, D).left
  BY <1>6 DEF Begin
<1>9. SUFFICES Stands(c, y.requests, y.wait, y.length, y.props, y.buffer, to)
  BY Zenon, <1>1, <1>6
<1> HIDE DEF S, D, n
<1>10. PICK start \in Nat : start = RequestEnd(c)[n]
  BY Zenon, <1>3, <1>4, EndUnfolds
<1>11. CASE ~_POSTWaitContentLength
  <2>1. AsRead(c, _Requests) /\ start <= fed /\ _HTTPRequestBuffer = Window(s, start, fed)
    BY <1>1, <1>2, <1>10, <1>11 DEF Stands, n
  <2>2. buffer = Window(s, start, to)
    <3>1. Window(s, start, fed) \o Window(s, fed, to) = Window(s, start, to)
      BY <1>3, <2>1, WindowsJoin
    <3> QED BY Zenon, <1>3, <2>1, <3>1
  <2>3. start <= to
    BY <1>3, <2>1
  <2>4. st.wait = FALSE
    BY SMTT(30), <1>8, <1>11
  <2> DEFINE cut == split(buffer, D)
  <2>5. Looping(to, start, cut, st, after, y)
    BY Zenon, <1>1, <1>2, <1>3, <1>6, <1>7, <1>8, <1>10, <2>1, <2>2, <2>3, <2>4
       DEF Looping, D, S, n
  <2> HIDE DEF cut
  <2>6. Stands(connection, y.requests, y.wait, y.length, y.props, y.buffer, to)
    BY <1>1, <1>3, <2>5, LoopStands
  <2> QED BY <1>1, <2>6
<1>12. CASE _POSTWaitContentLength
  <2>1. PICK q \in Nat : q = BodyStart(c, start)
    BY SMTT(30), <1>3, ReadFrom
  <2>2. /\ AsRead(c, _Requests) /\ q <= fed /\ _HTTPRequestBuffer = Window(s, q, fed)
        /\ HeadEnd(c, start) # npos
        /\ _RequestProperties = HeadFrom(c, start) /\ _RequestProperties.HTTPMethod = "POST"
        /\ HasLength(_RequestProperties)
        /\ _POSTContentLength = ContentLength(_RequestProperties)
    BY <1>1, <1>2, <1>10, <1>12, <2>1 DEF Stands, n
  <2>3. _POSTContentLength = BodyLength(c, start)
    BY SMTT(30), <2>2 DEF BodyLength, Announced
  <2>4. BodyLength(c, start) \in Nat /\ BodyEnd(c, start) = q + BodyLength(c, start)
    BY <1>3, <2>1, ReadFrom
  <2>5. buffer = Window(s, q, to)
    <3>1. Window(s, q, fed) \o Window(s, fed, to) = Window(s, q, to)
      BY <1>3, <2>2, WindowsJoin
    <3> QED BY Zenon, <1>3, <2>2, <3>1
  <2>6. q <= to
    BY <1>3, <2>2
  <2>7. Len(buffer) = to - q
    <3>1. Len(Window(s, q, to)) = to - q
      BY <1>3, <2>6, WindowType
    <3> QED BY <2>5, <3>1
  <2>8. ~(Len(buffer) >= _POSTContentLength)
    BY Zenon, <1>12 DEF ProcessHeads, PayloadArrived
  <2> HIDE DEF buffer
  <2>9. to < BodyEnd(c, start)
    BY <1>3, <2>3, <2>4, <2>7, <2>8
  <2>10. PlainBody(c, start)
    BY <1>1, <1>10, <1>12 DEF n
  <2>11. split(buffer, D).parts = <<>> /\ split(buffer, D).left = buffer
    <3>1. /\ BodyStart(c, start) <= to /\ to <= Len(c.stream) /\ to \in Nat
          /\ buffer = Window(c.stream, BodyStart(c, start), to)
      BY Zenon, <1>2, <1>3, <2>1, <2>5, <2>6
    <3>2. c \in Connections
      BY Zenon, <1>3
    <3> QED BY Zenon, <2>9, <2>10, <3>1, <3>2, PlainIsKept DEF D
  <2>12. y = st
    <3>1. Len(st.splits) = 0
      BY <1>8, <2>11
    <3> QED BY SMTT(30), <1>6, <3>1 DEF Turns
  <2>13. /\ y.requests = _Requests /\ y.wait /\ y.length = _POSTContentLength
         /\ y.props = _RequestProperties /\ y.buffer = Window(s, q, to)
    BY Zenon, <1>8, <1>12, <2>5, <2>11, <2>12
  <2> QED BY Zenon, <1>2, <1>10, <2>1, <2>2, <2>6, <2>13 DEF Stands, n
<1> QED BY <1>4, <1>11, <1>12

LEMMA FeedCuts ==
  ASSUME TypeInv, CutsInv, ~thrown, NEW to \in fed + 1 .. Len(stream), fed' = to,
         connection' = connection,
         LET chunk == SubSeq(stream, fed + 1, to)
         IN  Dropped(chunk) \/ CompletePOST(chunk) \/ ProcessHeads(chunk)
  PROVE  CutsInv'
<1> DEFINE n == Len(_Requests)
           Plain(k) == PlainBody(connection, RequestEnd(connection)[k])
<1>1. PICK chunk : chunk = SubSeq(stream, fed + 1, to)
  BY Zenon
<1>2. Dropped(chunk) \/ CompletePOST(chunk) \/ ProcessHeads(chunk)
  BY <1>1
<1>3. SUFFICES ASSUME Undisturbed'
               PROVE  Stands(connection, _Requests', _POSTWaitContentLength', _POSTContentLength',
                             _RequestProperties', _HTTPRequestBuffer', to)
  BY DEF CutsInv
<1>4. /\ _RequestParseError' = 0 /\ ~thrown' /\ ~lost'
      /\ \A k \in 0 .. Len(_Requests') :
           k < Len(_Requests') \/ _POSTWaitContentLength' => Plain(k)
  <2>1. /\ _RequestParseError' = 0 /\ ~thrown' /\ ~lost'
        /\ \A k \in 0 .. Len(_Requests') :
             k < Len(_Requests') \/ _POSTWaitContentLength' =>
               PlainBody(connection', RequestEnd(connection')[k])
    BY <1>3 DEF Undisturbed
  <2> QED BY <2>1
<1>5. n \in Nat /\ _Requests \in Seq(RequestProperties_t(Received))
  BY DEF TypeInv, TypeOK
<1> HIDE DEF Plain
<1>6. ASSUME _RequestParseError = 0, ~lost,
             \A k \in 0 .. n : k < n \/ _POSTWaitContentLength => Plain(k)
      PROVE  Stands(connection, _Requests, _POSTWaitContentLength, _POSTContentLength,
                    _RequestProperties, _HTTPRequestBuffer, fed)
  BY <1>6 DEF CutsInv, Undisturbed, Plain
<1>7. CASE Dropped(chunk)
  BY <1>4, <1>7 DEF Dropped
<1>8. CASE CompletePOST(chunk)
  <2>1. /\ _RequestParseError' = _RequestParseError /\ lost' = lost
        /\ _Requests' = Append(_Requests, _RequestProperties')
    BY <1>8 DEF CompletePOST
  <2>2. Len(_Requests') = n + 1
    BY <1>5, <2>1
  <2>3. \A k \in 0 .. n : k \in 0 .. Len(_Requests') /\ k < Len(_Requests')
    BY <1>5, <2>2
  <2>4. Stands(connection, _Requests, _POSTWaitContentLength, _POSTContentLength,
               _RequestProperties, _HTTPRequestBuffer, fed)
    BY <1>4, <1>6, <2>1, <2>3
  <2> QED BY <1>1, <1>8, <2>4, CompleteCuts
<1>9. CASE ProcessHeads(chunk)
  <2>1. /\ Len(_Requests') \in Nat /\ Len(_Requests') >= n
        /\ _POSTWaitContentLength => _POSTWaitContentLength'
        /\ _RequestParseError' = 0 => _RequestParseError = 0
        /\ lost' = lost
    BY Zenon, <1>1, <1>9, HeadsGrow
  <2>2. \A k \in 0 .. n : k < n \/ _POSTWaitContentLength => Plain(k)
    <3>1. \A k \in 0 .. n : k \in 0 .. Len(_Requests') /\ (k < n => k < Len(_Requests'))
      BY <1>5, <2>1
    <3> QED BY <1>4, <2>1, <3>1
  <2>3. Stands(connection, _Requests, _POSTWaitContentLength, _POSTContentLength,
               _RequestProperties, _HTTPRequestBuffer, fed)
    BY <1>4, <1>6, <2>1, <2>2
  <2>4. _POSTWaitContentLength => PlainBody(connection, RequestEnd(connection)[Len(_Requests)])
    <3>1. n \in 0 .. n
      BY <1>5
    <3> QED BY <2>2, <3>1 DEF Plain
  <2> QED BY Zenon, <1>1, <1>4, <1>9, <2>3, <2>4, HeadsCuts
<1> QED BY <1>2, <1>7, <1>8, <1>9

(***************************************************************************)
(* However TCP cuts the stream: undisturbed, the k-th request handed out   *)
(* is what reading the k-th request of the stream gives, and the buffer    *)
(* holds the bytes delivered behind them.  For both builds, every stream,  *)
(* every buffer limit and every length of payload.                         *)
(***************************************************************************)
THEOREM CutsAreInvisible == Spec => []CutsDoNotMatter
<1>1. Init => TypeInv /\ CutsInv
  <2> SUFFICES ASSUME Init  PROVE TypeInv /\ CutsInv
    OBVIOUS
  <2>1. TypeInv
    BY InitType
  <2>2. PICK c : c = connection
    OBVIOUS
  <2>3. c \in Connections /\ RequestEnd(c)[0] = 0
    BY <2>2, EndUnfolds DEF Init
  <2>4. c.stream \in Seq(Symbols(c))
    <3>1. 0 \in Nat
      OBVIOUS
    <3> QED BY <2>3, <3>1, ReadFrom
  <2>5. Window(c.stream, 0, 0) = <<>>
    <3>1. PICK z \in Nat : z = 0 /\ z <= z /\ z <= Len(c.stream)
      BY <2>4
    <3>2. Window(c.stream, z, z) \in Seq(Symbols(c)) /\ Len(Window(c.stream, z, z)) = z - z
      BY <2>4, <3>1, WindowType
    <3> QED BY <3>1, <3>2
  <2>6. /\ fed = 0 /\ _HTTPRequestBuffer = <<>> /\ _POSTWaitContentLength = FALSE
        /\ _Requests = <<>> /\ Len(_Requests) = 0
    BY DEF Init
  <2>7. AsRead(c, _Requests)
    BY <2>6 DEF AsRead
  <2>8. Stands(c, _Requests, FALSE, _POSTContentLength, _RequestProperties,
               _HTTPRequestBuffer, 0)
    BY <2>3, <2>5, <2>6, <2>7 DEF Stands
  <2>9. Stands(connection, _Requests, _POSTWaitContentLength, _POSTContentLength,
               _RequestProperties, _HTTPRequestBuffer, fed)
    BY Zenon, <2>2, <2>6, <2>8
  <2> QED BY <2>1, <2>9 DEF CutsInv
<1>2. TypeInv /\ CutsInv /\ [Next]_vars => (TypeInv /\ CutsInv)'
  <2> SUFFICES ASSUME TypeInv, CutsInv, [Next]_vars  PROVE CutsInv'
    BY TypeInductive
  <2>1. CASE Feed
    BY <2>1, FeedCuts DEF Feed
  <2>2. CASE UNCHANGED vars
    BY <2>2 DEF vars, CutsInv, Undisturbed
  <2> QED BY <2>1, <2>2 DEF Next, appendBuffer, appendBufferCpp11
<1>3. CutsInv => CutsDoNotMatter
  BY DEF CutsInv, Undisturbed, Stands, AsRead, CutsDoNotMatter, Window, stream
<1> QED BY <1>1, <1>2, <1>3, PTL DEF Spec

=============================================================================
