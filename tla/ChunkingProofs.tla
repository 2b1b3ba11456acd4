---------------------------- MODULE ChunkingProofs ----------------------------
(***************************************************************************)
(* Proofs about Chunking, for any texts, lengths and limits.  A chunk is a  *)
(* run of the sentences of its clause until the small ones are joined; runs *)
(* follow each other, with a gap only behind one that was too long; and the *)
(* joined chunks have what those joined had, one after the other.           *)
(***************************************************************************)
EXTENDS Chunking, TLAPS, FiniteSetTheorems, SequenceTheorems, NaturalsInduction,
        WellFoundedInduction

-----------------------------------------------------------------------------
(* Numbers, and folds.                                                      *)

Added(sizes, i, x) == x + sizes[i]

\* What holds of 0, and of a number when of the one before, holds up to a bound.
LEMMA UpTo ==
    ASSUME NEW n \in Nat, NEW P, 0 \in P, \A k \in 1 .. n : k - 1 \in P => k \in P
    PROVE  0 .. n \subseteq P
<1> DEFINE T == (0 .. n) \ P
<1> SUFFICES ASSUME T # {}
             PROVE  FALSE
  OBVIOUS
<1>1. T \in SUBSET Nat
  OBVIOUS
<1>2. PICK m \in T : \A k \in T : m <= k
  <2> DEFINE R == {p \in Nat \X Nat : p[1] < p[2]}
  <2>1. IsWellFoundedOn(R, Nat)
    BY NatLessThanWellFounded DEF OpToRel
  <2> HIDE DEF T
  <2>2. PICK m \in T : \A k \in T : <<k, m>> \notin R
    BY <1>1, <2>1, WFMin
  <2>3. ASSUME NEW k \in T
        PROVE  m <= k
    <3>1. <<k, m>> \notin R
      BY <2>2
    <3>2. m \in Nat /\ k \in Nat
      BY <1>1, <2>2
    <3> QED BY <3>1, <3>2
  <2> QED BY <2>3
<1>3. m \in 1 .. n
  OBVIOUS
<1>4. m - 1 \notin T
  BY <1>1, <1>2
<1>5. m - 1 \in P
  BY <1>3, <1>4
<1> QED BY <1>3, <1>5

\* The largest and the least of some of the first numbers.
LEMMA Bounds ==
    ASSUME NEW n \in Nat, NEW s \in SUBSET (1 .. n), s # {}
    PROVE  /\ Max(s) \in s /\ Min(s) \in s
           /\ \A y \in s : Max(s) >= y /\ Min(s) =< y
<1> DEFINE P == {k \in 0 .. n : \A t \in SUBSET (1 .. k) : t # {} =>
                   /\ \E x \in t : \A y \in t : x >= y
                   /\ \E x \in t : \A y \in t : x =< y}
<1>1. 0 \in P
  <2>1. 1 .. 0 = {}
    OBVIOUS
  <2>2. \A t \in SUBSET (1 .. 0) : t = {}
    BY <2>1
  <2>3. 0 \in 0 .. n
    OBVIOUS
  <2> QED BY <2>2, <2>3
<1>2. ASSUME NEW k \in 1 .. n, k - 1 \in P
      PROVE  k \in P
  <2> SUFFICES ASSUME NEW t \in SUBSET (1 .. k), t # {}
               PROVE  /\ \E x \in t : \A y \in t : x >= y
                      /\ \E x \in t : \A y \in t : x =< y
    OBVIOUS
  <2>1. CASE k \notin t
    <3>1. t \in SUBSET (1 .. k - 1)
      BY <2>1
    <3> QED BY <1>2, <3>1
  <2>2. CASE k \in t /\ t = {k}
    BY <2>2
  <2>3. CASE k \in t /\ t # {k}
    <3>1. t \ {k} \in SUBSET (1 .. k - 1) /\ t \ {k} # {}
      BY <2>3
    <3>2. PICK x \in t \ {k} : \A y \in t \ {k} : x =< y
      BY <1>2, <3>1
    <3>3. \A y \in t : x =< y
      BY <3>2
    <3>4. \A y \in t : k >= y
      OBVIOUS
    <3> QED BY <2>3, <3>3, <3>4
  <2> QED BY <2>1, <2>2, <2>3
<1>3. n \in P
  <2> HIDE DEF P
  <2>1. 0 .. n \subseteq P
    BY <1>1, <1>2, UpTo
  <2> QED BY <2>1
<1>4. (\E x \in s : \A y \in s : x >= y) /\ (\E x \in s : \A y \in s : x =< y)
  BY <1>3
<1> QED BY <1>4 DEF Max, Min

LEMMA MaxOfFirst ==
    ASSUME NEW k \in Nat \ {0}
    PROVE  Max(1 .. k) = k /\ (1 .. k) \ {k} = 1 .. k - 1 /\ 1 .. k # {}
<1>1. k \in 1 .. k /\ \A y \in 1 .. k : k >= y
  OBVIOUS
<1>2. \A x \in 1 .. k : (\A y \in 1 .. k : x >= y) => x = k
  BY <1>1
<1>3. Max(1 .. k) = k
  BY <1>1, <1>2 DEF Max
<1> QED BY <1>1, <1>3

LEMMA MinOfLast ==
    ASSUME NEW n \in Nat, NEW k \in 1 .. n
    PROVE  Min(k .. n) = k /\ (k .. n) \ {k} = k + 1 .. n /\ k .. n # {}
<1>1. k \in k .. n /\ \A y \in k .. n : k =< y
  OBVIOUS
<1>2. \A x \in k .. n : (\A y \in k .. n : x =< y) => x = k
  BY <1>1
<1>3. Min(k .. n) = k
  BY <1>1, <1>2 DEF Min
<1> QED BY <1>1, <1>3

\* What a fold from either end is by definition, with a function for its step.
FoldsLeft(g, n, base, f) ==
    \A s \in SUBSET (1 .. n) :
        g[s] = IF s = {} THEN base ELSE f[<<Max(s), g[s \ {Max(s)}]>>]

\* The function that a fold of a sequence iterates exists.
LEMMA FoldLeftExists ==
    ASSUME NEW S, NEW base \in S, NEW n \in Nat, NEW f,
           \A i \in 1 .. n, x \in S : f[<<i, x>>] \in S
    PROVE  \E g \in [SUBSET (1 .. n) -> S] : FoldsLeft(g, n, base, f)
<1> DEFINE Solves(g, k) ==
              \A s \in SUBSET (1 .. k) :
                  g[s] = IF s = {} THEN base ELSE f[<<Max(s), g[s \ {Max(s)}]>>]
           P == {k \in 0 .. n : \E g \in [SUBSET (1 .. k) -> S] : Solves(g, k)}
<1>1. 0 \in P
  <2> DEFINE g == [s \in SUBSET (1 .. 0) |-> base]
  <2>1. g \in [SUBSET (1 .. 0) -> S]
    OBVIOUS
  <2>2. \A s \in SUBSET (1 .. 0) : s = {} /\ g[s] = base
    OBVIOUS
  <2>3. Solves(g, 0)
    BY <2>2
  <2> HIDE DEF g, Solves
  <2> QED BY <2>1, <2>3
<1>2. ASSUME NEW k \in 1 .. n, k - 1 \in P
      PROVE  k \in P
  <2>1. PICK g \in [SUBSET (1 .. k - 1) -> S] : Solves(g, k - 1)
    BY <1>2
  <2> DEFINE h == [s \in SUBSET (1 .. k) |->
                      IF k \in s THEN f[<<k, g[s \ {k}]>>] ELSE g[s]]
  <2>0. (1 .. k) \ {k} = 1 .. k - 1
    OBVIOUS
  <2>2. \A s \in SUBSET (1 .. k) : s \ {k} \in SUBSET (1 .. k - 1)
    BY <2>0
  <2>3. \A s \in SUBSET (1 .. k) : k \notin s => s \in SUBSET (1 .. k - 1)
    OBVIOUS
  <2>4. h \in [SUBSET (1 .. k) -> S]
    BY <2>2, <2>3
  <2>5. \A s \in SUBSET (1 .. k - 1) : h[s] = g[s]
    <3>1. \A s \in SUBSET (1 .. k - 1) : s \in SUBSET (1 .. k) /\ k \notin s
      OBVIOUS
    <3> QED BY <3>1
  <2>6. ASSUME NEW s \in SUBSET (1 .. k), k \in s
        PROVE  h[s] = IF s = {} THEN base ELSE f[<<Max(s), h[s \ {Max(s)}]>>]
    <3>1. Max(s) = k
      <4>1. \A y \in s : k >= y
        OBVIOUS
      <4>2. \A x \in s : (\A y \in s : x >= y) => x = k
        BY <2>6
      <4> QED BY <2>6, <4>1, <4>2 DEF Max
    <3>2. h[s] = f[<<k, g[s \ {k}]>>] /\ s # {}
      BY <2>6
    <3>3. h[s \ {k}] = g[s \ {k}]
      BY <2>2, <2>5
    <3> HIDE DEF h
    <3> QED BY <3>1, <3>2, <3>3
  <2>7. ASSUME NEW s \in SUBSET (1 .. k), k \notin s
        PROVE  h[s] = IF s = {} THEN base ELSE f[<<Max(s), h[s \ {Max(s)}]>>]
    <3>1. s \in SUBSET (1 .. k - 1) /\ s \ {Max(s)} \in SUBSET (1 .. k - 1)
      BY <2>3, <2>7
    <3>2. h[s] = g[s] /\ h[s \ {Max(s)}] = g[s \ {Max(s)}]
      BY <2>5, <3>1
    <3> HIDE DEF h
    <3> QED BY <2>1, <3>1, <3>2
  <2>8. Solves(h, k)
    BY <2>6, <2>7
  <2> HIDE DEF h, Solves
  <2>9. \E e \in [SUBSET (1 .. k) -> S] : Solves(e, k)
    BY <2>4, <2>8
  <2>10. k \in 0 .. n
    OBVIOUS
  <2> QED BY <2>9, <2>10
<1>3. n \in P
  <2> HIDE DEF P
  <2>1. 0 .. n \subseteq P
    BY <1>1, <1>2, UpTo
  <2> QED BY <2>1
<1> QED BY <1>3 DEF FoldsLeft

\* Total adds one size after the other.
LEMMA TotalIs ==
    ASSUME NEW sizes \in Seq(Nat)
    PROVE  \E F \in [0 .. Len(sizes) -> Nat] :
              /\ F[0] = 0
              /\ \A k \in 1 .. Len(sizes) : F[k] = Added(sizes, k, F[k - 1])
              /\ Total(sizes) = F[Len(sizes)]
<1> DEFINE n == Len(sizes)
           f == [p \in (1 .. n) \X Nat |-> Added(sizes, p[1], p[2])]
           it == CHOOSE it : it = [s \in SUBSET DOMAIN sizes |->
                    IF s = {} THEN 0 ELSE Added(sizes, Max(s), it[s \ {Max(s)}])]
<1>1. n \in Nat /\ DOMAIN sizes = 1 .. n
  OBVIOUS
<1>2. Total(sizes) = it[DOMAIN sizes]
  BY DEF Total, Added, FoldLeft, MapThenFoldSet
<1>3. \A i \in 1 .. n, x \in Nat : Added(sizes, i, x) \in Nat
  BY DEF Added
<1>4. \A i \in 1 .. n, x \in Nat : f[<<i, x>>] = Added(sizes, i, x)
  OBVIOUS
<1> HIDE DEF n, f, it
<1>5. PICK g \in [SUBSET (1 .. n) -> Nat] : FoldsLeft(g, n, 0, f)
  <2>1. 0 \in Nat /\ \A i \in 1 .. n, x \in Nat : f[<<i, x>>] \in Nat
    BY <1>3, <1>4
  <2>2. n \in Nat
    BY <1>1
  <2> QED BY <2>1, <2>2, FoldLeftExists
<1>6. \A s \in SUBSET (1 .. n) :
         g[s] = IF s = {} THEN 0 ELSE Added(sizes, Max(s), g[s \ {Max(s)}])
  <2> TAKE s \in SUBSET (1 .. n)
  <2>1. CASE s = {}
    BY <1>5, <2>1 DEF FoldsLeft
  <2>2. CASE s # {}
    <3>1. Max(s) \in 1 .. n
      BY <1>1, <2>2, Bounds
    <3>2. g[s \ {Max(s)}] \in Nat
      BY <1>5
    <3> QED BY <1>4, <1>5, <2>2, <3>1, <3>2 DEF FoldsLeft
  <2> QED BY <2>1, <2>2
<1>7. g = [s \in SUBSET DOMAIN sizes |->
              IF s = {} THEN 0 ELSE Added(sizes, Max(s), g[s \ {Max(s)}])]
  BY <1>1, <1>5, <1>6
<1>8. it = [s \in SUBSET DOMAIN sizes |->
               IF s = {} THEN 0 ELSE Added(sizes, Max(s), it[s \ {Max(s)}])]
  BY <1>7 DEF it
<1> DEFINE firsts(k) == 1 .. k
<1>9. it[{}] = 0 /\ \A k \in 1 .. n : it[firsts(k)] = Added(sizes, k, it[firsts(k - 1)])
  <2>1. it[{}] = 0
    BY <1>8
  <2>2. ASSUME NEW k \in 1 .. n
        PROVE  it[firsts(k)] = Added(sizes, k, it[firsts(k - 1)])
    <3>1. k \in Nat \ {0}
      BY <1>1
    <3>2. Max(firsts(k)) = k /\ firsts(k) \ {k} = firsts(k - 1) /\ firsts(k) # {}
      BY <3>1, MaxOfFirst
    <3>3. firsts(k) \in SUBSET DOMAIN sizes
      BY <1>1
    <3> HIDE DEF firsts
    <3> QED BY <1>8, <3>2, <3>3
  <2> QED BY <2>1, <2>2
<1>0. firsts(0) = {} /\ firsts(n) = DOMAIN sizes
  BY <1>1
<1> DEFINE F == [k \in 0 .. n |-> it[firsts(k)]]
           P == {k \in 0 .. n : F[k] \in Nat}
<1>10. F[0] = 0 /\ \A k \in 1 .. n : F[k] = Added(sizes, k, F[k - 1])
  <2>1. 0 \in 0 .. n
    BY <1>1
  <2>2. \A k \in 1 .. n : k \in 0 .. n /\ k - 1 \in 0 .. n
    BY <1>1
  <2> HIDE DEF firsts
  <2> QED BY <1>9, <1>0, <2>1, <2>2
<1>11. Total(sizes) = F[n]
  <2>1. n \in 0 .. n
    BY <1>1
  <2> HIDE DEF firsts
  <2> QED BY <1>1, <1>2, <1>0, <2>1
<1> HIDE DEF F
<1>12. 0 .. n \subseteq P
  <2>1. 0 \in P
    <3>1. F[0] \in Nat
      BY <1>10
    <3>2. 0 \in 0 .. n
      BY <1>1
    <3> QED BY <3>1, <3>2
  <2>2. ASSUME NEW k \in 1 .. n, k - 1 \in P
        PROVE  k \in P
    <3>1. F[k - 1] \in Nat /\ k \in 0 .. n
      BY <1>1, <2>2
    <3>2. F[k] = Added(sizes, k, F[k - 1])
      BY <1>10
    <3>3. k \in 1 .. n
      BY <1>1
    <3> QED BY <1>3, <3>1, <3>2, <3>3
  <2> HIDE DEF P
  <2> QED BY <1>1, <2>1, <2>2, UpTo
<1>13. F \in [0 .. n -> Nat]
  BY <1>12 DEF F
<1> QED BY <1>10, <1>11, <1>13 DEF n

-----------------------------------------------------------------------------
(* Lengths.                                                                 *)

\* The total of two lists of sizes.
LEMMA TotalOfBoth ==
    ASSUME NEW a \in Seq(Nat), NEW b \in Seq(Nat)
    PROVE  Total(a \o b) = Total(a) + Total(b) /\ Total(a) \in Nat /\ Total(b) \in Nat
<1> DEFINE m == Len(a)
           n == Len(b)
           c == a \o b
<1>1. /\ m \in Nat /\ n \in Nat /\ c \in Seq(Nat) /\ Len(c) = m + n
      /\ \A k \in 1 .. m : c[k] = a[k]
  OBVIOUS
<1>2. \A k \in 1 .. n : c[m + k] = b[k] /\ b[k] \in Nat
  OBVIOUS
<1> HIDE DEF c
<1>3. PICK A \in [0 .. m -> Nat] :
         /\ A[0] = 0
         /\ \A k \in 1 .. m : A[k] = Added(a, k, A[k - 1])
         /\ Total(a) = A[m]
  BY TotalIs
<1>4. PICK B \in [0 .. n -> Nat] :
         /\ B[0] = 0
         /\ \A k \in 1 .. n : B[k] = Added(b, k, B[k - 1])
         /\ Total(b) = B[n]
  BY TotalIs
<1>5. PICK C \in [0 .. Len(c) -> Nat] :
         /\ C[0] = 0
         /\ \A k \in 1 .. Len(c) : C[k] = Added(c, k, C[k - 1])
         /\ Total(c) = C[Len(c)]
  BY <1>1, TotalIs
<1> HIDE DEF m, n
<1> DEFINE P == {k \in 0 .. m : C[k] = A[k]}
           Q == {k \in 0 .. n : C[m + k] = A[m] + B[k]}
<1>6. 0 .. m \subseteq P
  <2>1. 0 \in P
    BY <1>1, <1>3, <1>5
  <2>2. ASSUME NEW k \in 1 .. m, k - 1 \in P
        PROVE  k \in P
    <3>1. k \in 0 .. m /\ k \in 1 .. m + n
      BY <1>1
    <3>2. C[k] = C[k - 1] + c[k] /\ A[k] = A[k - 1] + a[k]
      BY <1>1, <1>3, <1>5, <3>1 DEF Added
    <3>3. C[k - 1] = A[k - 1] /\ c[k] = a[k]
      BY <1>1, <2>2
    <3> QED BY <3>1, <3>2, <3>3
  <2> HIDE DEF P
  <2> QED BY <1>1, <2>1, <2>2, UpTo
<1>7. 0 .. n \subseteq Q
  <2>1. 0 \in Q
    <3>1. m \in P /\ 0 \in 0 .. n /\ m + 0 = m
      BY <1>1, <1>6
    <3>2. C[m] = A[m] /\ A[m] \in Nat
      BY <1>1, <1>3, <3>1
    <3>3. A[m] + B[0] = A[m]
      BY <1>4, <3>2
    <3> QED BY <3>1, <3>2, <3>3
  <2>2. ASSUME NEW k \in 1 .. n, k - 1 \in Q
        PROVE  k \in Q
    <3>1. k \in 0 .. n /\ k - 1 \in 0 .. n /\ m + k \in 1 .. m + n /\ (m + k) - 1 = m + (k - 1)
      BY <1>1
    <3>2. C[m + k] = C[m + (k - 1)] + b[k]
      <4>1. C[m + k] = C[(m + k) - 1] + c[m + k]
        BY <1>1, <1>5, <3>1 DEF Added
      <4> QED BY <1>2, <3>1, <4>1
    <3>3. B[k] = B[k - 1] + b[k]
      BY <1>4 DEF Added
    <3>4. C[m + (k - 1)] = A[m] + B[k - 1]
      BY <2>2
    <3>5. A[m] \in Nat /\ B[k - 1] \in Nat /\ b[k] \in Nat
      <4>1. m \in 0 .. m
        BY <1>1
      <4>2. A[m] \in Nat
        BY <1>3, <4>1
      <4>3. B[k - 1] \in Nat
        BY <1>4, <3>1
      <4> QED BY <1>2, <4>2, <4>3
    <3> QED BY <3>1, <3>2, <3>3, <3>4, <3>5
  <2> HIDE DEF Q
  <2> QED BY <1>1, <2>1, <2>2, UpTo
<1>8. C[m + n] = A[m] + B[n]
  <2>1. n \in Q
    BY <1>1, <1>7
  <2> QED BY <2>1
<1>9. Total(a) \in Nat /\ Total(b) \in Nat
  BY <1>1, <1>3, <1>4
<1> QED BY <1>1, <1>3, <1>4, <1>5, <1>8, <1>9 DEF c

LEMMA TotalOfOne ==
    ASSUME NEW x \in Nat
    PROVE  Total(<<x>>) = x
<1>1. <<x>> \in Seq(Nat) /\ Len(<<x>>) = 1
  OBVIOUS
<1>2. PICK F \in [0 .. 1 -> Nat] :
         /\ F[0] = 0
         /\ \A k \in 1 .. 1 : F[k] = Added(<<x>>, k, F[k - 1])
         /\ Total(<<x>>) = F[1]
  <2>1. \E F \in [0 .. Len(<<x>>) -> Nat] :
           /\ F[0] = 0
           /\ \A k \in 1 .. Len(<<x>>) : F[k] = Added(<<x>>, k, F[k - 1])
           /\ Total(<<x>>) = F[Len(<<x>>)]
    BY <1>1, TotalIs
  <2> QED BY <1>1, <2>1
<1>3. 1 \in 1 .. 1 /\ 1 - 1 = 0
  OBVIOUS
<1>4. F[1] = F[0] + <<x>>[1]
  BY <1>2, <1>3 DEF Added
<1> QED BY <1>2, <1>4

-----------------------------------------------------------------------------
(* The text.                                                                *)

SizeAt(s) == text[s[1]].lengths[s[2]]

\* What a text is made of.
LEMMA TextIs ==
    ASSUME ChunkingAssumption, text \in Texts
    PROVE  /\ Len(text) \in Nat \ {0} /\ Clause = 1 .. Len(text)
           /\ \A c \in Clause :
                 /\ Count(c) \in Nat \ {0}
                 /\ DOMAIN text[c].lengths = 1 .. Count(c)
                 /\ \A i \in 1 .. Count(c) : text[c].lengths[i] \in Nat \ {0}
                 /\ text[c].titled \in BOOLEAN /\ text[c].spaces \subseteq Nat
                 /\ c > 1 => text[c].titled
<1> DEFINE R == [titled : BOOLEAN, lengths : Seq(Nat \ {0}), ends : SUBSET Nat,
                 spaces : SUBSET Nat]
<1>1. text \in Seq(R) /\ text # <<>>
  BY DEF ChunkingAssumption
<1>2. Len(text) \in Nat \ {0} /\ DOMAIN text = 1 .. Len(text)
  BY <1>1
<1>3. ASSUME NEW c \in Clause
      PROVE  /\ Count(c) \in Nat \ {0}
             /\ DOMAIN text[c].lengths = 1 .. Count(c)
             /\ \A i \in 1 .. Count(c) : text[c].lengths[i] \in Nat \ {0}
             /\ text[c].titled \in BOOLEAN /\ text[c].spaces \subseteq Nat
             /\ c > 1 => text[c].titled
  <2>1. text[c] \in R
    <3>1. c \in 1 .. Len(text)
      BY <1>2, <1>3 DEF Clause
    <3>2. text \in Seq(R)
      BY <1>1
    <3> HIDE DEF R
    <3>3. text[c] \in R
      BY <3>1, <3>2
    <3> QED BY <3>3
  <2>2. text[c].lengths # <<>> /\ (c > 1 => text[c].titled)
    BY <1>3 DEF ChunkingAssumption, Clause
  <2>3. /\ text[c].lengths \in Seq(Nat \ {0}) /\ text[c].titled \in BOOLEAN
        /\ text[c].spaces \subseteq Nat
    BY <2>1
  <2>4. Len(text[c].lengths) \in Nat \ {0}
    BY <2>2, <2>3
  <2> QED BY <2>2, <2>3, <2>4 DEF Count
<1> QED BY <1>2, <1>3 DEF Clause

LEMMA SentenceIs ==
    ASSUME ChunkingAssumption, text \in Texts
    PROVE  /\ \A c \in Clause : \A i \in 1 .. Count(c) : <<c, i>> \in Sentence
           /\ \A s \in Sentence : /\ s = <<s[1], s[2]>> /\ s[1] \in Clause
                                  /\ s[2] \in 1 .. Count(s[1]) /\ SizeAt(s) \in Nat \ {0}
<1>1. \A c \in Clause : \A i \in 1 .. Count(c) : <<c, i>> \in Sentence
  BY TextIs DEF Sentence
<1>2. ASSUME NEW s \in Sentence
      PROVE  /\ s = <<s[1], s[2]>> /\ s[1] \in Clause
             /\ s[2] \in 1 .. Count(s[1]) /\ SizeAt(s) \in Nat \ {0}
  <2>1. PICK c \in Clause : s \in {<<c, i>> : i \in DOMAIN text[c].lengths}
    BY DEF Sentence
  <2>2. PICK i \in DOMAIN text[c].lengths : s = <<c, i>>
    BY <2>1
  <2>3. i \in 1 .. Count(c) /\ text[c].lengths[i] \in Nat \ {0}
    BY <2>2, TextIs
  <2> QED BY <2>2, <2>3 DEF SizeAt
<1> QED BY <1>1, <1>2

\* The lengths of sentences, of two lists of them and of one more.
LEMMA Lengths ==
    ASSUME ChunkingAssumption, text \in Texts, NEW a \in Seq(Sentence)
    PROVE  /\ LengthOf(a) \in Nat
           /\ \A b \in Seq(Sentence) : LengthOf(a \o b) = LengthOf(a) + LengthOf(b)
           /\ \A s \in Sentence : LengthOf(Append(a, s)) = LengthOf(a) + SizeAt(s)
<1> DEFINE sizes(q) == [i \in DOMAIN q |-> SizeAt(q[i])]
<1>1. \A q : LengthOf(q) = Total(sizes(q))
  BY DEF LengthOf, SizeAt
<1>2. ASSUME NEW q \in Seq(Sentence)
      PROVE  sizes(q) \in Seq(Nat) /\ Len(sizes(q)) = Len(q)
             /\ \A i \in 1 .. Len(q) : sizes(q)[i] = SizeAt(q[i])
  <2>1. DOMAIN q = 1 .. Len(q) /\ Len(q) \in Nat /\ \A i \in 1 .. Len(q) : q[i] \in Sentence
    OBVIOUS
  <2>2. \A i \in 1 .. Len(q) : SizeAt(q[i]) \in Nat
    BY <2>1, SentenceIs
  <2> QED BY <2>1, <2>2
<1>3. LengthOf(a) \in Nat
  <2> HIDE DEF sizes
  <2> QED BY <1>1, <1>2, TotalOfBoth
<1>4. ASSUME NEW b \in Seq(Sentence)
      PROVE  LengthOf(a \o b) = LengthOf(a) + LengthOf(b)
  <2> DEFINE c == a \o b
  <2>1. /\ c \in Seq(Sentence) /\ Len(c) = Len(a) + Len(b) /\ Len(a) \in Nat /\ Len(b) \in Nat
        /\ \A i \in 1 .. Len(a) + Len(b) :
              c[i] = IF i <= Len(a) THEN a[i] ELSE b[i - Len(a)]
    OBVIOUS
  <2> HIDE DEF c, sizes
  <2>2. sizes(a) \in Seq(Nat) /\ sizes(b) \in Seq(Nat) /\ sizes(c) \in Seq(Nat)
        /\ Len(sizes(a)) = Len(a) /\ Len(sizes(b)) = Len(b) /\ Len(sizes(c)) = Len(c)
    BY <1>2, <2>1
  <2> DEFINE x == sizes(a)
             y == sizes(b)
  <2> HIDE DEF x, y
  <2>7. /\ x \in Seq(Nat) /\ y \in Seq(Nat) /\ Len(x) = Len(a) /\ Len(y) = Len(b)
        /\ x = sizes(a) /\ y = sizes(b)
    BY <2>2 DEF x, y
  <2>8. /\ x \o y \in Seq(Nat) /\ Len(x \o y) = Len(x) + Len(y)
        /\ \A i \in 1 .. Len(x) + Len(y) :
              (x \o y)[i] = IF i <= Len(x) THEN x[i] ELSE y[i - Len(x)]
    <3>0. x \in Seq(Nat) /\ y \in Seq(Nat)
      BY <2>7
    <3>1. x \o y \in Seq(Nat) /\ Len(x \o y) = Len(x) + Len(y)
      BY ONLY <3>0, ConcatProperties
    <3>2. \A i \in 1 .. Len(x) + Len(y) :
             (x \o y)[i] = IF i <= Len(x) THEN x[i] ELSE y[i - Len(x)]
      BY <2>7
    <3> QED BY <3>1, <3>2
  <2>3. x \o y \in Seq(Nat) /\ Len(x \o y) = Len(c)
    BY <2>1, <2>7, <2>8
  <2>4. \A i \in 1 .. Len(c) : sizes(c)[i] = (x \o y)[i]
    <3> TAKE i \in 1 .. Len(c)
    <3>1. sizes(c)[i] = SizeAt(c[i])
      BY <1>2, <2>1
    <3>2. CASE i <= Len(a)
      <4>1. i \in 1 .. Len(a)
        BY <2>1, <3>2
      <4>2. c[i] = a[i] /\ sizes(a)[i] = SizeAt(a[i])
        BY <1>2, <2>1, <3>2, <4>1
      <4>3. (x \o y)[i] = x[i]
        BY <2>1, <2>7, <2>8, <3>2
      <4> QED BY <2>7, <3>1, <4>2, <4>3
    <3>3. CASE ~(i <= Len(a))
      <4>1. i - Len(a) \in 1 .. Len(b)
        BY <2>1, <3>3
      <4>2. c[i] = b[i - Len(a)] /\ sizes(b)[i - Len(a)] = SizeAt(b[i - Len(a)])
        BY <1>2, <2>1, <3>3, <4>1
      <4>3. (x \o y)[i] = y[i - Len(a)]
        BY <2>1, <2>7, <2>8, <3>3
      <4> QED BY <2>7, <3>1, <4>2, <4>3
    <3> QED BY <3>2, <3>3
  <2>5. sizes(c) = x \o y
    BY <2>1, <2>2, <2>3, <2>4, SeqEqual
  <2>6. Total(x \o y) = Total(x) + Total(y)
    BY <2>7, TotalOfBoth
  <2> QED BY <1>1, <2>5, <2>6, <2>7 DEF c
<1>5. ASSUME NEW s \in Sentence
      PROVE  LengthOf(Append(a, s)) = LengthOf(a) + SizeAt(s)
  <2>1. <<s>> \in Seq(Sentence) /\ Append(a, s) = a \o <<s>> /\ Len(<<s>>) = 1
    OBVIOUS
  <2>2. SizeAt(s) \in Nat
    BY SentenceIs
  <2>3. sizes(<<s>>) = <<SizeAt(s)>>
    OBVIOUS
  <2>4. LengthOf(<<s>>) = SizeAt(s)
    BY <1>1, <2>2, <2>3, TotalOfOne
  <2> QED BY <1>4, <2>1, <2>4
<1> QED BY <1>3, <1>4, <1>5

-----------------------------------------------------------------------------
(* Sentences of a clause that follow each other.                            *)

LEMMA RunIs ==
    ASSUME ChunkingAssumption, text \in Texts,
           NEW c \in Clause, NEW a \in Nat \ {0}, NEW b \in 0 .. Count(c), a <= b + 1
    PROVE  /\ Between(c, a, b) \in Seq(Sentence) /\ Len(Between(c, a, b)) = b + 1 - a
           /\ \A i \in 1 .. b + 1 - a : Between(c, a, b)[i] = <<c, a + i - 1>>
<1> DEFINE n == b + 1 - a
           s == [i \in 1 .. n |-> <<c, a + i - 1>>]
<1>1. Count(c) \in Nat
  BY TextIs
<1>2. n \in Nat /\ b - a + 1 = n /\ b \in Nat
  BY <1>1
<1>3. Between(c, a, b) = s
  BY <1>2 DEF Between
<1>4. \A i \in 1 .. n : <<c, a + i - 1>> \in Sentence
  <2> TAKE i \in 1 .. n
  <2>1. a + i - 1 \in 1 .. Count(c)
    BY <1>1, <1>2
  <2> QED BY <2>1, SentenceIs
<1>5. s \in Seq(Sentence) /\ Len(s) = n
  BY <1>2, <1>4
<1> QED BY <1>3, <1>5

LEMMA RunsJoin ==
    ASSUME ChunkingAssumption, text \in Texts, NEW c \in Clause, NEW a \in Nat \ {0},
           NEW b \in 0 .. Count(c), NEW d \in 0 .. Count(c), a <= b + 1, b <= d
    PROVE  Between(c, a, b) \o Between(c, b + 1, d) = Between(c, a, d)
<1> DEFINE x == Between(c, a, b)
           y == Between(c, b + 1, d)
           z == Between(c, a, d)
<1>1. Count(c) \in Nat /\ b \in Nat /\ d \in Nat /\ b + 1 \in Nat \ {0}
  <2>1. Count(c) \in Nat
    BY TextIs
  <2> QED BY <2>1
<1>2. /\ x \in Seq(Sentence) /\ Len(x) = b + 1 - a
      /\ \A i \in 1 .. b + 1 - a : x[i] = <<c, a + i - 1>>
  BY RunIs
<1>3. /\ y \in Seq(Sentence) /\ Len(y) = d - b
      /\ \A i \in 1 .. d - b : y[i] = <<c, b + i>>
  <2>1. d + 1 - (b + 1) = d - b /\ \A i \in 1 .. d - b : b + 1 + i - 1 = b + i
    BY <1>1
  <2>2. /\ y \in Seq(Sentence) /\ Len(y) = d + 1 - (b + 1)
        /\ \A i \in 1 .. d + 1 - (b + 1) : y[i] = <<c, b + 1 + i - 1>>
    <3>1. b + 1 \in Nat \ {0} /\ d \in 0 .. Count(c) /\ b + 1 <= d + 1
      BY <1>1
    <3> QED BY <3>1, RunIs
  <2> HIDE DEF y
  <2> QED BY <2>1, <2>2
<1>4. /\ z \in Seq(Sentence) /\ Len(z) = d + 1 - a
      /\ \A i \in 1 .. d + 1 - a : z[i] = <<c, a + i - 1>>
  <2>1. a <= d + 1
    BY <1>1
  <2> QED BY <2>1, RunIs
<1> HIDE DEF x, y, z
<1>5. /\ x \o y \in Seq(Sentence) /\ Len(x \o y) = Len(x) + Len(y)
      /\ \A i \in 1 .. Len(x) + Len(y) :
            (x \o y)[i] = IF i <= Len(x) THEN x[i] ELSE y[i - Len(x)]
  BY <1>2, <1>3, ConcatProperties
<1> DEFINE w == x \o y
<1>6. /\ w \in Seq(Sentence) /\ Len(w) = d + 1 - a
      /\ \A i \in 1 .. d + 1 - a : w[i] = IF i <= b + 1 - a THEN x[i] ELSE y[i - (b + 1 - a)]
  BY <1>1, <1>2, <1>3, <1>5
<1> HIDE DEF w
<1>7. \A i \in 1 .. d + 1 - a : w[i] = z[i]
  <2> TAKE i \in 1 .. d + 1 - a
  <2>1. z[i] = <<c, a + i - 1>>
    BY <1>4
  <2>2. CASE i <= b + 1 - a
    <3>1. i \in 1 .. b + 1 - a
      BY <1>1, <2>2
    <3> QED BY <1>2, <1>6, <2>1, <2>2, <3>1
  <2>3. CASE ~(i <= b + 1 - a)
    <3>1. i - (b + 1 - a) \in 1 .. d - b /\ b + (i - (b + 1 - a)) = a + i - 1
      BY <1>1, <2>3
    <3>2. w[i] = y[i - (b + 1 - a)]
      BY <1>6, <2>3
    <3> QED BY <1>3, <2>1, <3>1, <3>2
  <2> QED BY <2>2, <2>3
<1>8. w = z
  BY <1>4, <1>6, <1>7, SeqEqual
<1> QED BY <1>8 DEF w, x, y, z

LEMMA RunBegins ==
    ASSUME ChunkingAssumption, text \in Texts, NEW c \in Clause, NEW a \in Nat \ {0},
           NEW b \in 0 .. Count(c), a <= b + 1, NEW h \in 0 .. b + 1 - a
    PROVE  SubSeq(Between(c, a, b), 1, h) = Between(c, a, a + h - 1)
<1> DEFINE x == Between(c, a, b)
           z == Between(c, a, a + h - 1)
           w == SubSeq(x, 1, h)
<1>1. Count(c) \in Nat /\ b \in Nat /\ h \in Nat /\ h <= b + 1 - a
  <2>1. Count(c) \in Nat
    BY TextIs
  <2> QED BY <2>1
<1>2. /\ x \in Seq(Sentence) /\ Len(x) = b + 1 - a
      /\ \A i \in 1 .. b + 1 - a : x[i] = <<c, a + i - 1>>
  BY RunIs
<1>3. /\ z \in Seq(Sentence) /\ Len(z) = h
      /\ \A i \in 1 .. h : z[i] = <<c, a + i - 1>>
  <2>1. a + h - 1 \in 0 .. Count(c) /\ a <= (a + h - 1) + 1 /\ (a + h - 1) + 1 - a = h
    BY <1>1
  <2>2. /\ z \in Seq(Sentence) /\ Len(z) = (a + h - 1) + 1 - a
        /\ \A i \in 1 .. (a + h - 1) + 1 - a : z[i] = <<c, a + i - 1>>
    BY <2>1, RunIs
  <2> HIDE DEF z
  <2> QED BY <2>1, <2>2
<1> HIDE DEF x, z
<1>4. /\ w \in Seq(Sentence) /\ Len(w) = h
      /\ \A i \in 1 .. h : w[i] = x[i]
  <2>1. Len(x) \in Nat /\ h <= Len(x)
    BY <1>1, <1>2
  <2>2. \A i \in 1 .. h : i \in 1 .. Len(x) /\ x[i] \in Sentence
    BY <1>1, <1>2, <2>1
  <2>3. w \in Seq(Sentence) /\ Len(w) = h
    BY <1>1, <1>2, <2>1, SubSeqProperties
  <2>4. ASSUME NEW i \in 1 .. h
        PROVE  w[i] = x[i]
    <3>1. w[i] = x[1 + i - 1] /\ 1 + i - 1 = i
      BY <1>1, <1>2, <2>1, SubSeqProperties
    <3> QED BY <3>1
  <2> QED BY <2>3, <2>4
<1> HIDE DEF w
<1>5. \A i \in 1 .. h : w[i] = z[i]
  <2> TAKE i \in 1 .. h
  <2>1. i \in 1 .. b + 1 - a
    BY <1>1
  <2> QED BY <1>2, <1>3, <1>4, <2>1
<1>6. w = z
  BY <1>3, <1>4, <1>5, SeqEqual
<1> QED BY <1>6 DEF w, x, z

LEMMA RunGrows ==
    ASSUME ChunkingAssumption, text \in Texts, NEW c \in Clause, NEW a \in Nat \ {0},
           NEW b \in Nat, a <= b + 1, b < Count(c)
    PROVE  LengthOf(Between(c, a, b + 1)) = LengthOf(Between(c, a, b)) + SizeAt(<<c, b + 1>>)
<1> DEFINE x == Between(c, a, b)
           z == Between(c, a, b + 1)
           s == <<c, b + 1>>
<1>1. Count(c) \in Nat
  BY TextIs
<1>2. b \in 0 .. Count(c) /\ b + 1 \in 0 .. Count(c) /\ a <= (b + 1) + 1 /\ b + 1 \in 1 .. Count(c)
  BY <1>1
<1>3. /\ x \in Seq(Sentence) /\ Len(x) = b + 1 - a
      /\ \A i \in 1 .. b + 1 - a : x[i] = <<c, a + i - 1>>
  BY <1>2, RunIs
<1>4. /\ z \in Seq(Sentence) /\ Len(z) = (b + 1) + 1 - a
      /\ \A i \in 1 .. (b + 1) + 1 - a : z[i] = <<c, a + i - 1>>
  BY <1>2, RunIs
<1>5. s \in Sentence
  BY <1>2, SentenceIs
<1> HIDE DEF x, z, s
<1> DEFINE w == Append(x, s)
<1>6. /\ w \in Seq(Sentence) /\ Len(w) = Len(x) + 1
      /\ \A i \in 1 .. Len(x) : w[i] = x[i]
      /\ w[Len(x) + 1] = s
  BY <1>3, <1>5, AppendProperties
<1> HIDE DEF w
<1>7. \A i \in 1 .. Len(x) + 1 : w[i] = z[i]
  <2> TAKE i \in 1 .. Len(x) + 1
  <2>1. i \in 1 .. (b + 1) + 1 - a
    BY <1>3
  <2>2. CASE i <= Len(x)
    <3>1. i \in 1 .. b + 1 - a /\ i \in 1 .. Len(x)
      BY <1>3, <2>2
    <3> QED BY <1>3, <1>4, <1>6, <2>1, <3>1
  <2>3. CASE ~(i <= Len(x))
    <3>1. i = Len(x) + 1 /\ a + i - 1 = b + 1
      BY <1>3, <2>3
    <3> QED BY <1>4, <1>6, <2>1, <3>1 DEF s
  <2> QED BY <2>2, <2>3
<1>8. Len(w) = Len(z)
  BY <1>3, <1>4, <1>6
<1>9. w = z
  BY <1>4, <1>6, <1>7, <1>8, SeqEqual
<1>10. LengthOf(w) = LengthOf(x) + SizeAt(s)
  BY <1>3, <1>5, Lengths DEF w
<1> QED BY <1>9, <1>10 DEF x, z, s

-----------------------------------------------------------------------------
(* The loops as functions of the round.                                     *)

Rec == [sentences : Seq(Sentence), length : Nat, cut : BOOLEAN]

\* The sentences of a clause by their places.
Place(c) == 1 .. Count(c)
Places(c) == [b \in 1 .. Count(c) |-> b]

Splitting(c) == [start : 1 .. Count(c) + 1, pieces : Seq(Rec)]
Unsplit == [start |-> 1, pieces |-> <<>>]
SplitNext(c, breaks, upto, k, t) ==
    IF upto[k] \in breaks /\ Piece(Between(c, t.start, upto[k])).length > LeastSplit
    THEN [start |-> upto[k] + 1,
          pieces |-> Append(t.pieces, Piece(Between(c, t.start, upto[k])))]
    ELSE t
SplitEnd(c, t) ==
    IF t.start > Count(c) THEN t.pieces
    ELSE Append(t.pieces, Piece(Between(c, t.start, Count(c))))

Merging == [merged : Seq(Rec), current : Seq(Sentence)]
Unmerged == [merged |-> <<>>, current |-> <<>>]
MergeNext(pieces, k, t) ==
    IF LengthOf(t.current) + pieces[k].length < ChunkMax
    THEN [t EXCEPT !.current = @ \o pieces[k].sentences]
    ELSE [merged |-> IF t.current = <<>> THEN t.merged ELSE Append(t.merged, Piece(t.current)),
          current |-> pieces[k].sentences]
MergeEnd(t) == Append(t.merged, Piece(t.current))

Joined(row, ch) ==
    [sentences |-> row.sentences \o ch.sentences, length |-> row.length + ch.length,
     cut |-> row.cut \/ ch.cut, title |-> IF row.title = None THEN ch.title ELSE row.title]
JoinNext(all, k, done) ==
    IF done # <<>> /\ all[k].length < SmallTail
    THEN [done EXCEPT ![Len(done)] = Joined(done[Len(done)], all[k])]
    ELSE Append(done, all[k])

AllNext(clauses, k, s) == s \o SentencesOf(clauses[k])

\* A piece is a record of its sentences.
LEMMA PieceIs ==
    ASSUME ChunkingAssumption, text \in Texts, NEW s \in Seq(Sentence)
    PROVE  Piece(s) \in Rec /\ Piece(s).sentences = s /\ Piece(s).length = LengthOf(s)
<1>1. LengthOf(s) \in Nat
  BY Lengths
<1> QED BY <1>1 DEF Piece, Rec

LEMMA AnyRun ==
    ASSUME ChunkingAssumption, text \in Texts,
           NEW c \in Clause, NEW a \in Nat \ {0}, NEW b \in 0 .. Count(c)
    PROVE  Between(c, a, b) \in Seq(Sentence)
<1>1. Count(c) \in Nat /\ b \in Nat
  <2>1. Count(c) \in Nat
    BY TextIs
  <2> QED BY <2>1
<1>2. CASE a <= b + 1
  BY <1>2, RunIs
<1>3. CASE ~(a <= b + 1)
  <2>1. 1 .. b - a + 1 = {}
    BY <1>1, <1>3
  <2>2. Between(c, a, b) = <<>>
    BY <2>1 DEF Between
  <2>3. <<>> \in Seq(Sentence)
    OBVIOUS
  <2> QED BY <2>2, <2>3
<1> QED BY <1>2, <1>3

LEMMA UnsplitIs ==
    ASSUME ChunkingAssumption, text \in Texts, NEW c \in Clause
    PROVE  Unsplit \in Splitting(c)
<1>1. Count(c) \in Nat
  BY TextIs
<1>2. <<>> \in Seq(Rec) /\ 1 \in 1 .. Count(c) + 1
  BY <1>1
<1> QED BY <1>2 DEF Unsplit, Splitting

LEMMA ClosedSplit ==
    ASSUME ChunkingAssumption, text \in Texts, NEW c \in Clause, NEW breaks,
           NEW upto \in Seq(Place(c)), NEW k \in 1 .. Len(upto), NEW t \in Splitting(c)
    PROVE  SplitNext(c, breaks, upto, k, t) \in Splitting(c)
<1> DEFINE b == upto[k]
           p == Piece(Between(c, t.start, b))
           more == Append(t.pieces, p)
<1>1. Count(c) \in Nat
  BY TextIs
<1>2. b \in 1 .. Count(c)
  <2>1. upto[k] \in Place(c)
    OBVIOUS
  <2> QED BY <2>1 DEF Place
<1>3. t.start \in 1 .. Count(c) + 1 /\ t.pieces \in Seq(Rec)
  BY DEF Splitting
<1>4. p \in Rec
  <2>1. t.start \in Nat \ {0} /\ b \in 0 .. Count(c)
    BY <1>1, <1>2, <1>3
  <2>2. Between(c, t.start, b) \in Seq(Sentence)
    BY <2>1, AnyRun
  <2> QED BY <2>2, PieceIs
<1>5. more \in Seq(Rec)
  <2> HIDE DEF p
  <2> QED BY <1>3, <1>4, AppendProperties
<1>6. SplitNext(c, breaks, upto, k, t) = IF b \in breaks /\ p.length > LeastSplit
         THEN [start |-> b + 1, pieces |-> more] ELSE t
  BY DEF SplitNext
<1> HIDE DEF b, p, more
<1>7. [start |-> b + 1, pieces |-> more] \in Splitting(c)
  BY <1>1, <1>2, <1>5 DEF Splitting
<1> QED BY <1>6, <1>7

LEMMA ClosedMerge ==
    ASSUME ChunkingAssumption, text \in Texts, NEW pieces \in Seq(Rec),
           NEW k \in 1 .. Len(pieces), NEW t \in Merging
    PROVE  MergeNext(pieces, k, t) \in Merging
<1> DEFINE p == pieces[k]
<1>1. p \in Rec
  OBVIOUS
<1>2. p.sentences \in Seq(Sentence) /\ p.length \in Nat
  BY <1>1 DEF Rec
<1>3. /\ t.merged \in Seq(Rec) /\ t.current \in Seq(Sentence)
      /\ t = [merged |-> t.merged, current |-> t.current]
  BY DEF Merging
<1> HIDE DEF p
<1> DEFINE both == t.current \o p.sentences
           more == Append(t.merged, Piece(t.current))
<1>4. both \in Seq(Sentence)
  BY <1>2, <1>3, ConcatProperties
<1>5. more \in Seq(Rec)
  <2>1. Piece(t.current) \in Rec
    BY <1>3, PieceIs
  <2> QED BY <1>3, <2>1, AppendProperties
<1>6. MergeNext(pieces, k, t) =
         IF LengthOf(t.current) + p.length < ChunkMax THEN [merged |-> t.merged, current |-> both]
         ELSE [merged |-> IF t.current = <<>> THEN t.merged ELSE more, current |-> p.sentences]
  <2>1. \A x : [t EXCEPT !.current = x] = [merged |-> t.merged, current |-> x]
    BY <1>3
  <2>2. MergeNext(pieces, k, t) =
           IF LengthOf(t.current) + p.length < ChunkMax THEN [t EXCEPT !.current = both]
           ELSE [merged |-> IF t.current = <<>> THEN t.merged ELSE more, current |-> p.sentences]
    BY DEF MergeNext, p
  <2> QED BY <2>1, <2>2
<1> HIDE DEF both, more
<1>7. [merged |-> t.merged, current |-> both] \in Merging
  BY <1>3, <1>4 DEF Merging
<1>8. [merged |-> IF t.current = <<>> THEN t.merged ELSE more, current |-> p.sentences] \in Merging
  BY <1>2, <1>3, <1>5 DEF Merging
<1> QED BY <1>6, <1>7, <1>8

LEMMA JoinedIs ==
    ASSUME ChunkingAssumption, text \in Texts, NEW row \in Chunk, NEW ch \in Chunk
    PROVE  Joined(row, ch) \in Chunk
<1> DEFINE both == row.sentences \o ch.sentences
<1>1. /\ row.sentences \in Seq(Sentence) /\ ch.sentences \in Seq(Sentence)
      /\ row.length \in Nat /\ ch.length \in Nat /\ row.cut \in BOOLEAN /\ ch.cut \in BOOLEAN
      /\ row.title \in {None} \cup Clause /\ ch.title \in {None} \cup Clause
  BY DEF Chunk
<1>2. both \in Seq(Sentence)
  BY <1>1, ConcatProperties
<1> DEFINE title == IF row.title = None THEN ch.title ELSE row.title
           cut == row.cut \/ ch.cut
           size == row.length + ch.length
<1>3. title \in {None} \cup Clause /\ cut \in BOOLEAN /\ size \in Nat
  BY <1>1
<1>4. Joined(row, ch) = [sentences |-> both, length |-> size, cut |-> cut, title |-> title]
  BY DEF Joined
<1> HIDE DEF both, title, cut, size
<1> QED BY <1>2, <1>3, <1>4 DEF Chunk

LEMMA ClosedJoin ==
    ASSUME ChunkingAssumption, text \in Texts, NEW all \in Seq(Chunk),
           NEW k \in 1 .. Len(all), NEW done \in Seq(Chunk)
    PROVE  JoinNext(all, k, done) \in Seq(Chunk)
<1> DEFINE ch == all[k]
           e == Len(done)
           row == Joined(done[e], ch)
<1>1. ch \in Chunk
  OBVIOUS
<1>2. CASE done # <<>> /\ ch.length < SmallTail
  <2>1. e \in Nat \ {0} /\ e \in 1 .. Len(done)
    BY <1>2
  <2>2. done[e] \in Chunk
    BY <2>1
  <2>3. row \in Chunk
    BY <1>1, <2>2, JoinedIs
  <2> HIDE DEF row, e, ch
  <2>4. [done EXCEPT ![e] = row] \in Seq(Chunk)
    BY <2>1, <2>3, ExceptSeq
  <2>5. JoinNext(all, k, done) = [done EXCEPT ![e] = row]
    BY <1>2 DEF JoinNext, row, e, ch
  <2> QED BY <2>4, <2>5
<1>3. CASE ~(done # <<>> /\ ch.length < SmallTail)
  <2>1. JoinNext(all, k, done) = Append(done, ch)
    BY <1>3 DEF JoinNext
  <2> HIDE DEF ch
  <2> QED BY <1>1, <2>1, AppendProperties
<1> QED BY <1>2, <1>3

LEMMA ClosedAll ==
    ASSUME ChunkingAssumption, text \in Texts, NEW clauses \in Seq(Clause),
           NEW k \in 1 .. Len(clauses), NEW s \in Seq(Sentence)
    PROVE  AllNext(clauses, k, s) \in Seq(Sentence)
<1> DEFINE c == clauses[k]
<1>1. c \in Clause
  OBVIOUS
<1> HIDE DEF c
<1>2. Count(c) \in Nat \ {0}
  BY <1>1, TextIs
<1>3. SentencesOf(c) \in Seq(Sentence)
  <2>1. 1 \in Nat \ {0} /\ Count(c) \in 0 .. Count(c)
    BY <1>2
  <2> QED BY <1>1, <2>1, AnyRun DEF SentencesOf
<1> QED BY <1>3, ConcatProperties DEF AllNext, c

\* SplitAt takes one sentence after the other.
LEMMA SplitIs ==
    ASSUME NEW c \in Clause, NEW upto \in Seq(Place(c)),
           NEW breaks, upto = Places(c),
           ChunkingAssumption, text \in Texts
    PROVE  \E F \in [0 .. Len(upto) -> Splitting(c)] :
              /\ F[0] = Unsplit
              /\ \A k \in 1 .. Len(upto) : F[k] = SplitNext(c, breaks, upto, k, F[k - 1])
              /\ SplitAt(c, breaks) = SplitEnd(c, F[Len(upto)])
<1> DEFINE n == Len(upto)
           f == [p \in (1 .. n) \X Splitting(c) |-> SplitNext(c, breaks, upto, p[1], p[2])]
           it == CHOOSE it : it = [s \in SUBSET DOMAIN upto |->
                    IF s = {} THEN Unsplit ELSE SplitNext(c, breaks, upto, Max(s), it[s \ {Max(s)}])]
<1>1. n \in Nat /\ DOMAIN upto = 1 .. n
  OBVIOUS
<1>2. SplitAt(c, breaks) = SplitEnd(c, it[DOMAIN upto])
  BY DEF SplitAt, SplitEnd, Unsplit, Places, SplitNext, FoldLeft, MapThenFoldSet
<1>3. \A i \in 1 .. n, x \in Splitting(c) : SplitNext(c, breaks, upto, i, x) \in Splitting(c)
  BY ClosedSplit
<1>4. \A i \in 1 .. n, x \in Splitting(c) : f[<<i, x>>] = SplitNext(c, breaks, upto, i, x)
  OBVIOUS
<1> HIDE DEF n, f, it
<1>5. PICK g \in [SUBSET (1 .. n) -> Splitting(c)] : FoldsLeft(g, n, Unsplit, f)
  <2>1. Unsplit \in Splitting(c) /\ \A i \in 1 .. n, x \in Splitting(c) : f[<<i, x>>] \in Splitting(c)
    BY <1>3, <1>4, UnsplitIs
  <2>2. n \in Nat
    BY <1>1
  <2> QED BY <2>1, <2>2, FoldLeftExists
<1>6. \A s \in SUBSET (1 .. n) :
         g[s] = IF s = {} THEN Unsplit ELSE SplitNext(c, breaks, upto, Max(s), g[s \ {Max(s)}])
  <2> TAKE s \in SUBSET (1 .. n)
  <2>1. CASE s = {}
    BY <1>5, <2>1 DEF FoldsLeft
  <2>2. CASE s # {}
    <3>1. Max(s) \in 1 .. n
      BY <1>1, <2>2, Bounds
    <3>2. g[s \ {Max(s)}] \in Splitting(c)
      BY <1>5
    <3> QED BY <1>4, <1>5, <2>2, <3>1, <3>2 DEF FoldsLeft
  <2> QED BY <2>1, <2>2
<1>7. g = [s \in SUBSET DOMAIN upto |->
              IF s = {} THEN Unsplit ELSE SplitNext(c, breaks, upto, Max(s), g[s \ {Max(s)}])]
  BY <1>1, <1>5, <1>6
<1>8. it = [s \in SUBSET DOMAIN upto |->
               IF s = {} THEN Unsplit ELSE SplitNext(c, breaks, upto, Max(s), it[s \ {Max(s)}])]
  BY <1>7 DEF it
<1> DEFINE firsts(k) == 1 .. k
<1>9. it[{}] = Unsplit /\ \A k \in 1 .. n : it[firsts(k)] = SplitNext(c, breaks, upto, k, it[firsts(k - 1)])
  <2>1. it[{}] = Unsplit
    BY <1>8
  <2>2. ASSUME NEW k \in 1 .. n
        PROVE  it[firsts(k)] = SplitNext(c, breaks, upto, k, it[firsts(k - 1)])
    <3>1. k \in Nat \ {0}
      BY <1>1
    <3>2. Max(firsts(k)) = k /\ firsts(k) \ {k} = firsts(k - 1) /\ firsts(k) # {}
      BY <3>1, MaxOfFirst
    <3>3. firsts(k) \in SUBSET DOMAIN upto
      BY <1>1
    <3> HIDE DEF firsts
    <3> QED BY <1>8, <3>2, <3>3
  <2> QED BY <2>1, <2>2
<1>0. firsts(0) = {} /\ firsts(n) = DOMAIN upto
  BY <1>1
<1> DEFINE F == [k \in 0 .. n |-> it[firsts(k)]]
           P == {k \in 0 .. n : F[k] \in Splitting(c)}
<1>10. F[0] = Unsplit /\ \A k \in 1 .. n : F[k] = SplitNext(c, breaks, upto, k, F[k - 1])
  <2>1. 0 \in 0 .. n
    BY <1>1
  <2>2. \A k \in 1 .. n : k \in 0 .. n /\ k - 1 \in 0 .. n
    BY <1>1
  <2> HIDE DEF firsts
  <2> QED BY <1>9, <1>0, <2>1, <2>2
<1>11. SplitAt(c, breaks) = SplitEnd(c, F[n])
  <2>1. n \in 0 .. n
    BY <1>1
  <2> HIDE DEF firsts
  <2> QED BY <1>1, <1>2, <1>0, <2>1
<1> HIDE DEF F
<1>12. 0 .. n \subseteq P
  <2>1. 0 \in P
    <3>1. F[0] \in Splitting(c)
      BY <1>10, UnsplitIs
    <3>2. 0 \in 0 .. n
      BY <1>1
    <3> QED BY <3>1, <3>2
  <2>2. ASSUME NEW k \in 1 .. n, k - 1 \in P
        PROVE  k \in P
    <3>1. F[k - 1] \in Splitting(c) /\ k \in 0 .. n
      BY <1>1, <2>2
    <3>2. F[k] = SplitNext(c, breaks, upto, k, F[k - 1])
      BY <1>10
    <3>3. k \in 1 .. n
      BY <1>1
    <3> QED BY <1>3, <3>1, <3>2, <3>3
  <2> HIDE DEF P
  <2> QED BY <1>1, <2>1, <2>2, UpTo
<1>13. F \in [0 .. n -> Splitting(c)]
  BY <1>12 DEF F
<1> QED BY <1>10, <1>11, <1>13 DEF n

\* MergePieces takes one piece after the other.
LEMMA MergeIs ==
    ASSUME NEW pieces \in Seq(Rec),
           ChunkingAssumption, text \in Texts
    PROVE  \E F \in [0 .. Len(pieces) -> Merging] :
              /\ F[0] = Unmerged
              /\ \A k \in 1 .. Len(pieces) : F[k] = MergeNext(pieces, k, F[k - 1])
              /\ MergePieces(pieces) = MergeEnd(F[Len(pieces)])
<1> DEFINE n == Len(pieces)
           f == [p \in (1 .. n) \X Merging |-> MergeNext(pieces, p[1], p[2])]
           it == CHOOSE it : it = [s \in SUBSET DOMAIN pieces |->
                    IF s = {} THEN Unmerged ELSE MergeNext(pieces, Max(s), it[s \ {Max(s)}])]
<1>1. n \in Nat /\ DOMAIN pieces = 1 .. n
  OBVIOUS
<1>2. MergePieces(pieces) = MergeEnd(it[DOMAIN pieces])
  BY DEF MergePieces, MergeEnd, Unmerged, MergeNext, FoldLeft, MapThenFoldSet
<1>3. \A i \in 1 .. n, x \in Merging : MergeNext(pieces, i, x) \in Merging
  BY ClosedMerge
<1>4. \A i \in 1 .. n, x \in Merging : f[<<i, x>>] = MergeNext(pieces, i, x)
  OBVIOUS
<1> HIDE DEF n, f, it
<1>5. PICK g \in [SUBSET (1 .. n) -> Merging] : FoldsLeft(g, n, Unmerged, f)
  <2>1. Unmerged \in Merging /\ \A i \in 1 .. n, x \in Merging : f[<<i, x>>] \in Merging
    BY <1>3, <1>4 DEF Unmerged, Merging
  <2>2. n \in Nat
    BY <1>1
  <2> QED BY <2>1, <2>2, FoldLeftExists
<1>6. \A s \in SUBSET (1 .. n) :
         g[s] = IF s = {} THEN Unmerged ELSE MergeNext(pieces, Max(s), g[s \ {Max(s)}])
  <2> TAKE s \in SUBSET (1 .. n)
  <2>1. CASE s = {}
    BY <1>5, <2>1 DEF FoldsLeft
  <2>2. CASE s # {}
    <3>1. Max(s) \in 1 .. n
      BY <1>1, <2>2, Bounds
    <3>2. g[s \ {Max(s)}] \in Merging
      BY <1>5
    <3> QED BY <1>4, <1>5, <2>2, <3>1, <3>2 DEF FoldsLeft
  <2> QED BY <2>1, <2>2
<1>7. g = [s \in SUBSET DOMAIN pieces |->
              IF s = {} THEN Unmerged ELSE MergeNext(pieces, Max(s), g[s \ {Max(s)}])]
  BY <1>1, <1>5, <1>6
<1>8. it = [s \in SUBSET DOMAIN pieces |->
               IF s = {} THEN Unmerged ELSE MergeNext(pieces, Max(s), it[s \ {Max(s)}])]
  BY <1>7 DEF it
<1> DEFINE firsts(k) == 1 .. k
<1>9. it[{}] = Unmerged /\ \A k \in 1 .. n : it[firsts(k)] = MergeNext(pieces, k, it[firsts(k - 1)])
  <2>1. it[{}] = Unmerged
    BY <1>8
  <2>2. ASSUME NEW k \in 1 .. n
        PROVE  it[firsts(k)] = MergeNext(pieces, k, it[firsts(k - 1)])
    <3>1. k \in Nat \ {0}
      BY <1>1
    <3>2. Max(firsts(k)) = k /\ firsts(k) \ {k} = firsts(k - 1) /\ firsts(k) # {}
      BY <3>1, MaxOfFirst
    <3>3. firsts(k) \in SUBSET DOMAIN pieces
      BY <1>1
    <3> HIDE DEF firsts
    <3> QED BY <1>8, <3>2, <3>3
  <2> QED BY <2>1, <2>2
<1>0. firsts(0) = {} /\ firsts(n) = DOMAIN pieces
  BY <1>1
<1> DEFINE F == [k \in 0 .. n |-> it[firsts(k)]]
           P == {k \in 0 .. n : F[k] \in Merging}
<1>10. F[0] = Unmerged /\ \A k \in 1 .. n : F[k] = MergeNext(pieces, k, F[k - 1])
  <2>1. 0 \in 0 .. n
    BY <1>1
  <2>2. \A k \in 1 .. n : k \in 0 .. n /\ k - 1 \in 0 .. n
    BY <1>1
  <2> HIDE DEF firsts
  <2> QED BY <1>9, <1>0, <2>1, <2>2
<1>11. MergePieces(pieces) = MergeEnd(F[n])
  <2>1. n \in 0 .. n
    BY <1>1
  <2> HIDE DEF firsts
  <2> QED BY <1>1, <1>2, <1>0, <2>1
<1> HIDE DEF F
<1>12. 0 .. n \subseteq P
  <2>1. 0 \in P
    <3>1. F[0] \in Merging
      BY <1>10 DEF Unmerged, Merging
    <3>2. 0 \in 0 .. n
      BY <1>1
    <3> QED BY <3>1, <3>2
  <2>2. ASSUME NEW k \in 1 .. n, k - 1 \in P
        PROVE  k \in P
    <3>1. F[k - 1] \in Merging /\ k \in 0 .. n
      BY <1>1, <2>2
    <3>2. F[k] = MergeNext(pieces, k, F[k - 1])
      BY <1>10
    <3>3. k \in 1 .. n
      BY <1>1
    <3> QED BY <1>3, <3>1, <3>2, <3>3
  <2> HIDE DEF P
  <2> QED BY <1>1, <2>1, <2>2, UpTo
<1>13. F \in [0 .. n -> Merging]
  BY <1>12 DEF F
<1> QED BY <1>10, <1>11, <1>13 DEF n

\* MergeSmallTails takes one chunk after the other.
LEMMA JoinIs ==
    ASSUME NEW all \in Seq(Chunk),
           ChunkingAssumption, text \in Texts
    PROVE  \E F \in [0 .. Len(all) -> Seq(Chunk)] :
              /\ F[0] = <<>>
              /\ \A k \in 1 .. Len(all) : F[k] = JoinNext(all, k, F[k - 1])
              /\ MergeSmallTails(all) = F[Len(all)]
<1> DEFINE n == Len(all)
           f == [p \in (1 .. n) \X Seq(Chunk) |-> JoinNext(all, p[1], p[2])]
           it == CHOOSE it : it = [s \in SUBSET DOMAIN all |->
                    IF s = {} THEN <<>> ELSE JoinNext(all, Max(s), it[s \ {Max(s)}])]
<1>1. n \in Nat /\ DOMAIN all = 1 .. n
  OBVIOUS
<1>2. MergeSmallTails(all) = it[DOMAIN all]
  BY DEF MergeSmallTails, Joined, JoinNext, FoldLeft, MapThenFoldSet
<1>3. \A i \in 1 .. n, x \in Seq(Chunk) : JoinNext(all, i, x) \in Seq(Chunk)
  BY ClosedJoin
<1>4. \A i \in 1 .. n, x \in Seq(Chunk) : f[<<i, x>>] = JoinNext(all, i, x)
  OBVIOUS
<1> HIDE DEF n, f, it
<1>5. PICK g \in [SUBSET (1 .. n) -> Seq(Chunk)] : FoldsLeft(g, n, <<>>, f)
  <2>1. <<>> \in Seq(Chunk) /\ \A i \in 1 .. n, x \in Seq(Chunk) : f[<<i, x>>] \in Seq(Chunk)
    BY <1>3, <1>4
  <2>2. n \in Nat
    BY <1>1
  <2> QED BY <2>1, <2>2, FoldLeftExists
<1>6. \A s \in SUBSET (1 .. n) :
         g[s] = IF s = {} THEN <<>> ELSE JoinNext(all, Max(s), g[s \ {Max(s)}])
  <2> TAKE s \in SUBSET (1 .. n)
  <2>1. CASE s = {}
    BY <1>5, <2>1 DEF FoldsLeft
  <2>2. CASE s # {}
    <3>1. Max(s) \in 1 .. n
      BY <1>1, <2>2, Bounds
    <3>2. g[s \ {Max(s)}] \in Seq(Chunk)
      BY <1>5
    <3> QED BY <1>4, <1>5, <2>2, <3>1, <3>2 DEF FoldsLeft
  <2> QED BY <2>1, <2>2
<1>7. g = [s \in SUBSET DOMAIN all |->
              IF s = {} THEN <<>> ELSE JoinNext(all, Max(s), g[s \ {Max(s)}])]
  BY <1>1, <1>5, <1>6
<1>8. it = [s \in SUBSET DOMAIN all |->
               IF s = {} THEN <<>> ELSE JoinNext(all, Max(s), it[s \ {Max(s)}])]
  BY <1>7 DEF it
<1> DEFINE firsts(k) == 1 .. k
<1>9. it[{}] = <<>> /\ \A k \in 1 .. n : it[firsts(k)] = JoinNext(all, k, it[firsts(k - 1)])
  <2>1. it[{}] = <<>>
    BY <1>8
  <2>2. ASSUME NEW k \in 1 .. n
        PROVE  it[firsts(k)] = JoinNext(all, k, it[firsts(k - 1)])
    <3>1. k \in Nat \ {0}
      BY <1>1
    <3>2. Max(firsts(k)) = k /\ firsts(k) \ {k} = firsts(k - 1) /\ firsts(k) # {}
      BY <3>1, MaxOfFirst
    <3>3. firsts(k) \in SUBSET DOMAIN all
      BY <1>1
    <3> HIDE DEF firsts
    <3> QED BY <1>8, <3>2, <3>3
  <2> QED BY <2>1, <2>2
<1>0. firsts(0) = {} /\ firsts(n) = DOMAIN all
  BY <1>1
<1> DEFINE F == [k \in 0 .. n |-> it[firsts(k)]]
           P == {k \in 0 .. n : F[k] \in Seq(Chunk)}
<1>10. F[0] = <<>> /\ \A k \in 1 .. n : F[k] = JoinNext(all, k, F[k - 1])
  <2>1. 0 \in 0 .. n
    BY <1>1
  <2>2. \A k \in 1 .. n : k \in 0 .. n /\ k - 1 \in 0 .. n
    BY <1>1
  <2> HIDE DEF firsts
  <2> QED BY <1>9, <1>0, <2>1, <2>2
<1>11. MergeSmallTails(all) = F[n]
  <2>1. n \in 0 .. n
    BY <1>1
  <2> HIDE DEF firsts
  <2> QED BY <1>1, <1>2, <1>0, <2>1
<1> HIDE DEF F
<1>12. 0 .. n \subseteq P
  <2>1. 0 \in P
    <3>1. F[0] \in Seq(Chunk)
      BY <1>10
    <3>2. 0 \in 0 .. n
      BY <1>1
    <3> QED BY <3>1, <3>2
  <2>2. ASSUME NEW k \in 1 .. n, k - 1 \in P
        PROVE  k \in P
    <3>1. F[k - 1] \in Seq(Chunk) /\ k \in 0 .. n
      BY <1>1, <2>2
    <3>2. F[k] = JoinNext(all, k, F[k - 1])
      BY <1>10
    <3>3. k \in 1 .. n
      BY <1>1
    <3> QED BY <1>3, <3>1, <3>2, <3>3
  <2> HIDE DEF P
  <2> QED BY <1>1, <2>1, <2>2, UpTo
<1>13. F \in [0 .. n -> Seq(Chunk)]
  BY <1>12 DEF F
<1> QED BY <1>10, <1>11, <1>13 DEF n

\* AllSentences takes one clause after the other.
LEMMA AllIs ==
    ASSUME NEW clauses \in Seq(Clause),
           ChunkingAssumption, text \in Texts, clauses = [c \in Clause |-> c]
    PROVE  \E F \in [0 .. Len(clauses) -> Seq(Sentence)] :
              /\ F[0] = <<>>
              /\ \A k \in 1 .. Len(clauses) : F[k] = AllNext(clauses, k, F[k - 1])
              /\ AllSentences = F[Len(clauses)]
<1> DEFINE n == Len(clauses)
           f == [p \in (1 .. n) \X Seq(Sentence) |-> AllNext(clauses, p[1], p[2])]
           it == CHOOSE it : it = [s \in SUBSET DOMAIN clauses |->
                    IF s = {} THEN <<>> ELSE AllNext(clauses, Max(s), it[s \ {Max(s)}])]
<1>1. n \in Nat /\ DOMAIN clauses = 1 .. n
  OBVIOUS
<1>2. AllSentences = it[DOMAIN clauses]
  BY DEF AllSentences, AllNext, FoldLeft, MapThenFoldSet
<1>3. \A i \in 1 .. n, x \in Seq(Sentence) : AllNext(clauses, i, x) \in Seq(Sentence)
  BY ClosedAll
<1>4. \A i \in 1 .. n, x \in Seq(Sentence) : f[<<i, x>>] = AllNext(clauses, i, x)
  OBVIOUS
<1> HIDE DEF n, f, it
<1>5. PICK g \in [SUBSET (1 .. n) -> Seq(Sentence)] : FoldsLeft(g, n, <<>>, f)
  <2>1. <<>> \in Seq(Sentence) /\ \A i \in 1 .. n, x \in Seq(Sentence) : f[<<i, x>>] \in Seq(Sentence)
    BY <1>3, <1>4
  <2>2. n \in Nat
    BY <1>1
  <2> QED BY <2>1, <2>2, FoldLeftExists
<1>6. \A s \in SUBSET (1 .. n) :
         g[s] = IF s = {} THEN <<>> ELSE AllNext(clauses, Max(s), g[s \ {Max(s)}])
  <2> TAKE s \in SUBSET (1 .. n)
  <2>1. CASE s = {}
    BY <1>5, <2>1 DEF FoldsLeft
  <2>2. CASE s # {}
    <3>1. Max(s) \in 1 .. n
      BY <1>1, <2>2, Bounds
    <3>2. g[s \ {Max(s)}] \in Seq(Sentence)
      BY <1>5
    <3> QED BY <1>4, <1>5, <2>2, <3>1, <3>2 DEF FoldsLeft
  <2> QED BY <2>1, <2>2
<1>7. g = [s \in SUBSET DOMAIN clauses |->
              IF s = {} THEN <<>> ELSE AllNext(clauses, Max(s), g[s \ {Max(s)}])]
  BY <1>1, <1>5, <1>6
<1>8. it = [s \in SUBSET DOMAIN clauses |->
               IF s = {} THEN <<>> ELSE AllNext(clauses, Max(s), it[s \ {Max(s)}])]
  BY <1>7 DEF it
<1> DEFINE firsts(k) == 1 .. k
<1>9. it[{}] = <<>> /\ \A k \in 1 .. n : it[firsts(k)] = AllNext(clauses, k, it[firsts(k - 1)])
  <2>1. it[{}] = <<>>
    BY <1>8
  <2>2. ASSUME NEW k \in 1 .. n
        PROVE  it[firsts(k)] = AllNext(clauses, k, it[firsts(k - 1)])
    <3>1. k \in Nat \ {0}
      BY <1>1
    <3>2. Max(firsts(k)) = k /\ firsts(k) \ {k} = firsts(k - 1) /\ firsts(k) # {}
      BY <3>1, MaxOfFirst
    <3>3. firsts(k) \in SUBSET DOMAIN clauses
      BY <1>1
    <3> HIDE DEF firsts
    <3> QED BY <1>8, <3>2, <3>3
  <2> QED BY <2>1, <2>2
<1>0. firsts(0) = {} /\ firsts(n) = DOMAIN clauses
  BY <1>1
<1> DEFINE F == [k \in 0 .. n |-> it[firsts(k)]]
           P == {k \in 0 .. n : F[k] \in Seq(Sentence)}
<1>10. F[0] = <<>> /\ \A k \in 1 .. n : F[k] = AllNext(clauses, k, F[k - 1])
  <2>1. 0 \in 0 .. n
    BY <1>1
  <2>2. \A k \in 1 .. n : k \in 0 .. n /\ k - 1 \in 0 .. n
    BY <1>1
  <2> HIDE DEF firsts
  <2> QED BY <1>9, <1>0, <2>1, <2>2
<1>11. AllSentences = F[n]
  <2>1. n \in 0 .. n
    BY <1>1
  <2> HIDE DEF firsts
  <2> QED BY <1>1, <1>2, <1>0, <2>1
<1> HIDE DEF F
<1>12. 0 .. n \subseteq P
  <2>1. 0 \in P
    <3>1. F[0] \in Seq(Sentence)
      BY <1>10
    <3>2. 0 \in 0 .. n
      BY <1>1
    <3> QED BY <3>1, <3>2
  <2>2. ASSUME NEW k \in 1 .. n, k - 1 \in P
        PROVE  k \in P
    <3>1. F[k - 1] \in Seq(Sentence) /\ k \in 0 .. n
      BY <1>1, <2>2
    <3>2. F[k] = AllNext(clauses, k, F[k - 1])
      BY <1>10
    <3>3. k \in 1 .. n
      BY <1>1
    <3> QED BY <1>3, <3>1, <3>2, <3>3
  <2> HIDE DEF P
  <2> QED BY <1>1, <2>1, <2>2, UpTo
<1>13. F \in [0 .. n -> Seq(Sentence)]
  BY <1>12 DEF F
<1> QED BY <1>10, <1>11, <1>13 DEF n

-----------------------------------------------------------------------------
(* The pieces of a clause follow each other from its first to its last      *)
(* sentence.                                                                *)

Tiles(ps, c, e, cuts) ==
    /\ cuts \in [0 .. Len(ps) -> 0 .. Count(c)]
    /\ cuts[0] = 0 /\ cuts[Len(ps)] = e
    /\ \A j \in 1 .. Len(ps) :
          cuts[j - 1] < cuts[j] /\ ps[j] = Piece(Between(c, cuts[j - 1] + 1, cuts[j]))

LEMMA NoTiles ==
    ASSUME ChunkingAssumption, text \in Texts, NEW c \in Clause
    PROVE  \E cuts : Tiles(<<>>, c, 0, cuts)
<1> DEFINE cuts == [j \in 0 .. 0 |-> 0]
<1>1. Count(c) \in Nat
  BY TextIs
<1>2. cuts \in [0 .. 0 -> 0 .. Count(c)] /\ cuts[0] = 0
  BY <1>1
<1>3. Len(<<>>) = 0
  OBVIOUS
<1> HIDE DEF cuts
<1>4. Tiles(<<>>, c, 0, cuts)
  BY <1>2, <1>3 DEF Tiles
<1> QED BY <1>4

LEMMA TilesMore ==
    ASSUME ChunkingAssumption, text \in Texts, NEW c \in Clause, NEW ps \in Seq(Rec),
           NEW e \in Nat, NEW cuts, Tiles(ps, c, e, cuts), NEW d \in 1 .. Count(c), e < d
    PROVE  /\ Append(ps, Piece(Between(c, e + 1, d))) \in Seq(Rec)
           /\ \E more : Tiles(Append(ps, Piece(Between(c, e + 1, d))), c, d, more)
<1> DEFINE p == Piece(Between(c, e + 1, d))
           new == Append(ps, p)
           n == Len(ps)
           more == [j \in 0 .. n + 1 |-> IF j <= n THEN cuts[j] ELSE d]
<1>1. Count(c) \in Nat /\ n \in Nat
  BY TextIs
<1>2. p \in Rec
  <2>1. e + 1 \in Nat \ {0} /\ d \in 0 .. Count(c)
    BY <1>1
  <2> QED BY <2>1, AnyRun, PieceIs
<1>3. /\ cuts \in [0 .. n -> 0 .. Count(c)] /\ cuts[0] = 0 /\ cuts[n] = e
      /\ \A j \in 1 .. n :
            cuts[j - 1] < cuts[j] /\ ps[j] = Piece(Between(c, cuts[j - 1] + 1, cuts[j]))
  BY DEF Tiles
<1> HIDE DEF p
<1>4. /\ new \in Seq(Rec) /\ Len(new) = n + 1
      /\ \A i \in 1 .. n : new[i] = ps[i]
      /\ new[n + 1] = p
  BY <1>2, AppendProperties
<1> HIDE DEF new, n
<1>5. /\ more \in [0 .. n + 1 -> 0 .. Count(c)] /\ more[n + 1] = d
      /\ \A j \in 0 .. n : more[j] = cuts[j]
  <2>1. d \in 0 .. Count(c)
    BY <1>1
  <2>2. \A j \in 0 .. n + 1 : j <= n => cuts[j] \in 0 .. Count(c)
    BY <1>1, <1>3
  <2> QED BY <1>1, <2>1, <2>2
<1> HIDE DEF more
<1>6. ASSUME NEW j \in 1 .. n + 1
      PROVE  more[j - 1] < more[j] /\ new[j] = Piece(Between(c, more[j - 1] + 1, more[j]))
  <2>1. CASE j <= n
    <3>1. j \in 1 .. n /\ j \in 0 .. n /\ j - 1 \in 0 .. n
      BY <1>1, <2>1
    <3>2. more[j - 1] = cuts[j - 1] /\ more[j] = cuts[j] /\ new[j] = ps[j]
      BY <1>4, <1>5, <3>1
    <3>3. cuts[j - 1] < cuts[j] /\ ps[j] = Piece(Between(c, cuts[j - 1] + 1, cuts[j]))
      BY <1>3, <3>1
    <3> QED BY <3>2, <3>3
  <2>2. CASE ~(j <= n)
    <3>1. j = n + 1 /\ j - 1 = n /\ n \in 0 .. n
      BY <1>1, <2>2
    <3>2. more[j - 1] = e /\ more[j] = d /\ new[j] = p
      BY <1>3, <1>4, <1>5, <3>1
    <3> QED BY <3>2 DEF p
  <2> QED BY <2>1, <2>2
<1>7. more[0] = 0
  BY <1>1, <1>3, <1>5
<1>8. Tiles(new, c, d, more)
  BY <1>4, <1>5, <1>6, <1>7 DEF Tiles
<1> QED BY <1>4, <1>8 DEF new, p

LEMMA PlacesAre ==
    ASSUME ChunkingAssumption, text \in Texts, NEW c \in Clause
    PROVE  /\ Places(c) \in Seq(Place(c)) /\ Len(Places(c)) = Count(c)
           /\ \A k \in 1 .. Count(c) : Places(c)[k] = k
<1>1. Count(c) \in Nat
  BY TextIs
<1>2. \A k \in 1 .. Count(c) : k \in Place(c)
  BY DEF Place
<1> QED BY <1>1, <1>2 DEF Places

\* Splitting leaves nothing out.
LEMMA SplitTiles ==
    ASSUME ChunkingAssumption, text \in Texts, NEW c \in Clause, NEW breaks
    PROVE  /\ SplitAt(c, breaks) \in Seq(Rec) /\ Len(SplitAt(c, breaks)) >= 1
           /\ \E cuts : Tiles(SplitAt(c, breaks), c, Count(c), cuts)
<1> DEFINE n == Count(c)
           s == Places(c)
<1>1. n \in Nat \ {0}
  BY TextIs
<1>2. s \in Seq(Place(c)) /\ Len(s) = n /\ \A k \in 1 .. n : s[k] = k
  BY PlacesAre
<1>3. PICK F \in [0 .. n -> Splitting(c)] :
         /\ F[0] = Unsplit
         /\ \A k \in 1 .. n : F[k] = SplitNext(c, breaks, s, k, F[k - 1])
         /\ SplitAt(c, breaks) = SplitEnd(c, F[n])
  <2>1. \E F \in [0 .. Len(s) -> Splitting(c)] :
           /\ F[0] = Unsplit
           /\ \A k \in 1 .. Len(s) : F[k] = SplitNext(c, breaks, s, k, F[k - 1])
           /\ SplitAt(c, breaks) = SplitEnd(c, F[Len(s)])
    BY <1>2, SplitIs
  <2> QED BY <1>2, <2>1
<1> HIDE DEF n, s
<1> DEFINE Tiled(t) == \E cuts : Tiles(t.pieces, c, t.start - 1, cuts)
           P == {k \in 0 .. n : F[k].start <= k + 1 /\ Tiled(F[k])}
<1>4. 0 \in P
  <2>1. F[0].start = 1 /\ F[0].pieces = <<>> /\ 1 - 1 = 0 /\ 1 <= 0 + 1
    BY <1>3 DEF Unsplit
  <2>2. Tiled(F[0])
    BY <2>1, NoTiles
  <2>3. 0 \in 0 .. n
    BY <1>1
  <2> HIDE DEF Tiled
  <2> QED BY <2>1, <2>2, <2>3
<1>5. ASSUME NEW k \in 1 .. n, k - 1 \in P
      PROVE  k \in P
  <2> DEFINE t == F[k - 1]
             a == t.start
             p == Piece(Between(c, a, k))
             u == [start |-> k + 1, pieces |-> Append(t.pieces, p)]
  <2>1. t \in Splitting(c) /\ F[k] = SplitNext(c, breaks, s, k, t) /\ s[k] = k /\ k \in 0 .. n
    <3>1. k - 1 \in 0 .. n /\ k \in 0 .. n
      BY <1>1
    <3> QED BY <1>2, <1>3, <3>1
  <2>2. a <= k /\ Tiled(t)
    <3>1. k \in Nat
      BY <1>1
    <3> HIDE DEF Tiled
    <3>2. a <= (k - 1) + 1 /\ Tiled(t)
      BY <1>5
    <3> QED BY <3>1, <3>2
  <2>3. a \in 1 .. n + 1 /\ t.pieces \in Seq(Rec)
    BY <2>1 DEF Splitting, n
  <2>4. F[k] = u \/ F[k] = t
    BY <2>1 DEF SplitNext
  <2>5. CASE F[k] = t
    <3> HIDE DEF Tiled
    <3>1. k \in Nat /\ a <= k + 1
      BY <1>1, <2>2, <2>3
    <3> QED BY <2>1, <2>2, <2>5, <3>1
  <2>6. CASE F[k] = u
    <3>1. a - 1 \in Nat /\ a - 1 < k /\ k \in 1 .. Count(c) /\ (a - 1) + 1 = a
      BY <1>1, <2>2, <2>3 DEF n
    <3>2. \E more : Tiles(Append(t.pieces, Piece(Between(c, (a - 1) + 1, k))), c, k, more)
      <4>1. PICK cuts : Tiles(t.pieces, c, a - 1, cuts)
        BY <2>2
      <4> QED BY <2>3, <3>1, <4>1, TilesMore
    <3>3. u.start = k + 1 /\ u.pieces = Append(t.pieces, p) /\ (k + 1) - 1 = k /\ k + 1 <= k + 1
      BY <1>1
    <3>4. Tiled(u)
      BY <3>1, <3>2, <3>3
    <3> HIDE DEF Tiled, u
    <3> QED BY <2>1, <2>6, <3>3, <3>4
  <2> QED BY <2>4, <2>5, <2>6
<1>6. n \in P
  <2> HIDE DEF P
  <2>1. 0 .. n \subseteq P
    BY <1>1, <1>4, <1>5, UpTo
  <2> QED BY <1>1, <2>1
<1> DEFINE t == F[n]
           a == t.start
<1>7. t \in Splitting(c) /\ a <= n + 1 /\ Tiled(t) /\ a \in 1 .. n + 1 /\ t.pieces \in Seq(Rec)
  <2>1. t \in Splitting(c)
    BY <1>1, <1>3
  <2> QED BY <1>6, <2>1 DEF Splitting, n
<1>8. SplitAt(c, breaks) =
         IF a > n THEN t.pieces ELSE Append(t.pieces, Piece(Between(c, a, n)))
  BY <1>3 DEF SplitEnd, n
<1>9. PICK cuts : Tiles(t.pieces, c, a - 1, cuts)
  BY <1>7
<1> HIDE DEF Tiled, P, a, t
<1>10. CASE a > n
  <2>1. a - 1 = n /\ SplitAt(c, breaks) = t.pieces
    BY <1>1, <1>7, <1>8, <1>10
  <2>2. Len(t.pieces) # 0
    <3>1. n # 0
      BY <1>1
    <3> QED BY <1>9, <2>1, <3>1 DEF Tiles
  <2>3. Len(t.pieces) \in Nat
    BY <1>7
  <2> QED BY <1>7, <1>9, <2>1, <2>2, <2>3 DEF n
<1>11. CASE ~(a > n)
  <2>1. a - 1 \in Nat /\ a - 1 < n /\ n \in 1 .. Count(c) /\ (a - 1) + 1 = a
    BY <1>1, <1>7, <1>11 DEF n
  <2> DEFINE new == Append(t.pieces, Piece(Between(c, (a - 1) + 1, n)))
  <2>2. new \in Seq(Rec) /\ \E more : Tiles(new, c, n, more)
    BY <1>7, <1>9, <2>1, TilesMore
  <2>3. SplitAt(c, breaks) = new
    BY <1>8, <1>11, <2>1
  <2>4. Len(new) >= 1
    <3>1. Len(new) = Len(t.pieces) + 1 /\ Len(t.pieces) \in Nat
      BY <1>7
    <3> QED BY <3>1
  <2> HIDE DEF new
  <2> QED BY <2>2, <2>3, <2>4 DEF n
<1> QED BY <1>10, <1>11

\* Joining pieces leaves nothing out.
LEMMA MergeTiles ==
    ASSUME ChunkingAssumption, text \in Texts, NEW c \in Clause,
           NEW ps \in Seq(Rec), Len(ps) >= 1, NEW cuts, Tiles(ps, c, Count(c), cuts)
    PROVE  /\ MergePieces(ps) \in Seq(Rec) /\ Len(MergePieces(ps)) >= 1
           /\ \E more : Tiles(MergePieces(ps), c, Count(c), more)
<1> DEFINE n == Len(ps)
<1>1. n \in Nat \ {0} /\ Count(c) \in Nat
  BY TextIs
<1>2. /\ cuts \in [0 .. n -> 0 .. Count(c)] /\ cuts[0] = 0 /\ cuts[n] = Count(c)
      /\ \A j \in 1 .. n :
            cuts[j - 1] < cuts[j] /\ ps[j] = Piece(Between(c, cuts[j - 1] + 1, cuts[j]))
  BY DEF Tiles
<1>3. PICK F \in [0 .. n -> Merging] :
         /\ F[0] = Unmerged
         /\ \A k \in 1 .. n : F[k] = MergeNext(ps, k, F[k - 1])
         /\ MergePieces(ps) = MergeEnd(F[n])
  BY MergeIs
<1> HIDE DEF n
<1> DEFINE Joins(t, k) ==
              \E x \in 0 .. Count(c) : \E m :
                  /\ Tiles(t.merged, c, x, m) /\ t.current = Between(c, x + 1, cuts[k])
                  /\ x <= cuts[k] /\ (k > 0 => x < cuts[k])
           P == {k \in 0 .. n : Joins(F[k], k)}
<1>4. 0 \in P
  <2>1. 0 \in 0 .. Count(c) /\ 0 \in 0 .. n
    BY <1>1
  <2>2. F[0].merged = <<>> /\ F[0].current = <<>>
    BY <1>3 DEF Unmerged
  <2>3. PICK m : Tiles(<<>>, c, 0, m)
    BY NoTiles
  <2>4. Between(c, 0 + 1, cuts[0]) = <<>>
    <3>1. 1 .. 0 - 1 + 1 = {} /\ cuts[0] = 0 /\ 0 + 1 = 1
      BY <1>2
    <3>2. Between(c, 1, 0) = <<>>
      BY <3>1 DEF Between
    <3> QED BY <3>1, <3>2
  <2>5. 0 <= cuts[0] /\ (0 > 0 => 0 < cuts[0])
    BY <1>2
  <2>6. Joins(F[0], 0)
    BY <2>1, <2>2, <2>3, <2>4, <2>5
  <2> HIDE DEF Joins
  <2> QED BY <2>1, <2>6
<1>5. ASSUME NEW k \in 1 .. n, k - 1 \in P
      PROVE  k \in P
  <2> DEFINE t == F[k - 1]
             a == cuts[k - 1]
             b == cuts[k]
             p == ps[k]
  <2>1. t \in Merging /\ F[k] = MergeNext(ps, k, t) /\ k \in 0 .. n /\ k - 1 \in 0 .. n /\ k > 0
    <3>1. k - 1 \in 0 .. n /\ k \in 0 .. n /\ k > 0
      BY <1>1
    <3> QED BY <1>3, <3>1
  <2>2. a \in 0 .. Count(c) /\ b \in 0 .. Count(c) /\ a < b /\ a \in Nat /\ b \in Nat
    <3>1. a \in 0 .. Count(c) /\ b \in 0 .. Count(c)
      BY <1>2, <2>1
    <3> QED BY <1>1, <1>2, <3>1
  <2>3. p.sentences = Between(c, a + 1, b)
    <3>1. p = Piece(Between(c, a + 1, b))
      BY <1>2
    <3> HIDE DEF p
    <3>2. a + 1 \in Nat \ {0} /\ b \in 0 .. Count(c)
      BY <2>2
    <3> HIDE DEF a, b
    <3> QED BY <3>1, <3>2, AnyRun, PieceIs
  <2>0. PICK x \in 0 .. Count(c) : \E m :
           /\ Tiles(t.merged, c, x, m) /\ t.current = Between(c, x + 1, a)
           /\ x <= a /\ (k - 1 > 0 => x < a)
    BY <1>5
  <2>4. PICK m : /\ Tiles(t.merged, c, x, m) /\ t.current = Between(c, x + 1, a)
                 /\ x <= a /\ (k - 1 > 0 => x < a)
    BY <2>0
  <2>5. /\ t.merged \in Seq(Rec) /\ t.current \in Seq(Sentence)
        /\ t = [merged |-> t.merged, current |-> t.current]
    BY <2>1 DEF Merging
  <2> DEFINE both == t.current \o p.sentences
             longer == [t EXCEPT !.current = @ \o p.sentences]
             merged == IF t.current = <<>> THEN t.merged ELSE Append(t.merged, Piece(t.current))
             other == [merged |-> merged, current |-> p.sentences]
  <2>6. F[k] = longer \/ F[k] = other
    BY <2>1 DEF MergeNext
  <2>7. longer.merged = t.merged /\ longer.current = both
    BY <2>5
  <2>8. other.merged = merged /\ other.current = p.sentences
    OBVIOUS
  <2>9. x \in Nat /\ x + 1 \in Nat \ {0}
    BY <1>1
  <2> HIDE DEF t, a, b, p, longer, other, merged, both
  <2>10. CASE F[k] = longer
    <3>1. both = Between(c, x + 1, b)
      <4>1. x + 1 <= a + 1 /\ a <= b
        BY <2>2, <2>4, <2>9
      <4> QED BY <2>2, <2>3, <2>4, <2>9, <4>1, RunsJoin DEF both
    <3>2. x < b
      BY <2>2, <2>4, <2>9
    <3>3. Joins(F[k], k)
      <4>1. Tiles(F[k].merged, c, x, m) /\ F[k].current = Between(c, x + 1, cuts[k])
        BY <2>4, <2>7, <2>10, <3>1 DEF b
      <4>2. x <= cuts[k] /\ x < cuts[k]
        BY <2>2, <2>9, <3>2 DEF b
      <4> QED BY <4>1, <4>2
    <3> HIDE DEF Joins
    <3> QED BY <2>1, <3>3
  <2>11. CASE F[k] = other
    <3>1. CASE x = a
      <4>1. 1 .. a - (x + 1) + 1 = {}
        BY <2>2, <2>9, <3>1
      <4>2. t.current = <<>>
        BY <2>4, <4>1 DEF Between
      <4>3. merged = t.merged
        BY <4>2 DEF merged
      <4>4. Joins(F[k], k)
        BY <2>2, <2>3, <2>4, <2>8, <2>11, <3>1, <4>3 DEF b
      <4> HIDE DEF Joins
      <4> QED BY <2>1, <4>4
    <3>2. CASE x # a
      <4>1. x < a /\ a \in 1 .. Count(c) /\ x + 1 <= a + 1
        BY <1>1, <2>2, <2>4, <2>9, <3>2
      <4>2. t.current # <<>>
        <5>1. Len(t.current) = a + 1 - (x + 1)
          BY <2>2, <2>4, <2>9, <4>1, RunIs
        <5>2. Len(t.current) # 0
          BY <2>2, <2>9, <4>1, <5>1
        <5> QED BY <5>2
      <4>3. merged = Append(t.merged, Piece(Between(c, x + 1, a)))
        BY <2>4, <4>2 DEF merged
      <4>4. PICK more : Tiles(merged, c, a, more)
        BY <2>4, <2>5, <2>9, <4>1, <4>3, TilesMore
      <4>5. Joins(F[k], k)
        <5>1. a <= b /\ a < b
          BY <2>2
        <5> QED BY <2>2, <2>3, <2>8, <2>11, <4>4, <5>1 DEF b
      <4> HIDE DEF Joins
      <4> QED BY <2>1, <4>5
    <3> QED BY <3>1, <3>2
  <2> QED BY <2>6, <2>10, <2>11
<1>6. n \in P
  <2> HIDE DEF P
  <2>1. 0 .. n \subseteq P
    BY <1>1, <1>4, <1>5, UpTo
  <2> QED BY <1>1, <2>1
<1> DEFINE t == F[n]
<1>7. t.merged \in Seq(Rec)
  BY <1>1, <1>3 DEF Merging
<1>0. PICK x \in 0 .. Count(c) : \E m :
         /\ Tiles(t.merged, c, x, m) /\ t.current = Between(c, x + 1, cuts[n])
         /\ x <= cuts[n] /\ (n > 0 => x < cuts[n])
  BY <1>6
<1>8. PICK m : /\ Tiles(t.merged, c, x, m) /\ t.current = Between(c, x + 1, cuts[n])
               /\ x <= cuts[n] /\ (n > 0 => x < cuts[n])
  BY <1>0
<1>9. x \in Nat /\ x < Count(c) /\ Count(c) \in 1 .. Count(c)
  BY <1>1, <1>2, <1>8
<1> DEFINE new == Append(t.merged, Piece(Between(c, x + 1, Count(c))))
<1> HIDE DEF P, t
<1>10. new \in Seq(Rec) /\ \E more : Tiles(new, c, Count(c), more)
  BY <1>7, <1>8, <1>9, TilesMore
<1>11. MergePieces(ps) = new
  BY <1>2, <1>3, <1>8 DEF MergeEnd, t
<1>12. Len(new) >= 1
  <2>1. Len(new) = Len(t.merged) + 1 /\ Len(t.merged) \in Nat
    BY <1>7
  <2> QED BY <2>1
<1> HIDE DEF new
<1> QED BY <1>10, <1>11, <1>12

-----------------------------------------------------------------------------
(* A piece that is too long loses its end.                                  *)

\* What comes after e, up to b, was cut off.
Over(c, a, e, b) ==
    /\ 2 * LengthOf(Between(c, a, e)) > ChunkMax
    /\ \A i \in e + 1 .. b : \E to \in i .. b :
          /\ LengthOf(Between(c, a, e)) + LengthOf(Between(c, e + 1, to)) > ChunkMax
          /\ i \in text[c].ends => to = i

\* It has the sentences from a on, up to b or to where it was cut off.
KeptTo(p, c, a, b) ==
    \E e \in a .. b : p.sentences = Between(c, a, e) /\ (e < b => Over(c, a, e, b))

\* The sentences of a run that begin it.
LEMMA RunStarts ==
    ASSUME ChunkingAssumption, text \in Texts, NEW c \in Clause, NEW a \in Nat \ {0},
           NEW b \in 1 .. Count(c), a <= b, NEW i \in 1 .. b + 1 - a
    PROVE  /\ a + i - 1 \in a .. b
           /\ SubSeq(Between(c, a, b), 1, i) = Between(c, a, a + i - 1)
           /\ Between(c, a, a + i - 1) \in Seq(Sentence)
           /\ LengthOf(Between(c, a, a + i - 1)) \in Nat
<1>1. Count(c) \in Nat /\ b \in 0 .. Count(c) /\ a <= b + 1
  BY TextIs
<1>2. i \in 0 .. b + 1 - a /\ a + i - 1 \in a .. b /\ a + i - 1 \in 0 .. Count(c)
  BY <1>1
<1>3. SubSeq(Between(c, a, b), 1, i) = Between(c, a, a + i - 1)
  BY <1>1, <1>2, RunBegins
<1>4. Between(c, a, a + i - 1) \in Seq(Sentence)
  BY <1>2, AnyRun
<1>5. LengthOf(Between(c, a, a + i - 1)) \in Nat
  BY <1>4, Lengths
<1> QED BY <1>2, <1>3, <1>4, <1>5

\* Where a run is cut, with the part of it after that.
LEMMA RunCut ==
    ASSUME ChunkingAssumption, text \in Texts, NEW c \in Clause, NEW a \in Nat \ {0},
           NEW e \in Nat, NEW d \in 1 .. Count(c), a <= e, e < d
    PROVE  /\ LengthOf(Between(c, a, e)) \in Nat /\ LengthOf(Between(c, e + 1, d)) \in Nat \ {0}
           /\ LengthOf(Between(c, a, d)) =
                 LengthOf(Between(c, a, e)) + LengthOf(Between(c, e + 1, d))
<1>1. /\ Count(c) \in Nat /\ d \in Nat /\ d \in 0 .. Count(c) /\ e \in 0 .. Count(c)
      /\ d - 1 \in Nat /\ d - 1 \in 0 .. Count(c) /\ (d - 1) + 1 = d
      /\ e + 1 \in Nat \ {0} /\ e + 1 <= (d - 1) + 1 /\ d - 1 < Count(c)
      /\ a <= e + 1 /\ e <= d
  <2>1. Count(c) \in Nat
    BY TextIs
  <2> QED BY <2>1
<1>2. /\ Between(c, a, e) \in Seq(Sentence) /\ Between(c, e + 1, d) \in Seq(Sentence)
      /\ Between(c, e + 1, d - 1) \in Seq(Sentence)
  BY <1>1, AnyRun
<1>3. /\ LengthOf(Between(c, a, e)) \in Nat /\ LengthOf(Between(c, e + 1, d - 1)) \in Nat
      /\ LengthOf(Between(c, a, e) \o Between(c, e + 1, d)) =
            LengthOf(Between(c, a, e)) + LengthOf(Between(c, e + 1, d))
  BY <1>2, Lengths
<1>4. Between(c, a, e) \o Between(c, e + 1, d) = Between(c, a, d)
  BY <1>1, RunsJoin
<1>5. LengthOf(Between(c, e + 1, d)) = LengthOf(Between(c, e + 1, d - 1)) + SizeAt(<<c, d>>)
  <2>1. LengthOf(Between(c, e + 1, (d - 1) + 1)) =
           LengthOf(Between(c, e + 1, d - 1)) + SizeAt(<<c, (d - 1) + 1>>)
    BY <1>1, RunGrows
  <2> QED BY <1>1, <2>1
<1>6. SizeAt(<<c, d>>) \in Nat \ {0}
  <2>1. <<c, d>> \in Sentence
    BY SentenceIs
  <2> QED BY <2>1, SentenceIs
<1>7. LengthOf(Between(c, e + 1, d)) \in Nat \ {0}
  BY <1>3, <1>5, <1>6
<1> QED BY <1>3, <1>4, <1>7

\* The break is beyond the half, and an end after it that could be found is too far.
LEMMA BreakIs ==
    ASSUME ChunkingAssumption, text \in Texts, NEW c \in Clause, NEW a \in Nat \ {0},
           NEW b \in 1 .. Count(c), a <= b
    PROVE  /\ LastBreak(Piece(Between(c, a, b))) \in 1 .. ChunkMax
           /\ 2 * LastBreak(Piece(Between(c, a, b))) > ChunkMax
           /\ \A i \in a .. b :
                 i \in text[c].ends /\ LengthOf(Between(c, a, i)) > LastBreak(Piece(Between(c, a, b)))
                    => LengthOf(Between(c, a, i)) > ChunkMax
<1> DEFINE s == Between(c, a, b)
           n == b + 1 - a
           Cut(i) == LengthOf(SubSeq(s, 1, i))
           start == LengthOf(Between(c, 1, a - 1))
           cuts == {Cut(i) : i \in {j \in DOMAIN s : s[j][2] \in text[c].ends}}
           ends == {length \in cuts : length <= ChunkMax /\ 2 * (length - 1) > ChunkMax}
           gaps == {space - start : space \in text[c].spaces}
           spaces == {length \in gaps : length < ChunkMax /\ 10 * length > 7 * ChunkMax}
           P == LastBreak(Piece(s))
<1>1. /\ Count(c) \in Nat /\ b \in Nat /\ b \in 0 .. Count(c) /\ a <= b + 1 /\ n \in Nat \ {0}
      /\ ChunkMax \in Nat \ {0} /\ a - 1 \in 0 .. Count(c)
  <2>1. Count(c) \in Nat
    BY TextIs
  <2> QED BY <2>1 DEF ChunkingAssumption
<1>2. s \in Seq(Sentence) /\ DOMAIN s = 1 .. n /\ \A i \in 1 .. n : s[i] = <<c, a + i - 1>>
  <2>1. s \in Seq(Sentence) /\ Len(s) = n /\ \A i \in 1 .. n : s[i] = <<c, a + i - 1>>
    BY <1>1, RunIs
  <2> HIDE DEF s, n
  <2> QED BY <2>1
<1>3. s[1][1] = c /\ s[1][2] - 1 = a - 1
  <2>1. 1 \in 1 .. n /\ a + 1 - 1 = a
    BY <1>1
  <2>2. s[1] = <<c, a>>
    BY <1>2, <2>1
  <2> HIDE DEF s
  <2> QED BY <2>2
<1>4. Piece(s).sentences = s
  BY <1>2, PieceIs
<1>5. P = IF ends # {} THEN Max(ends) ELSE IF spaces # {} THEN Max(spaces) ELSE ChunkMax
  <2> HIDE DEF s
  <2> QED BY <1>3, <1>4 DEF LastBreak
<1>6. \A i \in 1 .. n : /\ a + i - 1 \in a .. b /\ Cut(i) = LengthOf(Between(c, a, a + i - 1))
                        /\ Cut(i) \in Nat
  BY RunStarts
<1>7. start \in Nat /\ text[c].spaces \subseteq Nat
  <2>1. Between(c, 1, a - 1) \in Seq(Sentence)
    BY <1>1, AnyRun
  <2>2. start \in Nat
    BY <2>1, Lengths
  <2> QED BY <2>2, TextIs
<1> HIDE DEF s, n, Cut, start
<1>8. \A length \in cuts : length \in Nat
  BY <1>2, <1>6
<1>9. \A length \in gaps : length \in Int
  BY <1>7
<1> HIDE DEF cuts, gaps
<1>10. ends \in SUBSET (1 .. ChunkMax)
  BY <1>1, <1>8
<1>11. spaces \in SUBSET (1 .. ChunkMax)
  BY <1>1, <1>9
<1>12. /\ ends # {} => Max(ends) \in ends /\ \A y \in ends : Max(ends) >= y
       /\ spaces # {} => Max(spaces) \in spaces
  <2> HIDE DEF ends, spaces
  <2> QED BY <1>1, <1>10, <1>11, Bounds
<1>13. P \in 1 .. ChunkMax /\ 2 * P > ChunkMax
  <2>1. CASE ends # {}
    <3>1. P \in ends
      BY <1>5, <1>12, <2>1
    <3> HIDE DEF P
    <3> QED BY <1>1, <1>8, <1>10, <3>1
  <2>2. CASE ends = {} /\ spaces # {}
    <3>1. P \in spaces
      BY <1>5, <1>12, <2>2
    <3> HIDE DEF P
    <3> QED BY <1>1, <1>9, <1>11, <3>1
  <2>3. CASE ends = {} /\ spaces = {}
    <3>1. P = ChunkMax
      BY <1>5, <2>3
    <3> HIDE DEF P
    <3> QED BY <1>1, <3>1
  <2> QED BY <2>1, <2>2, <2>3
<1>14. ASSUME NEW i \in a .. b, i \in text[c].ends, LengthOf(Between(c, a, i)) > P,
              ~(LengthOf(Between(c, a, i)) > ChunkMax)
       PROVE  FALSE
  <2> DEFINE h == i + 1 - a
             L == LengthOf(Between(c, a, i))
  <2>1. h \in 1 .. n /\ a + h - 1 = i
    BY <1>1 DEF n
  <2> HIDE DEF h
  <2>2. Cut(h) = L /\ L \in Nat
    BY <1>6, <2>1
  <2>3. s[h][2] = i /\ h \in DOMAIN s
    BY <1>2, <2>1
  <2>4. L \in cuts
    BY <1>14, <2>2, <2>3 DEF cuts
  <2> HIDE DEF L, P
  <2>5. L > P /\ ~(L > ChunkMax)
    BY <1>14 DEF L
  <2>6. L <= ChunkMax /\ 2 * (L - 1) > ChunkMax
    BY <1>1, <1>13, <2>2, <2>5
  <2>7. L \in ends
    BY <2>4, <2>6
  <2> HIDE DEF ends
  <2>8. P = Max(ends) /\ Max(ends) >= L
    BY <1>5, <1>12, <2>7
  <2> QED BY <1>1, <1>13, <2>2, <2>5, <2>8
<1> QED BY <1>13, <1>14 DEF P, s

LEMMA TruncateIs ==
    ASSUME ChunkingAssumption, text \in Texts, NEW c \in Clause, NEW a \in Nat \ {0},
           NEW b \in 1 .. Count(c), a <= b
    PROVE  /\ SmartTruncate(Piece(Between(c, a, b))) \in Rec
           /\ KeptTo(SmartTruncate(Piece(Between(c, a, b))), c, a, b)
<1> DEFINE s == Between(c, a, b)
           p == Piece(s)
           n == b + 1 - a
           P == LastBreak(p)
           Cut(i) == LengthOf(SubSeq(s, 1, i))
           stops == {i \in DOMAIN s : Cut(i) >= P}
           h == Min(stops)
           short == [sentences |-> SubSeq(s, 1, h), length |-> P, cut |-> Cut(h) > P]
<1>1. /\ Count(c) \in Nat /\ b \in Nat /\ b \in 0 .. Count(c) /\ a <= b + 1 /\ n \in Nat \ {0}
      /\ ChunkMax \in Nat \ {0} /\ n \in 1 .. n /\ a + n - 1 = b /\ b \in a .. b
  <2>1. Count(c) \in Nat
    BY TextIs
  <2> QED BY <2>1 DEF ChunkingAssumption
<1>2. s \in Seq(Sentence) /\ DOMAIN s = 1 .. n
  <2>1. s \in Seq(Sentence) /\ Len(s) = n
    BY <1>1, RunIs
  <2> HIDE DEF s
  <2> QED BY <2>1
<1>3. p \in Rec /\ p.sentences = s /\ p.length = LengthOf(s) /\ p.length \in Nat
  <2>1. p \in Rec /\ p.sentences = s /\ p.length = LengthOf(s)
    BY <1>2, PieceIs
  <2> HIDE DEF p
  <2> QED BY <2>1 DEF Rec
<1>4. SmartTruncate(p) = IF p.length <= ChunkMax THEN p ELSE short
  BY <1>3 DEF SmartTruncate
<1>5. \A i \in 1 .. n : /\ a + i - 1 \in a .. b /\ SubSeq(s, 1, i) = Between(c, a, a + i - 1)
                        /\ Between(c, a, a + i - 1) \in Seq(Sentence)
                        /\ Cut(i) = LengthOf(Between(c, a, a + i - 1)) /\ Cut(i) \in Nat
  BY RunStarts
<1>6. Cut(n) = LengthOf(s)
  BY <1>1, <1>5
<1>7. /\ P \in 1 .. ChunkMax /\ 2 * P > ChunkMax
      /\ \A i \in a .. b : i \in text[c].ends /\ LengthOf(Between(c, a, i)) > P
            => LengthOf(Between(c, a, i)) > ChunkMax
  BY BreakIs
<1> HIDE DEF p, n, P, Cut, short
<1>8. CASE p.length <= ChunkMax
  <2>1. SmartTruncate(p) = p /\ p.sentences = Between(c, a, b)
    BY <1>3, <1>4, <1>8 DEF s
  <2>2. KeptTo(SmartTruncate(p), c, a, b)
    BY <1>1, <2>1 DEF KeptTo
  <2> QED BY <1>3, <2>1, <2>2 DEF p, s
<1>9. CASE p.length > ChunkMax
  <2>1. Cut(n) \in Nat /\ Cut(n) > ChunkMax
    BY <1>1, <1>3, <1>5, <1>6, <1>9
  <2>2. stops \in SUBSET (1 .. n) /\ n \in stops
    BY <1>1, <1>2, <1>7, <2>1
  <2>3. h \in stops
    <3> HIDE DEF stops
    <3> QED BY <1>1, <2>2, Bounds
  <2>4. h \in 1 .. n /\ Cut(h) >= P
    BY <1>2, <2>3
  <2> HIDE DEF h, stops, s
  <2> DEFINE e == a + h - 1
             L == LengthOf(Between(c, a, e))
  <2>5. /\ e \in a .. b /\ Between(c, a, e) \in Seq(Sentence)
        /\ SubSeq(s, 1, h) = Between(c, a, e) /\ Cut(h) = L /\ L \in Nat
    BY <1>5, <2>4
  <2>6. SmartTruncate(p) = short
    <3>1. ~(p.length <= ChunkMax)
      BY <1>1, <1>3, <1>9
    <3> QED BY <1>4, <3>1
  <2>7. short = [sentences |-> Between(c, a, e), length |-> P, cut |-> Cut(h) > P]
    BY <2>5 DEF short
  <2>8. short \in Rec /\ short.sentences = Between(c, a, e)
    <3>1. P \in Nat
      BY <1>7
    <3>2. (Cut(h) > P) \in BOOLEAN
      BY <2>5, <3>1
    <3> QED BY <2>5, <2>7, <3>1, <3>2 DEF Rec
  <2> HIDE DEF e, L
  <2>9. 2 * L > ChunkMax
    BY <1>1, <1>7, <2>4, <2>5
  <2>10. ASSUME e < b, NEW i \in e + 1 .. b
         PROVE  \E to \in i .. b :
                   /\ L + LengthOf(Between(c, e + 1, to)) > ChunkMax
                   /\ i \in text[c].ends => to = i
    <3>1. /\ e \in Nat /\ a <= e /\ e < b /\ e < i /\ i \in 1 .. Count(c)
          /\ b \in 1 .. Count(c) /\ i \in a .. b /\ b \in i .. b /\ i \in i .. b
      BY <1>1, <2>5, <2>10
    <3>2. CASE i \in text[c].ends
      <4>1. /\ LengthOf(Between(c, e + 1, i)) \in Nat \ {0}
            /\ LengthOf(Between(c, a, i)) = L + LengthOf(Between(c, e + 1, i))
        BY <3>1, RunCut DEF L
      <4>2. L + LengthOf(Between(c, e + 1, i)) > P
        <5>1. \A x \in Nat, y \in Nat \ {0}, z \in Nat : x >= z => x + y > z
          OBVIOUS
        <5>2. P \in Nat /\ L >= P
          BY <1>7, <2>4, <2>5
        <5> QED BY <2>5, <4>1, <5>1, <5>2
      <4>3. L + LengthOf(Between(c, e + 1, i)) > ChunkMax
        BY <1>7, <3>1, <3>2, <4>1, <4>2
      <4> QED BY <3>1, <4>3
    <3>3. CASE i \notin text[c].ends
      <4>1. LengthOf(Between(c, a, b)) = L + LengthOf(Between(c, e + 1, b))
        BY <3>1, RunCut DEF L
      <4>2. LengthOf(Between(c, a, b)) > ChunkMax
        BY <1>3, <1>9 DEF s
      <4> QED BY <3>1, <3>3, <4>1, <4>2
    <3> QED BY <3>2, <3>3
  <2>11. e < b => Over(c, a, e, b)
    BY <2>9, <2>10 DEF Over, L
  <2>12. KeptTo(SmartTruncate(p), c, a, b)
    BY <2>5, <2>6, <2>8, <2>11 DEF KeptTo
  <2> QED BY <2>6, <2>8, <2>12 DEF p, s
<1> QED BY <1>1, <1>3, <1>8, <1>9

-----------------------------------------------------------------------------
(* The chunks of a clause, which the chunks of the text are continued with. *)

Covers(ps, c, cuts) ==
    /\ ps \in Seq(Rec) /\ Len(ps) >= 1
    /\ cuts \in [0 .. Len(ps) -> 0 .. Count(c)]
    /\ cuts[0] = 0 /\ cuts[Len(ps)] = Count(c)
    /\ \A j \in 1 .. Len(ps) :
          cuts[j - 1] < cuts[j] /\ KeptTo(ps[j], c, cuts[j - 1] + 1, cuts[j])

LEMMA SemanticCovers ==
    ASSUME ChunkingAssumption, text \in Texts, NEW c \in Clause, NEW breaks
    PROVE  \E cuts : Covers(SemanticSplit(c, breaks), c, cuts)
<1> DEFINE split == SplitAt(c, breaks)
           ps == MergePieces(split)
           n == Len(ps)
           new == SemanticSplit(c, breaks)
<1>1. split \in Seq(Rec) /\ Len(split) >= 1 /\ \E cuts : Tiles(split, c, Count(c), cuts)
  BY SplitTiles
<1> HIDE DEF split
<1>2. ps \in Seq(Rec) /\ n >= 1 /\ \E more : Tiles(ps, c, Count(c), more)
  BY <1>1, MergeTiles
<1>3. PICK cuts : Tiles(ps, c, Count(c), cuts)
  BY <1>2
<1>4. new = [i \in DOMAIN ps |-> SmartTruncate(ps[i])]
  BY DEF SemanticSplit, split
<1> HIDE DEF ps, new
<1>5. n \in Nat /\ DOMAIN ps = 1 .. n /\ Count(c) \in Nat
  BY <1>2, TextIs
<1>6. /\ cuts \in [0 .. n -> 0 .. Count(c)] /\ cuts[0] = 0 /\ cuts[n] = Count(c)
      /\ \A j \in 1 .. n :
            cuts[j - 1] < cuts[j] /\ ps[j] = Piece(Between(c, cuts[j - 1] + 1, cuts[j]))
  BY <1>3 DEF Tiles
<1> HIDE DEF n
<1>7. ASSUME NEW j \in 1 .. n
      PROVE  SmartTruncate(ps[j]) \in Rec /\ KeptTo(SmartTruncate(ps[j]), c, cuts[j - 1] + 1, cuts[j])
  <2> DEFINE a == cuts[j - 1]
             b == cuts[j]
  <2>1. j - 1 \in 0 .. n /\ j \in 0 .. n
    BY <1>5
  <2>2. a \in 0 .. Count(c) /\ b \in 0 .. Count(c) /\ a < b /\ ps[j] = Piece(Between(c, a + 1, b))
    BY <1>6, <2>1
  <2> HIDE DEF a, b
  <2>3. a + 1 \in Nat \ {0} /\ b \in 1 .. Count(c) /\ a + 1 <= b
    BY <1>5, <2>2
  <2>4. /\ SmartTruncate(Piece(Between(c, a + 1, b))) \in Rec
        /\ KeptTo(SmartTruncate(Piece(Between(c, a + 1, b))), c, a + 1, b)
    BY <2>3, TruncateIs
  <2> QED BY <2>2, <2>4 DEF a, b
<1>8. new \in Seq(Rec) /\ Len(new) = n /\ \A j \in 1 .. n : new[j] = SmartTruncate(ps[j])
  <2>1. \A j \in 1 .. n : SmartTruncate(ps[j]) \in Rec
    BY <1>7
  <2> QED BY <1>4, <1>5, <2>1
<1>9. Covers(new, c, cuts)
  <2>1. \A j \in 1 .. n : cuts[j - 1] < cuts[j] /\ KeptTo(new[j], c, cuts[j - 1] + 1, cuts[j])
    BY <1>6, <1>7, <1>8
  <2>2. Len(new) >= 1
    BY <1>2, <1>8 DEF n
  <2> QED BY <1>6, <1>8, <2>1, <2>2 DEF Covers
<1> QED BY <1>9 DEF new

LEMMA WholeCovers ==
    ASSUME ChunkingAssumption, text \in Texts, NEW c \in Clause
    PROVE  \E cuts : Covers(<<Piece(SentencesOf(c))>>, c, cuts)
<1> DEFINE p == Piece(SentencesOf(c))
           ps == <<p>>
           cuts == [j \in 0 .. 1 |-> IF j = 0 THEN 0 ELSE Count(c)]
<1>1. Count(c) \in Nat \ {0}
  BY TextIs
<1>2. p \in Rec /\ p.sentences = Between(c, 1, Count(c))
  <2>1. 1 \in Nat \ {0} /\ Count(c) \in 0 .. Count(c)
    BY <1>1
  <2>2. SentencesOf(c) \in Seq(Sentence)
    BY <2>1, AnyRun DEF SentencesOf
  <2> QED BY <2>2, PieceIs DEF SentencesOf
<1> HIDE DEF p
<1>3. ps \in Seq(Rec) /\ Len(ps) = 1 /\ ps[1] = p
  BY <1>2
<1>4. cuts \in [0 .. 1 -> 0 .. Count(c)] /\ cuts[0] = 0 /\ cuts[1] = Count(c)
  BY <1>1
<1> HIDE DEF ps, cuts
<1>5. KeptTo(ps[1], c, cuts[0] + 1, cuts[1])
  <2>1. Count(c) \in 1 .. Count(c) /\ ~(Count(c) < Count(c)) /\ 0 + 1 = 1
    BY <1>1
  <2>2. KeptTo(p, c, 1, Count(c))
    BY <1>2, <2>1 DEF KeptTo
  <2> QED BY <1>3, <1>4, <2>1, <2>2
<1>6. \A j \in 1 .. 1 : cuts[j - 1] < cuts[j] /\ KeptTo(ps[j], c, cuts[j - 1] + 1, cuts[j])
  <2>1. \A j \in 1 .. 1 : j = 1 /\ j - 1 = 0
    OBVIOUS
  <2>2. cuts[0] < cuts[1]
    BY <1>1, <1>4
  <2> QED BY <1>5, <2>1, <2>2
<1>7. Covers(ps, c, cuts)
  BY <1>3, <1>4, <1>6 DEF Covers
<1> QED BY <1>7 DEF ps, p

LEMMA TitledIs ==
    ASSUME NEW ps \in Seq(Rec), NEW title \in {None} \cup Clause
    PROVE  /\ Titled(ps, title) \in Seq(Chunk) /\ Len(Titled(ps, title)) = Len(ps)
           /\ \A j \in 1 .. Len(ps) :
                 /\ Titled(ps, title)[j].sentences = ps[j].sentences
                 /\ Titled(ps, title)[j].length = ps[j].length
                 /\ Titled(ps, title)[j].title = title
<1> DEFINE Row(p) == [sentences |-> p.sentences, length |-> p.length, cut |-> p.cut,
                      title |-> title]
<1>1. \A p \in Rec : Row(p) \in Chunk
  BY DEF Rec, Chunk
<1>2. Len(ps) \in Nat /\ DOMAIN ps = 1 .. Len(ps) /\ \A j \in 1 .. Len(ps) : ps[j] \in Rec
  OBVIOUS
<1>3. Titled(ps, title) = [j \in 1 .. Len(ps) |-> Row(ps[j])]
  BY <1>2 DEF Titled
<1>4. \A p : Row(p).sentences = p.sentences /\ Row(p).length = p.length /\ Row(p).title = title
  OBVIOUS
<1> HIDE DEF Row
<1>5. \A j \in 1 .. Len(ps) : Row(ps[j]) \in Chunk
  BY <1>1, <1>2
<1>6. Titled(ps, title) \in Seq(Chunk) /\ Len(Titled(ps, title)) = Len(ps)
  BY <1>2, <1>3, <1>5
<1> QED BY <1>3, <1>4, <1>6

\* The parts of a run.
LEMMA RunParts ==
    ASSUME ChunkingAssumption, text \in Texts, NEW c \in Clause, NEW a \in Nat \ {0},
           NEW e \in 1 .. Count(c), a <= e, NEW ch, ch.sentences = Between(c, a, e)
    PROVE  /\ IsRun(ch) /\ ClauseOf(ch) = c /\ First(ch) = a /\ End(ch) = e
           /\ \A b : TooLong(ch, b) <=> Over(c, a, e, b)
<1> DEFINE s == Between(c, a, e)
           n == e + 1 - a
<1>1. Count(c) \in Nat
  BY TextIs
<1>2. e \in 0 .. Count(c) /\ a <= e + 1 /\ n \in Nat \ {0}
  BY <1>1
<1>3. s \in Seq(Sentence) /\ Len(s) = n /\ \A i \in 1 .. n : s[i] = <<c, a + i - 1>>
  BY <1>2, RunIs
<1>4. s[1] = <<c, a>> /\ s[Len(s)] = <<c, e>>
  <2>1. 1 \in 1 .. n /\ n \in 1 .. n /\ a + 1 - 1 = a /\ a + n - 1 = e
    BY <1>1, <1>2
  <2> HIDE DEF s, n
  <2>2. s[1] = <<c, a + 1 - 1>> /\ s[n] = <<c, a + n - 1>>
    BY <1>3, <2>1
  <2> QED BY <1>3, <2>1, <2>2
<1>5. s # <<>>
  BY <1>2, <1>3
<1> HIDE DEF s, n
<1>6. ch.sentences = s
  BY DEF s
<1>7. ClauseOf(ch) = c /\ First(ch) = a /\ End(ch) = e
  BY <1>4, <1>6 DEF ClauseOf, First, End
<1>8. IsRun(ch)
  <2>1. a \in 1 .. Count(c) /\ e \in a .. Count(c)
    BY <1>1
  <2> QED BY <1>5, <1>6, <1>7, <2>1 DEF IsRun, s
<1>9. \A b : TooLong(ch, b) <=> Over(c, a, e, b)
  BY <1>6, <1>7 DEF TooLong, Over, s
<1> QED BY <1>7, <1>8, <1>9

\* ChunksInv of any chunks.
ChunksAre(q, cl) ==
    /\ \A j \in DOMAIN q : IsRun(q[j]) /\ q[j].title = TitleOf(ClauseOf(q[j]))
    /\ \A j \in 1 .. Len(q) - 1 : Follows(q[j], q[j + 1])
    /\ cl = 1 => q = <<>>
    /\ cl > 1 =>
          /\ q # <<>> /\ ClauseOf(q[1]) = 1 /\ First(q[1]) = 1
          /\ ClauseOf(q[Len(q)]) = cl - 1 /\ Ends(q[Len(q)])

LEMMA ChunksAreInv ==
    /\ ChunksInv <=> ChunksAre(chunks, clause)
    /\ text' = text => (ChunksInv' <=> ChunksAre(chunks', clause'))
<1>1. ChunksInv <=> ChunksAre(chunks, clause)
  BY DEF ChunksInv, ChunksAre
<1>2. SUFFICES ASSUME text' = text
               PROVE  ChunksInv' <=> ChunksAre(chunks', clause')
  BY <1>1
<1>3. ChunksInv' <=> ChunksAre(chunks', clause')
  BY <1>2 DEF ChunksInv, ChunksAre, IsRun, ClauseOf, First, End, TooLong, Ends, Follows,
     TitleOf, Clause, Count, Between, LengthOf
<1> QED BY <1>3

\* The chunks of the next clause continue those of the clauses before.
LEMMA Continued ==
    ASSUME ChunkingAssumption, text \in Texts, NEW q \in Seq(Chunk), NEW cl \in Clause,
           ChunksAre(q, cl), NEW ps, NEW cuts, Covers(ps, cl, cuts)
    PROVE  /\ q \o Titled(ps, TitleOf(cl)) \in Seq(Chunk)
           /\ ChunksAre(q \o Titled(ps, TitleOf(cl)), cl + 1)
<1> DEFINE t == Titled(ps, TitleOf(cl))
           m == Len(q)
           n == Len(ps)
           new == q \o t
<1>1. /\ ps \in Seq(Rec) /\ n >= 1
      /\ cuts \in [0 .. n -> 0 .. Count(cl)]
      /\ cuts[0] = 0 /\ cuts[n] = Count(cl)
      /\ \A j \in 1 .. n :
            cuts[j - 1] < cuts[j] /\ KeptTo(ps[j], cl, cuts[j - 1] + 1, cuts[j])
  BY DEF Covers
<1>2. TitleOf(cl) \in {None} \cup Clause
  BY DEF TitleOf
<1>3. /\ t \in Seq(Chunk) /\ Len(t) = n
      /\ \A j \in 1 .. n : t[j].sentences = ps[j].sentences /\ t[j].title = TitleOf(cl)
  BY <1>1, <1>2, TitledIs
<1>4. m \in Nat /\ n \in Nat \ {0} /\ Count(cl) \in Nat /\ cl \in Nat \ {0}
  <2>1. n \in Nat /\ m \in Nat
    BY <1>1
  <2>2. cl \in Nat \ {0} /\ Count(cl) \in Nat
    BY TextIs
  <2> QED BY <1>1, <2>1, <2>2
<1> HIDE DEF t
<1>5. /\ new \in Seq(Chunk) /\ Len(new) = m + n
      /\ \A i \in 1 .. m + n : new[i] = IF i <= m THEN q[i] ELSE t[i - m]
  <2>1. t \in Seq(Chunk) /\ q \in Seq(Chunk) /\ Len(t) = n
    BY <1>3
  <2>2. /\ q \o t \in Seq(Chunk) /\ Len(q \o t) = Len(q) + Len(t)
        /\ \A i \in 1 .. Len(q) + Len(t) :
              (q \o t)[i] = IF i <= Len(q) THEN q[i] ELSE t[i - Len(q)]
    BY ONLY <2>1, ConcatProperties
  <2> HIDE DEF n
  <2> QED BY <2>1, <2>2
<1> HIDE DEF new, m, n
<1>6. (\A i \in 1 .. m : new[i] = q[i]) /\ (\A i \in 1 .. n : new[m + i] = t[i])
  <2>1. \A i \in 1 .. m : i \in 1 .. m + n /\ i <= m
    BY <1>4
  <2>2. \A i \in 1 .. n : m + i \in 1 .. m + n /\ ~(m + i <= m) /\ (m + i) - m = i
    BY <1>4
  <2> QED BY <1>5, <2>1, <2>2
<1>7. ASSUME NEW i \in 1 .. n
      PROVE  /\ IsRun(t[i]) /\ ClauseOf(t[i]) = cl /\ First(t[i]) = cuts[i - 1] + 1
             /\ End(t[i]) \in cuts[i - 1] + 1 .. cuts[i]
             /\ End(t[i]) < cuts[i] => TooLong(t[i], cuts[i])
             /\ cuts[i] \in Nat /\ cuts[i - 1] \in Nat /\ cuts[i - 1] < cuts[i]
  <2> DEFINE a == cuts[i - 1] + 1
             b == cuts[i]
  <2>1. cuts[i - 1] \in 0 .. Count(cl) /\ b \in 0 .. Count(cl) /\ cuts[i - 1] < b
    <3>1. i - 1 \in 0 .. n /\ i \in 0 .. n
      BY <1>4
    <3> QED BY <1>1, <3>1
  <2>2. PICK e \in a .. b : ps[i].sentences = Between(cl, a, e) /\ (e < b => Over(cl, a, e, b))
    BY <1>1 DEF KeptTo
  <2>3. a \in Nat \ {0} /\ b \in Nat /\ e \in 1 .. Count(cl) /\ a <= e
    BY <1>4, <2>1
  <2>4. t[i].sentences = Between(cl, a, e)
    BY <1>3, <2>2
  <2> HIDE DEF a, b
  <2>5. /\ IsRun(t[i]) /\ ClauseOf(t[i]) = cl /\ First(t[i]) = a /\ End(t[i]) = e
        /\ TooLong(t[i], b) <=> Over(cl, a, e, b)
    BY <2>3, <2>4, RunParts
  <2>6. cuts[i - 1] \in Nat
    BY <1>4, <2>1
  <2> QED BY <2>1, <2>2, <2>3, <2>5, <2>6 DEF a, b
<1>8. ASSUME NEW j \in DOMAIN new
      PROVE  IsRun(new[j]) /\ new[j].title = TitleOf(ClauseOf(new[j]))
  <2>1. j \in 1 .. m + n
    BY <1>5
  <2>2. CASE j \in 1 .. m
    <3>1. new[j] = q[j] /\ j \in DOMAIN q
      BY <1>6, <2>2 DEF m
    <3> QED BY <3>1 DEF ChunksAre
  <2>3. CASE j \notin 1 .. m
    <3> DEFINE i == j - m
    <3>1. i \in 1 .. n /\ m + i = j
      BY <1>4, <2>1, <2>3
    <3> HIDE DEF i
    <3>2. new[j] = t[i]
      BY <1>6, <3>1
    <3> QED BY <1>3, <1>7, <3>1, <3>2
  <2> QED BY <2>2, <2>3
<1>9. ASSUME NEW j \in 1 .. Len(new) - 1
      PROVE  Follows(new[j], new[j + 1])
  <2>1. j \in 1 .. (m + n) - 1
    BY <1>5
  <2>2. CASE j < m
    <3>1. j \in 1 .. m /\ j + 1 \in 1 .. m /\ j \in 1 .. m - 1
      BY <1>4, <2>1, <2>2
    <3>2. new[j] = q[j] /\ new[j + 1] = q[j + 1]
      BY <1>6, <3>1
    <3> QED BY <3>1, <3>2 DEF ChunksAre, m
  <2>3. CASE j = m
    <3>1. m \in 1 .. m /\ 1 \in 1 .. n /\ m > 0 /\ 1 - 1 = 0 /\ j + 1 = m + 1
      BY <1>4, <2>1, <2>3
    <3>2. new[j] = q[m] /\ new[j + 1] = t[1]
      BY <1>6, <2>3, <3>1
    <3>3. ClauseOf(t[1]) = cl /\ First(t[1]) = 1
      BY <1>1, <1>7, <3>1
    <3>4. cl > 1
      <4>1. q # <<>>
        BY <3>1 DEF m
      <4> QED BY <1>4, <4>1 DEF ChunksAre
    <3>5. ClauseOf(q[m]) = cl - 1 /\ Ends(q[m])
      BY <3>4 DEF ChunksAre, m
    <3>6. cl = ClauseOf(q[m]) + 1
      BY <1>4, <3>5
    <3> QED BY <3>2, <3>3, <3>5, <3>6 DEF Follows
  <2>4. CASE j > m
    <3> DEFINE i == j - m
    <3>1. i \in 1 .. n /\ i + 1 \in 1 .. n /\ m + i = j /\ m + (i + 1) = j + 1 /\ (i + 1) - 1 = i
      BY <1>4, <2>1, <2>4
    <3> HIDE DEF i
    <3>2. new[j] = t[i] /\ new[j + 1] = t[i + 1]
      BY <1>6, <3>1
    <3>3. /\ ClauseOf(t[i]) = cl /\ End(t[i]) \in cuts[i - 1] + 1 .. cuts[i]
          /\ End(t[i]) < cuts[i] => TooLong(t[i], cuts[i])
          /\ cuts[i] \in Nat /\ cuts[i - 1] \in Nat
      BY <1>7, <3>1
    <3>4. ClauseOf(t[i + 1]) = cl /\ First(t[i + 1]) = cuts[i] + 1
      BY <1>7, <3>1
    <3>5. /\ End(t[i]) < First(t[i + 1]) /\ First(t[i + 1]) - 1 = cuts[i]
          /\ End(t[i]) + 1 < First(t[i + 1]) => End(t[i]) < cuts[i]
      BY <3>3, <3>4
    <3> QED BY <3>2, <3>3, <3>4, <3>5 DEF Follows
  <2> QED BY <1>4, <2>1, <2>2, <2>3, <2>4
<1>10. cl + 1 # 1 /\ (cl + 1) - 1 = cl
  BY <1>4
<1>11. new # <<>>
  BY <1>4, <1>5
<1>12. ClauseOf(new[1]) = 1 /\ First(new[1]) = 1
  <2>1. CASE cl = 1
    <3>1. q = <<>>
      BY <2>1 DEF ChunksAre
    <3>2. m = 0 /\ 1 \in 1 .. n /\ m + 1 = 1 /\ 1 - 1 = 0
      BY <1>4, <3>1 DEF m
    <3>3. new[1] = t[1]
      BY <1>6, <3>2
    <3> QED BY <1>1, <1>7, <2>1, <3>2, <3>3
  <2>2. CASE cl # 1
    <3>1. cl > 1
      BY <1>4, <2>2
    <3>2. q # <<>> /\ ClauseOf(q[1]) = 1 /\ First(q[1]) = 1
      BY <3>1 DEF ChunksAre
    <3>3. 1 \in 1 .. m
      BY <3>2 DEF m
    <3> QED BY <1>6, <3>2, <3>3
  <2> QED BY <2>1, <2>2
<1>13. ClauseOf(new[Len(new)]) = cl /\ Ends(new[Len(new)])
  <2>1. n \in 1 .. n
    BY <1>4
  <2>2. new[Len(new)] = t[n]
    BY <1>5, <1>6, <2>1
  <2>3. /\ ClauseOf(t[n]) = cl
        /\ End(t[n]) < Count(cl) => TooLong(t[n], Count(cl))
    BY <1>1, <1>7, <2>1
  <2> QED BY <2>2, <2>3 DEF Ends
<1>14. ChunksAre(new, cl + 1)
  BY <1>8, <1>9, <1>10, <1>11, <1>12, <1>13 DEF ChunksAre
<1> QED BY <1>5, <1>14 DEF new, t

-----------------------------------------------------------------------------
(* The order of the chunks.                                                 *)

LEMMA RunHas ==
    ASSUME ChunkingAssumption, text \in Texts, NEW ch, IsRun(ch)
    PROVE  /\ ClauseOf(ch) \in Clause /\ ClauseOf(ch) \in Nat \ {0}
           /\ Count(ClauseOf(ch)) \in Nat /\ First(ch) \in Nat \ {0} /\ End(ch) \in Nat
           /\ First(ch) <= End(ch) /\ End(ch) <= Count(ClauseOf(ch))
           /\ ch.sentences = Between(ClauseOf(ch), First(ch), End(ch))
           /\ ch.sentences \in Seq(Sentence) /\ Len(ch.sentences) = End(ch) + 1 - First(ch)
           /\ \A n \in 1 .. Len(ch.sentences) :
                 /\ ch.sentences[n] = <<ClauseOf(ch), First(ch) + n - 1>>
                 /\ First(ch) + n - 1 \in First(ch) .. End(ch)
           /\ \A i \in First(ch) .. End(ch) :
                 \E n \in 1 .. Len(ch.sentences) : ch.sentences[n] = <<ClauseOf(ch), i>>
<1> DEFINE c == ClauseOf(ch)
           a == First(ch)
           e == End(ch)
           s == ch.sentences
<1>1. c \in Clause /\ a \in 1 .. Count(c) /\ e \in a .. Count(c) /\ s = Between(c, a, e)
  BY DEF IsRun
<1> HIDE DEF c, a, e, s
<1>2. Count(c) \in Nat \ {0} /\ c \in Nat \ {0}
  BY <1>1, TextIs
<1>3. a \in Nat \ {0} /\ e \in Nat /\ a <= e /\ e <= Count(c) /\ e \in 0 .. Count(c) /\ a <= e + 1
  BY <1>1, <1>2
<1>4. /\ s \in Seq(Sentence) /\ Len(s) = e + 1 - a
      /\ \A i \in 1 .. e + 1 - a : s[i] = <<c, a + i - 1>>
  BY <1>1, <1>3, RunIs
<1>5. \A n \in 1 .. Len(s) : s[n] = <<c, a + n - 1>> /\ a + n - 1 \in a .. e
  BY <1>3, <1>4
<1>6. ASSUME NEW i \in a .. e
      PROVE  \E n \in 1 .. Len(s) : s[n] = <<c, i>>
  <2>1. (i + 1 - a) \in 1 .. Len(s) /\ a + (i + 1 - a) - 1 = i
    BY <1>3, <1>4
  <2> QED BY <1>5, <2>1
<1> QED BY <1>1, <1>2, <1>3, <1>4, <1>5, <1>6 DEF c, a, e, s

\* All of a chunk is before all of another.
Apart(ch, next) ==
    \/ ClauseOf(ch) < ClauseOf(next)
    \/ ClauseOf(ch) = ClauseOf(next) /\ End(ch) < First(next)

LEMMA InOrder ==
    ASSUME ChunkingAssumption, text \in Texts, NEW q \in Seq(Chunk), NEW cl, ChunksAre(q, cl)
    PROVE  \A i, j \in 1 .. Len(q) : i < j => Apart(q[i], q[j])
<1> DEFINE n == Len(q)
           P == {k \in 0 .. n : \A i, j \in 1 .. k : i < j => Apart(q[i], q[j])}
<1>1. n \in Nat
  OBVIOUS
<1>2. \A j \in 1 .. n : IsRun(q[j])
  BY DEF ChunksAre
<1>3. \A j \in 1 .. n - 1 : Follows(q[j], q[j + 1])
  BY DEF ChunksAre
<1> HIDE DEF n
<1>4. 0 \in P
  BY <1>1
<1>5. ASSUME NEW k \in 1 .. n, k - 1 \in P
      PROVE  k \in P
  <2>1. ASSUME NEW i \in 1 .. k - 1
        PROVE  Apart(q[i], q[k])
    <3>1. k - 1 \in 1 .. n - 1 /\ k - 1 \in 1 .. n /\ (k - 1) + 1 = k /\ i \in 1 .. n
      BY <1>1, <2>1
    <3> DEFINE x == q[k - 1]
               y == q[k]
    <3>2. Follows(x, y)
      BY <1>3, <3>1
    <3>3. /\ ClauseOf(x) \in Nat /\ First(x) \in Nat /\ End(x) \in Nat /\ First(x) <= End(x)
          /\ ClauseOf(y) \in Nat /\ First(y) \in Nat
          /\ ClauseOf(q[i]) \in Nat /\ End(q[i]) \in Nat
      BY <1>2, <3>1, RunHas
    <3>4. Apart(x, y)
      BY <3>2, <3>3 DEF Follows, Apart
    <3>5. CASE i = k - 1
      BY <3>4, <3>5
    <3>6. CASE i # k - 1
      <4>1. i < k - 1 /\ k - 1 \in 1 .. k - 1
        BY <2>1, <3>1, <3>6
      <4>2. Apart(q[i], x)
        BY <1>5, <4>1
      <4> HIDE DEF x, y
      <4>3. Apart(q[i], y)
        BY <3>3, <3>4, <4>2 DEF Apart
      <4> QED BY <4>3 DEF y
    <3> QED BY <3>5, <3>6
  <2>2. ASSUME NEW i \in 1 .. k, NEW j \in 1 .. k, i < j
        PROVE  Apart(q[i], q[j])
    <3>1. CASE j = k
      <4>1. i \in 1 .. k - 1
        BY <2>2, <3>1
      <4> QED BY <2>1, <3>1, <4>1
    <3>2. CASE j # k
      <4>1. i \in 1 .. k - 1 /\ j \in 1 .. k - 1
        BY <2>2, <3>2
      <4> QED BY <1>5, <2>2, <4>1
    <3> QED BY <3>1, <3>2
  <2>3. k \in 0 .. n
    BY <1>1
  <2> QED BY <2>2, <2>3
<1>6. n \in P
  <2> HIDE DEF P
  <2>1. 0 .. n \subseteq P
    BY <1>1, <1>4, <1>5, UpTo
  <2> QED BY <1>1, <2>1
<1> QED BY <1>6 DEF n

LEMMA ApartIs ==
    ASSUME ChunkingAssumption, text \in Texts, NEW ch, NEW next, IsRun(ch), IsRun(next),
           Apart(ch, next), NEW m \in 1 .. Len(ch.sentences), NEW n \in 1 .. Len(next.sentences)
    PROVE  Before(ch.sentences[m], next.sentences[n])
<1> DEFINE x == First(ch) + m - 1
           y == First(next) + n - 1
<1>1. /\ ch.sentences[m] = <<ClauseOf(ch), x>> /\ x \in First(ch) .. End(ch)
      /\ next.sentences[n] = <<ClauseOf(next), y>> /\ y \in First(next) .. End(next)
  BY RunHas
<1>2. /\ ClauseOf(ch) \in Nat /\ First(ch) \in Nat /\ End(ch) \in Nat
      /\ ClauseOf(next) \in Nat /\ First(next) \in Nat /\ End(next) \in Nat
  BY RunHas
<1> HIDE DEF x, y
<1>3. Before(<<ClauseOf(ch), x>>, <<ClauseOf(next), y>>)
  BY <1>1, <1>2 DEF Apart, Before
<1> QED BY <1>1, <1>3

LEMMA RunInOrder ==
    ASSUME ChunkingAssumption, text \in Texts, NEW ch, IsRun(ch),
           NEW m \in 1 .. Len(ch.sentences), NEW n \in 1 .. Len(ch.sentences), m < n
    PROVE  Before(ch.sentences[m], ch.sentences[n])
<1> DEFINE x == First(ch) + m - 1
           y == First(ch) + n - 1
<1>1. /\ ch.sentences[m] = <<ClauseOf(ch), x>> /\ ch.sentences[n] = <<ClauseOf(ch), y>>
      /\ First(ch) \in Nat /\ Len(ch.sentences) \in Nat
  <2>1. First(ch) \in Nat /\ ch.sentences \in Seq(Sentence)
    BY RunHas
  <2>2. Len(ch.sentences) \in Nat
    BY <2>1
  <2> QED BY <2>1, <2>2, RunHas
<1>2. x < y
  BY <1>1
<1> HIDE DEF x, y
<1>3. Before(<<ClauseOf(ch), x>>, <<ClauseOf(ch), y>>)
  BY <1>2 DEF Before
<1> QED BY <1>1, <1>3

-----------------------------------------------------------------------------
(* Small chunks join the one before: the rows so far have the sentences of  *)
(* the chunks so far, in their order.                                       *)

\* The rows are continued with a chunk, at an offset in the last of them.
Grows(done, new, ch, e, off) ==
    /\ done \in Seq(Chunk) /\ new \in Seq(Chunk) /\ ch \in Chunk
    /\ e \in Nat \ {0} /\ Len(new) = e /\ off \in Nat
    /\ Len(done) = e - 1 \/ Len(done) = e
    /\ \A i \in 1 .. e - 1 : new[i] = done[i]
    /\ Len(new[e].sentences) = off + Len(ch.sentences)
    /\ \A n \in 1 .. Len(ch.sentences) : new[e].sentences[off + n] = ch.sentences[n]
    /\ Len(done) = e => off = Len(done[e].sentences)
    /\ Len(done) = e - 1 => off = 0
    /\ Len(done) = e => \A m \in 1 .. off : new[e].sentences[m] = done[e].sentences[m]
    /\ LengthOf(new[e].sentences) >= LengthOf(ch.sentences)

\* A chunk's sentences are a sequence.
LEMMA ChunkIs ==
    ASSUME NEW q \in Seq(Chunk), NEW i \in 1 .. Len(q)
    PROVE  /\ q[i] \in Chunk /\ q[i].sentences \in Seq(Sentence) /\ Len(q[i].sentences) \in Nat
           /\ DOMAIN q[i].sentences = 1 .. Len(q[i].sentences)
           /\ q[i].length \in Nat /\ q[i].title \in {None} \cup Clause
<1>1. q[i] \in Chunk
  OBVIOUS
<1>2. q[i].sentences \in Seq(Sentence) /\ q[i].length \in Nat /\ q[i].title \in {None} \cup Clause
  BY <1>1 DEF Chunk
<1>3. Len(q[i].sentences) \in Nat /\ DOMAIN q[i].sentences = 1 .. Len(q[i].sentences)
  BY <1>2
<1> QED BY <1>1, <1>2, <1>3

\* A step of the loop.
LEMMA JoinGrows ==
    ASSUME ChunkingAssumption, text \in Texts, NEW done \in Seq(Chunk), NEW all \in Seq(Chunk),
           NEW k \in 1 .. Len(all)
    PROVE  \E e, off :
              /\ Grows(done, JoinNext(all, k, done), all[k], e, off)
              /\ \/ /\ Len(done) = e - 1 /\ JoinNext(all, k, done)[e] = all[k]
                    /\ done # <<>> => all[k].length >= SmallTail
                 \/ Len(done) = e /\ JoinNext(all, k, done)[e] = Joined(done[e], all[k])
<1> DEFINE ch == all[k]
           new == JoinNext(all, k, done)
           d == Len(done)
<1>1. /\ ch \in Chunk /\ ch.sentences \in Seq(Sentence) /\ Len(ch.sentences) \in Nat
      /\ ch.length \in Nat
  BY ChunkIs
<1>2. d \in Nat /\ SmallTail \in Nat \ {0}
  BY DEF ChunkingAssumption
<1>3. new \in Seq(Chunk)
  BY ClosedJoin
<1>4. LengthOf(ch.sentences) \in Nat
  BY <1>1, Lengths
<1>5. CASE done # <<>> /\ ch.length < SmallTail
  <2> DEFINE row == done[d]
             both == row.sentences \o ch.sentences
             off == Len(row.sentences)
  <2>1. d \in 1 .. Len(done) /\ d \in Nat \ {0}
    BY <1>5
  <2>2. row \in Chunk /\ row.sentences \in Seq(Sentence) /\ off \in Nat
    BY <2>1, ChunkIs
  <2>3. Joined(row, ch) \in Chunk
    BY <1>1, <2>2, JoinedIs
  <2>4. new = [done EXCEPT ![d] = Joined(row, ch)]
    BY <1>5 DEF JoinNext
  <2> HIDE DEF new, ch, row
  <2>5. /\ Len(new) = d /\ \A j \in 1 .. d : new[j] = IF j = d THEN Joined(row, ch) ELSE done[j]
    <3> HIDE DEF d
    <3>1. d \in 1 .. Len(done)
      BY <2>1
    <3>2. Len(done) = d
      BY DEF d
    <3> QED BY <2>3, <2>4, <3>1, <3>2, ExceptSeq
  <2>6. new[d] = Joined(row, ch) /\ new[d].sentences = both
    <3>1. d \in 1 .. d
      BY <2>1
    <3>2. new[d] = Joined(row, ch)
      BY <2>5, <3>1
    <3>3. Joined(row, ch).sentences = both
      BY DEF Joined
    <3> QED BY <3>2, <3>3
  <2>7. /\ Len(both) = off + Len(ch.sentences)
        /\ \A i \in 1 .. off + Len(ch.sentences) :
              both[i] = IF i <= off THEN row.sentences[i] ELSE ch.sentences[i - off]
    BY <1>1, <2>2, ConcatProperties
  <2>8. LengthOf(both) = LengthOf(row.sentences) + LengthOf(ch.sentences)
        /\ LengthOf(row.sentences) \in Nat
    BY <1>1, <2>2, Lengths
  <2>9. LengthOf(both) >= LengthOf(ch.sentences)
    <3> DEFINE x == LengthOf(row.sentences)
               y == LengthOf(ch.sentences)
    <3>1. x \in Nat /\ y \in Nat /\ LengthOf(both) = x + y
      BY <1>4, <2>8
    <3> HIDE DEF x, y
    <3>2. x + y >= y
      BY <3>1
    <3> QED BY <3>1, <3>2 DEF y
  <2> HIDE DEF both, off
  <2>10. \A n \in 1 .. Len(ch.sentences) : both[off + n] = ch.sentences[n]
    <3> TAKE n \in 1 .. Len(ch.sentences)
    <3>1. off + n \in 1 .. off + Len(ch.sentences) /\ ~(off + n <= off) /\ (off + n) - off = n
      BY <1>1, <2>2
    <3> QED BY <2>7, <3>1
  <2>11. \A m \in 1 .. off : both[m] = row.sentences[m]
    <3> TAKE m \in 1 .. off
    <3>1. m \in 1 .. off + Len(ch.sentences) /\ m <= off
      BY <1>1, <2>2
    <3> QED BY <2>7, <3>1
  <2>12. \A i \in 1 .. d - 1 : new[i] = done[i]
    <3> TAKE i \in 1 .. d - 1
    <3>1. i \in 1 .. d /\ i # d
      BY <1>2
    <3> QED BY <2>5, <3>1
  <2>13. Len(done) = d /\ ~(Len(done) = d - 1) /\ done[d] = row
    BY <1>2 DEF row
  <2> HIDE DEF d
  <2>14. Grows(done, new, ch, d, off)
    BY <1>1, <1>3, <2>1, <2>2, <2>5, <2>6, <2>7, <2>9, <2>10, <2>11, <2>12, <2>13
    DEF Grows, off
  <2> QED BY <2>6, <2>13, <2>14 DEF new, ch
<1>6. CASE ~(done # <<>> /\ ch.length < SmallTail)
  <2> DEFINE e == d + 1
  <2>1. new = Append(done, ch)
    BY <1>6 DEF JoinNext
  <2> HIDE DEF new, ch
  <2>2. Len(new) = e /\ new[e] = ch /\ \A i \in 1 .. d : new[i] = done[i]
    BY <1>1, <2>1, AppendProperties
  <2>3. done # <<>> => ch.length >= SmallTail
    BY <1>1, <1>2, <1>6
  <2>4. /\ e \in Nat \ {0} /\ e - 1 = d /\ Len(done) = e - 1 /\ ~(Len(done) = e)
        /\ \A n \in 1 .. Len(ch.sentences) : 0 + n = n
        /\ 0 + Len(ch.sentences) = Len(ch.sentences)
    BY <1>1, <1>2
  <2>5. LengthOf(ch.sentences) >= LengthOf(ch.sentences)
    <3> DEFINE x == LengthOf(ch.sentences)
    <3>1. x \in Nat
      BY <1>4
    <3> HIDE DEF x
    <3>2. x >= x
      BY <3>1
    <3> QED BY <3>2 DEF x
  <2> HIDE DEF e, d
  <2>6. Grows(done, new, ch, e, 0)
    BY <1>1, <1>3, <2>2, <2>4, <2>5 DEF Grows
  <2> QED BY <2>2, <2>3, <2>4, <2>6 DEF new, ch
<1> QED BY <1>5, <1>6

\* What is in the rows then: what was, and the chunk.
Was(done, new, e, off, i, m) ==
    /\ i \in 1 .. Len(done) /\ m \in 1 .. Len(done[i].sentences)
    /\ new[i].sentences[m] = done[i].sentences[m]
    /\ i < e \/ m <= off
Came(new, ch, e, off, i, m) ==
    /\ i = e /\ m - off \in 1 .. Len(ch.sentences) /\ m > off
    /\ new[i].sentences[m] = ch.sentences[m - off]

LEMMA GrownHas ==
    ASSUME NEW done, NEW new, NEW ch, NEW e, NEW off, Grows(done, new, ch, e, off),
           NEW i \in 1 .. e, NEW m \in 1 .. Len(new[i].sentences)
    PROVE  Was(done, new, e, off, i, m) \/ Came(new, ch, e, off, i, m)
<1>1. /\ new \in Seq(Chunk) /\ done \in Seq(Chunk) /\ Len(new) = e /\ e \in Nat \ {0} /\ off \in Nat
      /\ ch \in Chunk /\ Len(done) \in Nat
  <2>1. done \in Seq(Chunk)
    BY DEF Grows
  <2>2. Len(done) \in Nat
    BY <2>1
  <2> QED BY <2>2 DEF Grows
<1>2. Len(ch.sentences) \in Nat /\ Len(new[i].sentences) \in Nat
  <2>1. ch.sentences \in Seq(Sentence)
    BY <1>1 DEF Chunk
  <2>2. Len(ch.sentences) \in Nat
    BY <2>1
  <2> QED BY <1>1, <2>2, ChunkIs
<1>3. CASE i < e
  <2>1. i \in 1 .. e - 1 /\ i \in 1 .. Len(done)
    BY <1>1, <1>3 DEF Grows
  <2>2. new[i] = done[i]
    BY <2>1 DEF Grows
  <2> QED BY <1>3, <2>1, <2>2 DEF Was
<1>4. CASE i = e /\ m <= off
  <2>1. Len(done) = e
    <3>1. off # 0
      BY <1>1, <1>2, <1>4
    <3> QED BY <3>1 DEF Grows
  <2>2. off = Len(done[e].sentences) /\ m \in 1 .. off
    BY <1>1, <1>2, <1>4, <2>1 DEF Grows
  <2>3. new[e].sentences[m] = done[e].sentences[m]
    BY <2>1, <2>2 DEF Grows
  <2>4. i \in 1 .. Len(done)
    BY <1>1, <1>4, <2>1
  <2> QED BY <1>4, <2>2, <2>3, <2>4 DEF Was
<1>5. CASE i = e /\ ~(m <= off)
  <2>1. Len(new[e].sentences) = off + Len(ch.sentences)
    BY DEF Grows
  <2>2. m - off \in 1 .. Len(ch.sentences) /\ m > off /\ off + (m - off) = m
    BY <1>1, <1>2, <1>5, <2>1
  <2>3. new[e].sentences[off + (m - off)] = ch.sentences[m - off]
    BY <2>2 DEF Grows
  <2> QED BY <1>5, <2>2, <2>3 DEF Came
<1> QED BY <1>1, <1>3, <1>4, <1>5

\* What was in the rows is where it was.
LEMMA GrownKeeps ==
    ASSUME NEW done, NEW new, NEW ch, NEW e, NEW off, Grows(done, new, ch, e, off),
           NEW i \in 1 .. Len(done), NEW h \in 0 .. Len(done[i].sentences)
    PROVE  /\ i \in 1 .. Len(new) /\ h <= Len(new[i].sentences)
           /\ SubSeq(new[i].sentences, 1, h) = SubSeq(done[i].sentences, 1, h)
           /\ \A m \in 1 .. h : new[i].sentences[m] = done[i].sentences[m]
<1>1. /\ new \in Seq(Chunk) /\ done \in Seq(Chunk) /\ Len(new) = e /\ e \in Nat \ {0} /\ off \in Nat
      /\ ch \in Chunk /\ Len(done) \in Nat /\ (Len(done) = e - 1 \/ Len(done) = e)
  <2>1. done \in Seq(Chunk)
    BY DEF Grows
  <2>2. Len(done) \in Nat
    BY <2>1
  <2> QED BY <2>2 DEF Grows
<1>2. Len(ch.sentences) \in Nat
  <2>1. ch.sentences \in Seq(Sentence)
    BY <1>1 DEF Chunk
  <2> QED BY <2>1
<1>3. i \in 1 .. Len(new)
  BY <1>1
<1> DEFINE x == done[i].sentences
           y == new[i].sentences
<1>4. /\ x \in Seq(Sentence) /\ Len(x) \in Nat /\ y \in Seq(Sentence) /\ Len(y) \in Nat
  BY <1>1, <1>3, ChunkIs
<1>5. Len(x) <= Len(y) /\ \A m \in 1 .. Len(x) : y[m] = x[m]
  <2>1. CASE i < e
    <3>1. i \in 1 .. e - 1
      BY <1>1, <2>1
    <3>2. y = x
      BY <3>1 DEF Grows
    <3> HIDE DEF x, y
    <3> QED BY <1>4, <3>2
  <2>2. CASE ~(i < e)
    <3>1. i = e /\ Len(done) = e
      BY <1>1, <2>2
    <3>2. off = Len(x) /\ Len(y) = off + Len(ch.sentences) /\ \A m \in 1 .. off : y[m] = x[m]
      BY <3>1 DEF Grows
    <3> HIDE DEF x, y
    <3> QED BY <1>2, <1>4, <3>2
  <2> QED BY <2>1, <2>2
<1> HIDE DEF x, y
<1>6. h \in Nat /\ h <= Len(x)
  BY <1>4 DEF x
<1>7. ASSUME NEW z \in Seq(Sentence), Len(z) \in Nat, h <= Len(z)
      PROVE  /\ SubSeq(z, 1, h) \in Seq(Sentence) /\ Len(SubSeq(z, 1, h)) = h
             /\ \A m \in 1 .. h : SubSeq(z, 1, h)[m] = z[m]
  <2>1. \A m \in 1 .. h : m \in 1 .. Len(z) /\ z[m] \in Sentence
    BY <1>6, <1>7
  <2>2. SubSeq(z, 1, h) \in Seq(Sentence) /\ Len(SubSeq(z, 1, h)) = h
    BY <1>6, <2>1, SubSeqProperties
  <2>3. ASSUME NEW m \in 1 .. h
        PROVE  SubSeq(z, 1, h)[m] = z[m]
    <3>1. m \in 1 .. h - 1 + 1 /\ 1 + m - 1 = m
      BY <1>6
    <3>2. SubSeq(z, 1, h)[m] = z[1 + m - 1]
      BY <1>6, <2>1, <3>1, SubSeqProperties
    <3> QED BY <3>1, <3>2
  <2> QED BY <2>2, <2>3
<1>8. h <= Len(y)
  BY <1>4, <1>5, <1>6
<1> DEFINE u == SubSeq(x, 1, h)
           v == SubSeq(y, 1, h)
<1>9. u \in Seq(Sentence) /\ Len(u) = h /\ \A m \in 1 .. h : u[m] = x[m]
  BY <1>4, <1>6, <1>7
<1>10. v \in Seq(Sentence) /\ Len(v) = h /\ \A m \in 1 .. h : v[m] = y[m]
  BY <1>4, <1>7, <1>8
<1>11. \A m \in 1 .. h : m \in 1 .. Len(x)
  BY <1>4, <1>6
<1> HIDE DEF u, v
<1>12. \A m \in 1 .. h : v[m] = u[m]
  BY <1>5, <1>9, <1>10, <1>11
<1>13. v = u
  BY <1>9, <1>10, <1>12, SeqEqual
<1>14. \A m \in 1 .. h : y[m] = x[m]
  BY <1>5, <1>11
<1> QED BY <1>3, <1>8, <1>13, <1>14 DEF u, v, x, y

\* Every sentence of the rows is one of the first chunks.
FromChunks(all, done, k) ==
    \A i \in 1 .. Len(done) : \A m \in 1 .. Len(done[i].sentences) :
        \E j \in 1 .. k : \E n \in 1 .. Len(all[j].sentences) :
            done[i].sentences[m] = all[j].sentences[n]

\* A row has a chunk from an offset on, and is as long up to its end at least.
Has(row, ch, off) ==
    /\ off + Len(ch.sentences) <= Len(row.sentences)
    /\ \A n \in 1 .. Len(ch.sentences) : row.sentences[off + n] = ch.sentences[n]
    /\ LengthOf(SubSeq(row.sentences, 1, off + Len(ch.sentences))) >= LengthOf(ch.sentences)

HasChunks(all, done, k) ==
    \A j \in 1 .. k : \E i \in 1 .. Len(done), off \in Nat : Has(done[i], all[j], off)

Sorted(done) ==
    \A i, j \in 1 .. Len(done) :
        \A m \in 1 .. Len(done[i].sentences), n \in 1 .. Len(done[j].sentences) :
            i < j \/ (i = j /\ m < n) => Before(done[i].sentences[m], done[j].sentences[n])

TitlesOf(row) ==
    {c \in Clause : text[c].titled /\ \E n \in 1 .. Len(row.sentences) : row.sentences[n][1] = c}

TitleFits(row) ==
    /\ TitlesOf(row) = {} => row.title = None
    /\ TitlesOf(row) # {} => row.title \in TitlesOf(row) /\ \A c \in TitlesOf(row) : row.title <= c

LEMMA JoinFrom ==
    ASSUME NEW all \in Seq(Chunk), NEW k \in 1 .. Len(all), NEW done, NEW new, NEW e, NEW off,
           Grows(done, new, all[k], e, off), FromChunks(all, done, k - 1)
    PROVE  FromChunks(all, new, k)
<1>1. Len(new) = e
  BY DEF Grows
<1>2. k \in 1 .. k /\ \A j \in 1 .. k - 1 : j \in 1 .. k
  OBVIOUS
<1>3. ASSUME NEW i \in 1 .. e, NEW m \in 1 .. Len(new[i].sentences)
      PROVE  \E j \in 1 .. k : \E n \in 1 .. Len(all[j].sentences) :
                new[i].sentences[m] = all[j].sentences[n]
  <2>1. CASE Was(done, new, e, off, i, m)
    <3>1. PICK j \in 1 .. k - 1 : \E n \in 1 .. Len(all[j].sentences) :
             done[i].sentences[m] = all[j].sentences[n]
      BY <2>1 DEF FromChunks, Was
    <3> QED BY <1>2, <2>1, <3>1 DEF Was
  <2>2. CASE Came(new, all[k], e, off, i, m)
    BY <1>2, <2>2 DEF Came
  <2> QED BY <2>1, <2>2, GrownHas
<1> QED BY <1>1, <1>3 DEF FromChunks

LEMMA JoinHas ==
    ASSUME ChunkingAssumption, text \in Texts,
           NEW all \in Seq(Chunk), NEW k \in 1 .. Len(all), NEW done, NEW new, NEW e, NEW off,
           Grows(done, new, all[k], e, off), HasChunks(all, done, k - 1)
    PROVE  HasChunks(all, new, k)
<1>1. done \in Seq(Chunk) /\ new \in Seq(Chunk) /\ Len(new) = e /\ off \in Nat /\ e \in 1 .. e
  BY DEF Grows
<1>2. ASSUME NEW j \in 1 .. k - 1
      PROVE  \E i \in 1 .. Len(new), o \in Nat : Has(new[i], all[j], o)
  <2>1. PICK i \in 1 .. Len(done), o \in Nat : Has(done[i], all[j], o)
    BY DEF HasChunks
  <2> DEFINE h == o + Len(all[j].sentences)
  <2>2. Len(all[j].sentences) \in Nat
    <3>1. j \in 1 .. Len(all)
      OBVIOUS
    <3> QED BY <3>1, ChunkIs
  <2>3. h \in 0 .. Len(done[i].sentences)
    <3>1. h <= Len(done[i].sentences) /\ Len(done[i].sentences) \in Nat
      BY <1>1, <2>1, ChunkIs DEF Has
    <3>2. h \in Nat
      BY <2>2
    <3> HIDE DEF h
    <3> QED BY <3>1, <3>2
  <2> HIDE DEF h
  <2>4. /\ i \in 1 .. Len(new) /\ h <= Len(new[i].sentences)
        /\ SubSeq(new[i].sentences, 1, h) = SubSeq(done[i].sentences, 1, h)
        /\ \A m \in 1 .. h : new[i].sentences[m] = done[i].sentences[m]
    BY <2>3, GrownKeeps
  <2>5. \A n \in 1 .. Len(all[j].sentences) : o + n \in 1 .. h
    BY <2>2 DEF h
  <2>6. Has(new[i], all[j], o)
    BY <2>1, <2>4, <2>5 DEF Has, h
  <2> QED BY <2>4, <2>6
<1>3. Has(new[e], all[k], off)
  <2> DEFINE s == new[e].sentences
             h == off + Len(all[k].sentences)
  <2>1. /\ Len(s) = h /\ LengthOf(s) >= LengthOf(all[k].sentences)
        /\ \A n \in 1 .. Len(all[k].sentences) : s[off + n] = all[k].sentences[n]
    BY DEF Grows
  <2>2. s \in Seq(Sentence) /\ Len(s) \in Nat
    <3>1. e \in 1 .. Len(new)
      BY <1>1
    <3> QED BY <1>1, <3>1, ChunkIs
  <2> HIDE DEF h
  <2>3. SubSeq(s, 1, h) = s
    <3> HIDE DEF s
    <3> QED BY <2>1, <2>2
  <2>4. h <= Len(s)
    BY <2>1, <2>2
  <2> QED BY <2>1, <2>3, <2>4 DEF Has, h
<1>4. ASSUME NEW j \in 1 .. k
      PROVE  \E i \in 1 .. Len(new), o \in Nat : Has(new[i], all[j], o)
  <2>1. CASE j = k
    <3>1. e \in 1 .. Len(new)
      BY <1>1
    <3> QED BY <1>1, <1>3, <2>1, <3>1
  <2>2. CASE j # k
    <3>1. j \in 1 .. k - 1
      BY <2>2
    <3> QED BY <1>2, <3>1
  <2> QED BY <2>1, <2>2
<1> QED BY <1>4 DEF HasChunks

\* What is in the rows comes before the next chunk.
LEMMA RowsFirst ==
    ASSUME ChunkingAssumption, text \in Texts, NEW all \in Seq(Chunk), NEW k \in 1 .. Len(all),
           \A j \in 1 .. Len(all) : IsRun(all[j]),
           \A i, j \in 1 .. Len(all) : i < j => Apart(all[i], all[j]),
           NEW done, FromChunks(all, done, k - 1),
           NEW i \in 1 .. Len(done), NEW m \in 1 .. Len(done[i].sentences),
           NEW n \in 1 .. Len(all[k].sentences)
    PROVE  Before(done[i].sentences[m], all[k].sentences[n])
<1>0. PICK j \in 1 .. k - 1 :
         \E o \in 1 .. Len(all[j].sentences) : done[i].sentences[m] = all[j].sentences[o]
  BY DEF FromChunks
<1>1. PICK o \in 1 .. Len(all[j].sentences) : done[i].sentences[m] = all[j].sentences[o]
  BY <1>0
<1>2. j \in 1 .. Len(all) /\ j < k
  OBVIOUS
<1>3. Apart(all[j], all[k]) /\ IsRun(all[j]) /\ IsRun(all[k])
  BY <1>2
<1> QED BY <1>1, <1>3, ApartIs

LEMMA JoinSorted ==
    ASSUME ChunkingAssumption, text \in Texts, NEW all \in Seq(Chunk), NEW k \in 1 .. Len(all),
           \A j \in 1 .. Len(all) : IsRun(all[j]),
           \A i, j \in 1 .. Len(all) : i < j => Apart(all[i], all[j]),
           NEW done, NEW new, NEW e, NEW off,
           Grows(done, new, all[k], e, off), FromChunks(all, done, k - 1), Sorted(done)
    PROVE  Sorted(new)
<1>1. /\ done \in Seq(Chunk) /\ new \in Seq(Chunk) /\ Len(new) = e /\ e \in Nat /\ off \in Nat
      /\ Len(done) = e - 1 \/ Len(done) = e
  BY DEF Grows
<1>2. IsRun(all[k])
  OBVIOUS
<1> SUFFICES ASSUME NEW i \in 1 .. e, NEW j \in 1 .. e,
                    NEW m \in 1 .. Len(new[i].sentences), NEW n \in 1 .. Len(new[j].sentences),
                    i < j \/ (i = j /\ m < n)
             PROVE  Before(new[i].sentences[m], new[j].sentences[n])
  BY <1>1 DEF Sorted
<1> DEFINE Old(x, y) == Was(done, new, e, off, x, y)
           New(x, y) == Came(new, all[k], e, off, x, y)
<1>3. (Old(i, m) \/ New(i, m)) /\ (Old(j, n) \/ New(j, n))
  <2>1. Old(i, m) \/ New(i, m)
    BY GrownHas
  <2>2. Old(j, n) \/ New(j, n)
    BY GrownHas
  <2> QED BY <2>1, <2>2
<1>4. m \in Nat /\ n \in Nat
  BY <1>1, ChunkIs
<1>5. CASE Old(i, m) /\ Old(j, n)
  <2>1. Before(done[i].sentences[m], done[j].sentences[n])
    BY <1>5 DEF Sorted, Was, Came
  <2> QED BY <1>5, <2>1 DEF Was, Came
<1>6. CASE Old(i, m) /\ New(j, n)
  <2>1. Before(done[i].sentences[m], all[k].sentences[n - off])
    BY <1>6, RowsFirst DEF Was, Came
  <2> QED BY <1>6, <2>1 DEF Was, Came
<1>7. CASE New(i, m) /\ New(j, n)
  <2>1. m < n /\ m - off < n - off
    BY <1>1, <1>4, <1>7 DEF Was, Came
  <2>2. Before(all[k].sentences[m - off], all[k].sentences[n - off])
    BY <1>2, <1>7, <2>1, RunInOrder DEF Was, Came
  <2> QED BY <1>7, <2>2 DEF Was, Came
<1>8. CASE New(i, m) /\ Old(j, n)
  <2>1. i = e /\ m > off /\ (j < e \/ n <= off)
    BY <1>8 DEF Was, Came
  <2>2. FALSE
    BY <1>1, <1>4, <2>1
  <2> QED BY <2>2
<1> QED BY <1>3, <1>5, <1>6, <1>7, <1>8

\* The titles of a run and of a row that a run joins.
LEMMA RunTitle ==
    ASSUME ChunkingAssumption, text \in Texts, NEW ch, IsRun(ch)
    PROVE  TitlesOf(ch) = IF text[ClauseOf(ch)].titled THEN {ClauseOf(ch)} ELSE {}
<1> DEFINE c == ClauseOf(ch)
<1>1. /\ c \in Clause /\ First(ch) \in First(ch) .. End(ch)
      /\ \A n \in 1 .. Len(ch.sentences) : ch.sentences[n] = <<c, First(ch) + n - 1>>
  <2>1. First(ch) \in Nat /\ End(ch) \in Nat /\ First(ch) <= End(ch)
    BY RunHas
  <2>2. First(ch) \in First(ch) .. End(ch)
    BY <2>1
  <2> QED BY <2>2, RunHas
<1>2. \E n \in 1 .. Len(ch.sentences) : ch.sentences[n] = <<c, First(ch)>>
  BY <1>1, RunHas
<1> HIDE DEF c
<1>3. ASSUME NEW d
      PROVE  (\E n \in 1 .. Len(ch.sentences) : ch.sentences[n][1] = d) <=> d = c
  <2>1. \A n \in 1 .. Len(ch.sentences) : ch.sentences[n][1] = c
    BY <1>1
  <2>2. \E n \in 1 .. Len(ch.sentences) : TRUE
    BY <1>2
  <2> QED BY <2>1, <2>2
<1>4. ASSUME NEW d
      PROVE  d \in TitlesOf(ch) <=> d \in Clause /\ text[d].titled /\ d = c
  BY <1>3 DEF TitlesOf
<1>5. TitlesOf(ch) = IF text[c].titled THEN {c} ELSE {}
  BY <1>1, <1>4
<1> QED BY <1>5 DEF c

LEMMA ChunkTitle ==
    ASSUME ChunkingAssumption, text \in Texts, NEW ch, IsRun(ch),
           ch.title = TitleOf(ClauseOf(ch))
    PROVE  TitleFits(ch)
<1>1. ClauseOf(ch) \in Nat
  BY RunHas
<1>2. ClauseOf(ch) <= ClauseOf(ch)
  BY <1>1
<1> QED BY <1>2, RunTitle DEF TitleFits, TitleOf

LEMMA JoinedTitle ==
    ASSUME ChunkingAssumption, text \in Texts, NEW row \in Chunk, NEW ch \in Chunk, IsRun(ch),
           ch.title = TitleOf(ClauseOf(ch)), TitleFits(row),
           \A m \in 1 .. Len(row.sentences), n \in 1 .. Len(ch.sentences) :
               Before(row.sentences[m], ch.sentences[n])
    PROVE  TitleFits(Joined(row, ch))
<1> DEFINE c == ClauseOf(ch)
           T == TitlesOf(row)
           new == Joined(row, ch)
           x == row.sentences
           y == ch.sentences
<1>1. x \in Seq(Sentence) /\ y \in Seq(Sentence) /\ Len(x) \in Nat /\ Len(y) \in Nat
  <2>1. x \in Seq(Sentence) /\ y \in Seq(Sentence)
    BY DEF Chunk
  <2> HIDE DEF x, y
  <2> QED BY <2>1
<1>2. /\ c \in Clause /\ c \in Nat /\ 1 \in 1 .. Len(y)
      /\ \A n \in 1 .. Len(y) : y[n] = <<c, First(ch) + n - 1>>
  <2>1. Len(y) = End(ch) + 1 - First(ch) /\ First(ch) <= End(ch) /\ First(ch) \in Nat /\ End(ch) \in Nat
    BY RunHas
  <2>2. 1 \in 1 .. Len(y)
    <3> HIDE DEF y
    <3> QED BY <2>1
  <2> QED BY <2>2, RunHas
<1>3. /\ new.sentences = x \o y
      /\ new.title = IF row.title = None THEN ch.title ELSE row.title
  BY DEF Joined
<1>4. ASSUME NEW d \in T
      PROVE  d \in Nat /\ d <= c
  <2>1. PICK m \in 1 .. Len(x) : x[m][1] = d
    BY DEF TitlesOf
  <2>2. Before(x[m], y[1]) /\ y[1][1] = c
    BY <1>2
  <2>3. x[m][1] <= c
    <3>1. x[m] \in Sentence
      BY <1>1
    <3>2. x[m][1] \in Clause
      BY <3>1, SentenceIs
    <3>3. x[m][1] \in Nat
      BY <3>2, TextIs
    <3> HIDE DEF c, x, y
    <3> QED BY <1>2, <2>2, <3>3 DEF Before
  <2>4. d \in Nat
    <3>1. d \in Clause
      BY DEF TitlesOf
    <3> QED BY <3>1, TextIs
  <2> QED BY <2>1, <2>3, <2>4
<1>5. TitlesOf(new) = T \cup TitlesOf(ch)
  <2> DEFINE z == x \o y
             m == Len(x)
             n == Len(y)
  <2>1. Len(z) = m + n /\ \A i \in 1 .. m + n : z[i] = IF i <= m THEN x[i] ELSE y[i - m]
    BY <1>1, ConcatProperties
  <2>2. m \in Nat /\ n \in Nat
    BY <1>1
  <2> HIDE DEF x, y, z, m, n
  <2>3. (\A i \in 1 .. m : z[i] = x[i]) /\ (\A i \in 1 .. n : z[m + i] = y[i])
    <3>1. \A i \in 1 .. m : i \in 1 .. m + n /\ i <= m
      BY <2>2
    <3>2. \A i \in 1 .. n : m + i \in 1 .. m + n /\ ~(m + i <= m) /\ (m + i) - m = i
      BY <2>2
    <3> QED BY <2>1, <3>1, <3>2
  <2>4. ASSUME NEW d
        PROVE  (\E i \in 1 .. Len(z) : z[i][1] = d) <=>
               (\E i \in 1 .. m : x[i][1] = d) \/ (\E i \in 1 .. n : y[i][1] = d)
    <3>1. ASSUME NEW i \in 1 .. Len(z), z[i][1] = d
          PROVE  (\E h \in 1 .. m : x[h][1] = d) \/ (\E h \in 1 .. n : y[h][1] = d)
      <4>1. i \in 1 .. m + n
        BY <2>1
      <4>2. CASE i <= m
        <5>1. i \in 1 .. m
          BY <2>2, <4>1, <4>2
        <5> QED BY <2>3, <3>1, <5>1
      <4>3. CASE ~(i <= m)
        <5>1. i - m \in 1 .. n /\ m + (i - m) = i
          BY <2>2, <4>1, <4>3
        <5>2. z[i] = y[i - m]
          BY <2>1, <4>1, <4>3
        <5> QED BY <3>1, <5>1, <5>2
      <4> QED BY <4>2, <4>3
    <3>2. ASSUME NEW h \in 1 .. m, x[h][1] = d
          PROVE  \E i \in 1 .. Len(z) : z[i][1] = d
      <4>1. h \in 1 .. Len(z)
        BY <2>1, <2>2
      <4> QED BY <2>3, <3>2, <4>1
    <3>3. ASSUME NEW h \in 1 .. n, y[h][1] = d
          PROVE  \E i \in 1 .. Len(z) : z[i][1] = d
      <4>1. m + h \in 1 .. Len(z)
        BY <2>1, <2>2
      <4> QED BY <2>3, <3>3, <4>1
    <3> QED BY <3>1, <3>2, <3>3
  <2>5. new.sentences = z
    BY <1>3 DEF z
  <2>6. TitlesOf(new) = {d \in Clause : text[d].titled /\ \E i \in 1 .. Len(z) : z[i][1] = d}
    BY <2>5 DEF TitlesOf
  <2>7. T = {d \in Clause : text[d].titled /\ \E i \in 1 .. m : x[i][1] = d}
    BY DEF TitlesOf, x, m
  <2>8. TitlesOf(ch) = {d \in Clause : text[d].titled /\ \E i \in 1 .. n : y[i][1] = d}
    BY DEF TitlesOf, y, n
  <2> HIDE DEF T, new
  <2> QED BY <2>4, <2>6, <2>7, <2>8
<1>6. TitlesOf(ch) = IF text[c].titled THEN {c} ELSE {}
  BY RunTitle
<1>7. ch.title = IF text[c].titled THEN c ELSE None
  BY DEF TitleOf
<1>8. None \notin T
  <2>1. None \notin Nat
    BY DEF ChunkingAssumption
  <2> QED BY <1>4, <2>1
<1>9. /\ T = {} => row.title = None
      /\ T # {} => row.title \in T /\ \A d \in T : row.title <= d
  BY DEF TitleFits
<1> HIDE DEF T, c, new
<1>10. CASE T = {}
  <2>1. new.title = ch.title /\ TitlesOf(new) = TitlesOf(ch)
    BY <1>3, <1>5, <1>9, <1>10
  <2>2. c <= c
    BY <1>2
  <2> QED BY <1>6, <1>7, <2>1, <2>2 DEF TitleFits, new
<1>11. CASE T # {}
  <2>1. new.title = row.title /\ row.title \in T /\ row.title \in Nat /\ row.title <= c
    BY <1>3, <1>4, <1>8, <1>9, <1>11
  <2>2. \A d \in TitlesOf(new) : new.title <= d
    BY <1>5, <1>6, <1>9, <1>11, <2>1
  <2>3. new.title \in TitlesOf(new) /\ TitlesOf(new) # {}
    BY <1>5, <2>1
  <2> QED BY <2>2, <2>3 DEF TitleFits, new
<1> QED BY <1>10, <1>11

\* What the rows are at any round of the loop, and so at its end.
RowsAre(all, done, k) ==
    /\ FromChunks(all, done, k) /\ HasChunks(all, done, k) /\ Sorted(done)
    /\ \A i \in 1 .. Len(done) : TitleFits(done[i]) /\ (i > 1 => done[i].length >= SmallTail)

LEMMA JoinKeeps ==
    ASSUME ChunkingAssumption, text \in Texts, NEW all \in Seq(Chunk), NEW k \in 1 .. Len(all),
           \A j \in 1 .. Len(all) : IsRun(all[j]) /\ all[j].title = TitleOf(ClauseOf(all[j])),
           \A i, j \in 1 .. Len(all) : i < j => Apart(all[i], all[j]),
           NEW done \in Seq(Chunk), RowsAre(all, done, k - 1)
    PROVE  RowsAre(all, JoinNext(all, k, done), k)
<1> DEFINE new == JoinNext(all, k, done)
           ch == all[k]
<1>1. PICK e, off :
         /\ Grows(done, new, ch, e, off)
         /\ \/ /\ Len(done) = e - 1 /\ new[e] = ch
               /\ done # <<>> => ch.length >= SmallTail
            \/ Len(done) = e /\ new[e] = Joined(done[e], ch)
  BY JoinGrows
<1>2. FromChunks(all, done, k - 1) /\ HasChunks(all, done, k - 1) /\ Sorted(done)
  BY DEF RowsAre
<1> HIDE DEF new
<1>3. FromChunks(all, new, k)
  BY <1>1, <1>2, JoinFrom
<1>4. HasChunks(all, new, k)
  BY <1>1, <1>2, JoinHas
<1>5. Sorted(new)
  BY <1>1, <1>2, JoinSorted
<1>6. IsRun(ch) /\ ch.title = TitleOf(ClauseOf(ch)) /\ ch \in Chunk /\ ch.length \in Nat
  BY ChunkIs
<1>7. /\ Len(new) = e /\ e \in Nat \ {0} /\ Len(done) \in Nat
      /\ \A i \in 1 .. e - 1 : new[i] = done[i]
  BY <1>1 DEF Grows
<1>8. SmallTail \in Nat
  BY DEF ChunkingAssumption
<1>9. ASSUME NEW i \in 1 .. Len(new)
      PROVE  TitleFits(new[i]) /\ (i > 1 => new[i].length >= SmallTail)
  <2>1. CASE i < e
    <3>1. i \in 1 .. e - 1 /\ i \in 1 .. Len(done)
      <4>1. Len(done) = e - 1 \/ Len(done) = e
        BY <1>1
      <4> QED BY <1>7, <2>1, <4>1
    <3> QED BY <1>7, <3>1 DEF RowsAre
  <2>2. CASE i = e /\ Len(done) = e - 1
    <3>1. new[i] = ch
      BY <1>1, <1>7, <2>2
    <3>2. TitleFits(ch)
      BY <1>6, ChunkTitle
    <3>3. i > 1 => done # <<>>
      BY <1>7, <2>2
    <3>4. i > 1 => ch.length >= SmallTail
      BY <1>1, <1>7, <2>2, <3>3
    <3> QED BY <3>1, <3>2, <3>4
  <2>3. CASE i = e /\ Len(done) = e
    <3> DEFINE row == done[e]
    <3>1. new[i] = Joined(row, ch)
      BY <1>1, <1>7, <2>3
    <3>2. e \in 1 .. Len(done)
      BY <1>7, <2>3
    <3>3. row \in Chunk /\ row.length \in Nat /\ TitleFits(row) /\ (e > 1 => row.length >= SmallTail)
      BY <3>2, ChunkIs DEF RowsAre
    <3>4. \A m \in 1 .. Len(row.sentences), n \in 1 .. Len(ch.sentences) :
             Before(row.sentences[m], ch.sentences[n])
      BY <1>2, <3>2, RowsFirst
    <3> HIDE DEF row, ch
    <3>5. TitleFits(Joined(row, ch))
      BY <1>6, <3>3, <3>4, JoinedTitle
    <3>6. Joined(row, ch).length = row.length + ch.length
      BY DEF Joined
    <3>7. i > 1 => Joined(row, ch).length >= SmallTail
      BY <1>6, <1>8, <2>3, <3>3, <3>6
    <3> QED BY <3>1, <3>5, <3>7
  <2> QED BY <1>1, <1>7, <2>1, <2>2, <2>3
<1>10. RowsAre(all, new, k)
  BY <1>3, <1>4, <1>5, <1>9 DEF RowsAre
<1> QED BY <1>10 DEF new

LEMMA RowsOfChunks ==
    ASSUME ChunkingAssumption, text \in Texts, NEW all \in Seq(Chunk), NEW cl, ChunksAre(all, cl)
    PROVE  MergeSmallTails(all) \in Seq(Chunk) /\ RowsAre(all, MergeSmallTails(all), Len(all))
<1> DEFINE n == Len(all)
<1>1. PICK F \in [0 .. n -> Seq(Chunk)] :
         /\ F[0] = <<>>
         /\ \A k \in 1 .. n : F[k] = JoinNext(all, k, F[k - 1])
         /\ MergeSmallTails(all) = F[n]
  BY JoinIs
<1>2. n \in Nat
  OBVIOUS
<1>3. \A j \in 1 .. n : IsRun(all[j]) /\ all[j].title = TitleOf(ClauseOf(all[j]))
  BY DEF ChunksAre
<1>4. \A i, j \in 1 .. n : i < j => Apart(all[i], all[j])
  BY InOrder
<1> DEFINE P == {k \in 0 .. n : RowsAre(all, F[k], k)}
<1>5. 0 \in P
  <2>1. Len(<<>>) = 0 /\ 1 .. 0 = {} /\ 0 \in 0 .. n
    BY <1>2
  <2>2. RowsAre(all, <<>>, 0)
    BY <2>1 DEF RowsAre, FromChunks, HasChunks, Sorted
  <2> QED BY <1>1, <2>1, <2>2
<1>6. ASSUME NEW k \in 1 .. n, k - 1 \in P
      PROVE  k \in P
  <2>1. k - 1 \in 0 .. n /\ k \in 0 .. n
    BY <1>2
  <2>2. F[k - 1] \in Seq(Chunk) /\ RowsAre(all, F[k - 1], k - 1) /\ F[k] = JoinNext(all, k, F[k - 1])
    BY <1>1, <1>6, <2>1
  <2>3. RowsAre(all, JoinNext(all, k, F[k - 1]), k)
    BY <1>3, <1>4, <2>2, JoinKeeps
  <2> QED BY <2>1, <2>2, <2>3
<1>7. n \in P
  <2> HIDE DEF P, n
  <2>1. 0 .. n \subseteq P
    BY <1>2, <1>5, <1>6, UpTo
  <2> QED BY <1>2, <2>1
<1>8. F[n] \in Seq(Chunk)
  BY <1>1, <1>2
<1> QED BY <1>1, <1>7, <1>8

-----------------------------------------------------------------------------
(* What no chunk has was cut off.                                           *)

InNone(all, s) == \A j \in 1 .. Len(all) : \A n \in 1 .. Len(all[j].sentences) :
                      all[j].sentences[n] # s

LEMMA Gap ==
    ASSUME ChunkingAssumption, text \in Texts, NEW all \in Seq(Chunk),
           ChunksAre(all, Len(text) + 1), NEW s \in Sentence, InNone(all, s)
    PROVE  \E j \in 1 .. Len(all) : \E b \in s[2] .. Count(s[1]) :
              /\ ClauseOf(all[j]) = s[1] /\ End(all[j]) < s[2] /\ TooLong(all[j], b)
              /\ \A e \in End(all[j]) + 1 .. b : InNone(all, <<s[1], e>>)
<1> DEFINE n == Len(all)
           c == s[1]
           m == s[2]
           J == {j \in 1 .. n : ClauseOf(all[j]) < c \/ (ClauseOf(all[j]) = c /\ First(all[j]) <= m)}
           j == Max(J)
<1>1. /\ s = <<c, m>> /\ c \in Clause /\ m \in 1 .. Count(c) /\ c \in 1 .. Len(text)
      /\ Len(text) \in Nat \ {0} /\ Count(c) \in Nat
  <2>1. s = <<c, m>> /\ c \in Clause /\ m \in 1 .. Count(c)
    BY SentenceIs
  <2> QED BY <2>1, TextIs
<1>2. c \in Nat \ {0} /\ m \in Nat \ {0}
  BY <1>1
<1> HIDE DEF c, m
<1>3. n \in Nat
  OBVIOUS
<1>4. \A i \in 1 .. n : IsRun(all[i])
  BY DEF ChunksAre
<1>5. \A i \in 1 .. n - 1 : Follows(all[i], all[i + 1])
  BY DEF ChunksAre
<1>6. \A i, k \in 1 .. n : i < k => Apart(all[i], all[k])
  BY InOrder
<1>7. /\ 1 \in 1 .. n /\ n \in 1 .. n /\ ClauseOf(all[1]) = 1 /\ First(all[1]) = 1
      /\ ClauseOf(all[n]) = Len(text) /\ Ends(all[n])
  <2>1. Len(text) + 1 > 1 /\ (Len(text) + 1) - 1 = Len(text)
    BY <1>1
  <2>2. all # <<>>
    BY <2>1 DEF ChunksAre
  <2>3. 1 \in 1 .. n /\ n \in 1 .. n
    BY <2>2
  <2> QED BY <2>1, <2>3 DEF ChunksAre
<1> HIDE DEF n
<1>8. ASSUME NEW i \in 1 .. n
      PROVE  /\ ClauseOf(all[i]) \in Nat /\ First(all[i]) \in Nat /\ End(all[i]) \in Nat
             /\ First(all[i]) <= End(all[i]) /\ End(all[i]) <= Count(ClauseOf(all[i]))
             /\ Count(ClauseOf(all[i])) \in Nat
  BY <1>4, RunHas
<1>9. j \in J /\ \A i \in J : i <= j
  <2>1. 1 \in J
    BY <1>2, <1>7
  <2>2. J \in SUBSET (1 .. n)
    OBVIOUS
  <2> HIDE DEF J
  <2>3. Max(J) \in J /\ \A i \in J : Max(J) >= i
    BY <1>3, <2>1, <2>2, Bounds
  <2>4. \A i \in J : i \in Nat
    BY <1>3, <2>2
  <2> QED BY <2>3, <2>4
<1>10. /\ j \in 1 .. n
       /\ ClauseOf(all[j]) < c \/ (ClauseOf(all[j]) = c /\ First(all[j]) <= m)
  BY <1>9
<1>11. \A i \in 1 .. n : i > j => i \notin J
  <2>1. \A i \in 1 .. n : i > j => ~(i <= j)
    BY <1>3, <1>10
  <2> QED BY <1>9, <2>1
<1>12. ASSUME NEW i \in 1 .. n, i > j
       PROVE  ClauseOf(all[i]) > c \/ (ClauseOf(all[i]) = c /\ First(all[i]) > m)
  <2>1. ~(ClauseOf(all[i]) < c \/ (ClauseOf(all[i]) = c /\ First(all[i]) <= m))
    BY <1>11, <1>12
  <2> QED BY <1>2, <1>8, <2>1
<1> HIDE DEF J, j
<1>13. ASSUME j < n
       PROVE  /\ j + 1 \in 1 .. n /\ j \in 1 .. n - 1 /\ Follows(all[j], all[j + 1])
              /\ ClauseOf(all[j + 1]) > c \/ (ClauseOf(all[j + 1]) = c /\ First(all[j + 1]) > m)
  <2>1. j + 1 \in 1 .. n /\ j \in 1 .. n - 1 /\ j + 1 > j
    BY <1>3, <1>10, <1>13
  <2> QED BY <1>5, <1>12, <2>1
<1>14. j < n \/ j = n
  BY <1>3, <1>10
<1>15. ClauseOf(all[j]) = c /\ First(all[j]) <= m
  <2> SUFFICES ASSUME ClauseOf(all[j]) < c
               PROVE  FALSE
    BY <1>10
  <2>1. CASE j = n
    BY <1>1, <1>7, <2>1
  <2>2. CASE j < n
    <3>1. \/ ClauseOf(all[j + 1]) = ClauseOf(all[j])
          \/ ClauseOf(all[j + 1]) = ClauseOf(all[j]) + 1 /\ First(all[j + 1]) = 1
      BY <1>13, <2>2 DEF Follows
    <3> QED BY <1>2, <1>8, <1>10, <1>13, <2>2, <3>1
  <2> QED BY <1>14, <2>1, <2>2
<1>16. End(all[j]) < m
  <2> SUFFICES ASSUME ~(End(all[j]) < m)
               PROVE  FALSE
    OBVIOUS
  <2>1. m \in First(all[j]) .. End(all[j])
    BY <1>2, <1>8, <1>10, <1>15
  <2>2. \E i \in 1 .. Len(all[j].sentences) : all[j].sentences[i] = <<c, m>>
    BY <1>4, <1>10, <1>15, <2>1, RunHas
  <2> QED BY <1>1, <1>10, <2>2 DEF InNone, n
<1>17. \E b \in m .. Count(c) :
          /\ TooLong(all[j], b)
          /\ \A i \in 1 .. n : i > j => ClauseOf(all[i]) > c
                                     \/ (ClauseOf(all[i]) = c /\ First(all[i]) > b)
  <2>1. CASE Ends(all[j])
          /\ \A i \in 1 .. n : i > j => ClauseOf(all[i]) > c
    <3>1. m \in 1 .. Count(c) /\ Count(c) \in m .. Count(c) /\ End(all[j]) < Count(c)
      BY <1>1, <1>8, <1>10, <1>15, <1>16 DEF c, m
    <3>2. TooLong(all[j], Count(c))
      BY <1>15, <2>1, <3>1 DEF Ends
    <3> QED BY <2>1, <3>1, <3>2
  <2>2. CASE j = n
    <3>1. \A i \in 1 .. n : ~(i > j)
      BY <1>3, <2>2
    <3> QED BY <1>7, <2>1, <2>2, <3>1
  <2>3. CASE j < n /\ ClauseOf(all[j + 1]) = c
    <3> DEFINE b == First(all[j + 1]) - 1
    <3>1. First(all[j + 1]) > m
      BY <1>2, <1>13, <2>3
    <3>2. /\ First(all[j + 1]) \in Nat /\ First(all[j + 1]) <= Count(c) /\ Count(c) \in Nat
      BY <1>8, <1>13, <2>3
    <3>3. b \in m .. Count(c) /\ End(all[j]) + 1 < First(all[j + 1])
      BY <1>2, <1>8, <1>10, <1>16, <3>1, <3>2
    <3>4. TooLong(all[j], b)
      <4>1. ~(ClauseOf(all[j + 1]) = ClauseOf(all[j]) + 1)
        BY <1>2, <1>15, <2>3
      <4> QED BY <1>13, <1>15, <2>3, <3>3, <4>1 DEF Follows
    <3>5. ASSUME NEW i \in 1 .. n, i > j
          PROVE  ClauseOf(all[i]) > c \/ (ClauseOf(all[i]) = c /\ First(all[i]) > b)
      <4>1. CASE i = j + 1
        BY <2>3, <3>2, <4>1
      <4>2. CASE i > j + 1
        <5>1. Apart(all[j + 1], all[i])
          BY <1>6, <1>13, <2>3, <4>2
        <5>2. /\ j + 1 \in 1 .. n /\ ClauseOf(all[j + 1]) = c
              /\ First(all[j + 1]) <= End(all[j + 1]) /\ End(all[j + 1]) \in Nat
              /\ First(all[i]) \in Nat /\ ClauseOf(all[i]) \in Nat
          BY <1>8, <1>13, <2>3
        <5> QED BY <1>2, <3>2, <5>1, <5>2 DEF Apart
      <4>3. i = j + 1 \/ i > j + 1
        BY <1>3, <1>10, <3>5
      <4> QED BY <4>1, <4>2, <4>3
    <3> QED BY <3>3, <3>4, <3>5
  <2>4. CASE j < n /\ ClauseOf(all[j + 1]) # c
    <3>1. ClauseOf(all[j + 1]) = ClauseOf(all[j]) + 1 /\ Ends(all[j])
      BY <1>13, <1>15, <2>4 DEF Follows
    <3>2. ASSUME NEW i \in 1 .. n, i > j
          PROVE  ClauseOf(all[i]) > c
      <4>1. CASE i = j + 1
        BY <1>2, <1>15, <3>1, <4>1
      <4>2. CASE i > j + 1
        <5>1. Apart(all[j + 1], all[i])
          BY <1>6, <1>13, <2>4, <4>2
        <5> QED BY <1>2, <1>8, <1>13, <1>15, <2>4, <3>1, <5>1 DEF Apart
      <4>3. i = j + 1 \/ i > j + 1
        BY <1>3, <1>10, <3>2
      <4> QED BY <4>1, <4>2, <4>3
    <3> QED BY <2>1, <3>1, <3>2
  <2> QED BY <1>14, <2>2, <2>3, <2>4
<1>18. PICK b \in m .. Count(c) :
          /\ TooLong(all[j], b)
          /\ \A i \in 1 .. n : i > j => ClauseOf(all[i]) > c
                                     \/ (ClauseOf(all[i]) = c /\ First(all[i]) > b)
  BY <1>17
<1>19. ASSUME NEW e \in End(all[j]) + 1 .. b, NEW i \in 1 .. n,
              NEW o \in 1 .. Len(all[i].sentences), all[i].sentences[o] = <<c, e>>
       PROVE  FALSE
  <2>1. ClauseOf(all[i]) = c /\ e \in First(all[i]) .. End(all[i])
    <3>1. all[i].sentences[o] = <<ClauseOf(all[i]), First(all[i]) + o - 1>>
          /\ First(all[i]) + o - 1 \in First(all[i]) .. End(all[i])
      BY <1>4, RunHas
    <3> QED BY <1>19, <3>1
  <2>2. e \in Nat /\ e > End(all[j]) /\ e <= b
    <3>1. b \in Nat
      BY <1>1, <1>2 DEF c
    <3> QED BY <1>8, <1>10, <3>1
  <2>3. CASE i > j
    <3>1. ClauseOf(all[i]) = c /\ First(all[i]) > b
      BY <1>2, <1>18, <2>1, <2>3
    <3>2. b \in Nat /\ First(all[i]) \in Nat /\ First(all[i]) <= e
      BY <1>1, <1>2, <1>8, <2>1 DEF c
    <3> QED BY <2>2, <3>1, <3>2
  <2>4. CASE i = j
    BY <1>8, <1>10, <2>1, <2>2, <2>4
  <2>5. CASE i < j
    <3>1. Apart(all[i], all[j])
      BY <1>6, <1>10, <2>5
    <3> QED BY <1>2, <1>8, <1>10, <1>15, <2>1, <2>2, <3>1 DEF Apart
  <2> QED BY <1>10, <2>3, <2>4, <2>5
<1>20. \A e \in End(all[j]) + 1 .. b : InNone(all, <<c, e>>)
  BY <1>19 DEF InNone, n
<1> QED BY <1>10, <1>15, <1>16, <1>18, <1>20 DEF n, c, m

-----------------------------------------------------------------------------
(* The rows tell the text.                                                  *)

\* TextIsKept and TitlesFit of any rows.
StoredIn(rws) == UNION {Range(rws[i].sentences) : i \in DOMAIN rws}
LostIn(rws) == Sentence \ StoredIn(rws)
KeptIn(rws) ==
    /\ \A i, j \in DOMAIN rws :
          \A m \in DOMAIN rws[i].sentences, n \in DOMAIN rws[j].sentences :
              i < j \/ (i = j /\ m < n) => Before(rws[i].sentences[m], rws[j].sentences[n])
    /\ \A s \in LostIn(rws) :
          \E i \in DOMAIN rws : \E n \in DOMAIN rws[i].sentences :
              LET kept == SubSeq(rws[i].sentences, 1, n)
                  last == rws[i].sentences[n]
              IN  /\ last[1] = s[1] /\ last[2] < s[2]
                  /\ 2 * LengthOf(kept) > ChunkMax
                  /\ \E to \in s[2] .. Count(s[1]) :
                        LET gap == Between(s[1], last[2] + 1, to)
                        IN  /\ Range(gap) \subseteq LostIn(rws)
                            /\ LengthOf(kept) + LengthOf(gap) > ChunkMax
                            /\ s[2] \in text[s[1]].ends => to = s[2]
TitlesIn(rws) ==
    \A i \in DOMAIN rws :
        LET titles == {c \in Clause : text[c].titled /\ \E n \in DOMAIN rws[i].sentences :
                                              rws[i].sentences[n][1] = c}
        IN  /\ WholeText >= ShortText =>
                 rws[i].title = IF titles = {} THEN None
                                ELSE CHOOSE c \in titles : \A d \in titles : c <= d
            /\ i > 1 => rws[i].length >= SmallTail

LEMMA TellAre ==
    /\ ChunksTell <=> (rows # None => KeptIn(rows) /\ TitlesIn(rows))
    /\ text' = text => (ChunksTell' <=> (rows' # None => KeptIn(rows') /\ TitlesIn(rows')))
<1>1. TextIsKept <=> KeptIn(rows)
  BY DEF TextIsKept, Lost, Stored, KeptIn, LostIn, StoredIn
<1>2. TitlesFit <=> TitlesIn(rows)
  BY DEF TitlesFit, TitlesIn
<1>3. SUFFICES ASSUME text' = text
               PROVE  (TextIsKept' <=> KeptIn(rows')) /\ (TitlesFit' <=> TitlesIn(rows'))
  BY <1>1, <1>2 DEF ChunksTell
<1>4. TextIsKept' <=> KeptIn(rows')
  BY <1>3 DEF TextIsKept, Lost, Stored, KeptIn, LostIn, StoredIn, Sentence, Clause, LengthOf,
     Between, Count
<1>5. TitlesFit' <=> TitlesIn(rows')
  BY <1>3 DEF TitlesFit, TitlesIn, Clause, WholeText, LengthOf, SentencesOf, Between, Count
<1> QED BY <1>4, <1>5

LEMMA SortedIs ==
    ASSUME NEW rws \in Seq(Chunk), Sorted(rws)
    PROVE  \A i, j \in DOMAIN rws :
               \A m \in DOMAIN rws[i].sentences, n \in DOMAIN rws[j].sentences :
                   i < j \/ (i = j /\ m < n) => Before(rws[i].sentences[m], rws[j].sentences[n])
<1>1. DOMAIN rws = 1 .. Len(rws)
  OBVIOUS
<1>2. \A i \in 1 .. Len(rws) : DOMAIN rws[i].sentences = 1 .. Len(rws[i].sentences)
  BY ChunkIs
<1> QED BY <1>1, <1>2 DEF Sorted

LEMMA StoredIs ==
    ASSUME NEW rws \in Seq(Chunk), NEW s
    PROVE  s \in StoredIn(rws) <=>
              \E i \in 1 .. Len(rws) : \E n \in 1 .. Len(rws[i].sentences) : rws[i].sentences[n] = s
<1>1. DOMAIN rws = 1 .. Len(rws)
  OBVIOUS
<1>2. \A i \in 1 .. Len(rws) : DOMAIN rws[i].sentences = 1 .. Len(rws[i].sentences)
  BY ChunkIs
<1> QED BY <1>1, <1>2 DEF StoredIn, Range

LEMMA TitlesHold ==
    ASSUME ChunkingAssumption, text \in Texts, NEW rws \in Seq(Chunk),
           \A i \in 1 .. Len(rws) : /\ WholeText >= ShortText => TitleFits(rws[i])
                                    /\ i > 1 => rws[i].length >= SmallTail
    PROVE  TitlesIn(rws)
<1>1. DOMAIN rws = 1 .. Len(rws)
  OBVIOUS
<1> SUFFICES ASSUME NEW i \in 1 .. Len(rws), WholeText >= ShortText
             PROVE  LET titles == {c \in Clause : text[c].titled /\
                                      \E n \in DOMAIN rws[i].sentences : rws[i].sentences[n][1] = c}
                    IN  rws[i].title = IF titles = {} THEN None
                                       ELSE CHOOSE c \in titles : \A d \in titles : c <= d
  BY <1>1 DEF TitlesIn
<1> DEFINE T == TitlesOf(rws[i])
           x == rws[i].title
<1>2. T = {c \in Clause : text[c].titled /\
              \E n \in DOMAIN rws[i].sentences : rws[i].sentences[n][1] = c}
  BY ChunkIs DEF TitlesOf
<1>3. /\ T = {} => x = None
      /\ T # {} => x \in T /\ \A d \in T : x <= d
  BY DEF TitleFits
<1>4. \A d \in T : d \in Nat
  <2>1. \A d \in T : d \in Clause
    BY DEF TitlesOf
  <2> QED BY <2>1, TextIs
<1> HIDE DEF T, x
<1>5. ASSUME T # {}
      PROVE  x = CHOOSE c \in T : \A d \in T : c <= d
  <2>1. x \in T /\ \A d \in T : x <= d
    BY <1>3, <1>5
  <2>2. \A c \in T : (\A d \in T : c <= d) => c = x
    <3> TAKE c \in T
    <3>1. c \in Nat /\ x \in Nat /\ x <= c
      BY <1>4, <2>1
    <3>2. (\A d \in T : c <= d) => c <= x
      BY <2>1
    <3> QED BY <3>1, <3>2
  <2> QED BY <2>1, <2>2
<1>6. x = IF T = {} THEN None ELSE CHOOSE c \in T : \A d \in T : c <= d
  BY <1>3, <1>5
<1> QED BY <1>2, <1>6 DEF x

\* What the chunks have is in the rows, and what they lost was cut off.
LEMMA StoredTells ==
    ASSUME ChunkingAssumption, text \in Texts, NEW all \in Seq(Chunk),
           ChunksAre(all, Len(text) + 1)
    PROVE  KeptIn(MergeSmallTails(all)) /\ TitlesIn(MergeSmallTails(all))
<1> DEFINE rws == MergeSmallTails(all)
<1>1. rws \in Seq(Chunk) /\ RowsAre(all, rws, Len(all))
  BY RowsOfChunks
<1> HIDE DEF rws
<1>2. FromChunks(all, rws, Len(all)) /\ HasChunks(all, rws, Len(all)) /\ Sorted(rws)
  BY <1>1 DEF RowsAre
<1>3. TitlesIn(rws)
  BY <1>1, TitlesHold DEF RowsAre
<1>4. DOMAIN rws = 1 .. Len(rws)
  BY <1>1
<1>5. ASSUME NEW s \in Sentence
      PROVE  s \in LostIn(rws) <=> InNone(all, s)
  <2>1. ASSUME InNone(all, s), s \in StoredIn(rws)
        PROVE  FALSE
    <3>1. PICK i \in 1 .. Len(rws) :
             \E n \in 1 .. Len(rws[i].sentences) : rws[i].sentences[n] = s
      BY <1>1, <2>1, StoredIs
    <3>2. PICK n \in 1 .. Len(rws[i].sentences) : rws[i].sentences[n] = s
      BY <3>1
    <3> QED BY <1>2, <2>1, <3>2 DEF FromChunks, InNone
  <2>2. ASSUME NEW j \in 1 .. Len(all), NEW n \in 1 .. Len(all[j].sentences),
               all[j].sentences[n] = s
        PROVE  s \in StoredIn(rws)
    <3>1. PICK i \in 1 .. Len(rws), off \in Nat : Has(rws[i], all[j], off)
      BY <1>2 DEF HasChunks
    <3>2. Len(all[j].sentences) \in Nat /\ Len(rws[i].sentences) \in Nat
      BY <1>1, ChunkIs
    <3>3. off + n \in 1 .. Len(rws[i].sentences)
      BY <3>1, <3>2 DEF Has
    <3>4. rws[i].sentences[off + n] = s
      BY <2>2, <3>1 DEF Has
    <3> QED BY <1>1, <3>3, <3>4, StoredIs
  <2> QED BY <2>1, <2>2 DEF LostIn, InNone
<1>6. ASSUME NEW s \in LostIn(rws)
      PROVE  \E i \in DOMAIN rws : \E n \in DOMAIN rws[i].sentences :
                LET kept == SubSeq(rws[i].sentences, 1, n)
                    last == rws[i].sentences[n]
                IN  /\ last[1] = s[1] /\ last[2] < s[2]
                    /\ 2 * LengthOf(kept) > ChunkMax
                    /\ \E to \in s[2] .. Count(s[1]) :
                          LET gap == Between(s[1], last[2] + 1, to)
                          IN  /\ Range(gap) \subseteq LostIn(rws)
                              /\ LengthOf(kept) + LengthOf(gap) > ChunkMax
                              /\ s[2] \in text[s[1]].ends => to = s[2]
  <2>1. s \in Sentence /\ InNone(all, s)
    BY <1>5 DEF LostIn
  <2>2. PICK j \in 1 .. Len(all) : \E b \in s[2] .. Count(s[1]) :
           /\ ClauseOf(all[j]) = s[1] /\ End(all[j]) < s[2] /\ TooLong(all[j], b)
           /\ \A e \in End(all[j]) + 1 .. b : InNone(all, <<s[1], e>>)
    BY <2>1, Gap
  <2> DEFINE ch == all[j]
             c == ClauseOf(ch)
             e == End(ch)
             h == Len(ch.sentences)
  <2>3. IsRun(ch)
    BY DEF ChunksAre
  <2>4. /\ c \in Clause /\ e \in Nat /\ First(ch) \in Nat \ {0} /\ First(ch) <= e
        /\ ch.sentences \in Seq(Sentence) /\ h = e + 1 - First(ch)
        /\ \A n \in 1 .. h : ch.sentences[n] = <<c, First(ch) + n - 1>>
    BY <2>3, RunHas
  <2>5. s = <<c, s[2]>> /\ s[2] \in 1 .. Count(c) /\ Count(c) \in Nat
    <3>1. s = <<s[1], s[2]>> /\ s[1] \in Clause /\ s[2] \in 1 .. Count(s[1])
      BY <2>1, SentenceIs
    <3>2. Count(s[1]) \in Nat
      BY <3>1, TextIs
    <3> QED BY <2>2, <3>1, <3>2
  <2>6. PICK i \in 1 .. Len(rws), off \in Nat : Has(rws[i], ch, off)
    BY <1>2 DEF HasChunks
  <2> DEFINE n == off + h
             x == rws[i].sentences
             kept == SubSeq(x, 1, n)
  <2>7. h \in 1 .. h /\ h \in Nat /\ First(ch) + h - 1 = e
    <3> HIDE DEF h, e
    <3> QED BY <2>4
  <2>8. x \in Seq(Sentence) /\ Len(x) \in Nat /\ DOMAIN x = 1 .. Len(x)
    BY <1>1, ChunkIs
  <2>9. ch.sentences[h] = <<c, e>>
    BY <2>4, <2>7
  <2>10. /\ n <= Len(x) /\ x[n] = ch.sentences[h]
         /\ LengthOf(kept) >= LengthOf(ch.sentences)
    BY <2>6, <2>7 DEF Has
  <2>11. PICK b \in s[2] .. Count(s[1]) :
            /\ ClauseOf(all[j]) = s[1] /\ End(all[j]) < s[2] /\ TooLong(all[j], b)
            /\ \A k \in End(all[j]) + 1 .. b : InNone(all, <<s[1], k>>)
    BY <2>2
  <2>12. /\ 2 * LengthOf(ch.sentences) > ChunkMax
         /\ \A k \in e + 1 .. b : \E to \in k .. b :
               /\ LengthOf(ch.sentences) + LengthOf(Between(c, e + 1, to)) > ChunkMax
               /\ k \in text[c].ends => to = k
    BY <2>11 DEF TooLong
  <2>13. s[1] = c /\ e < s[2] /\ b \in s[2] .. Count(c)
    BY <2>11
  <2> HIDE DEF ch, c, e, h, x
  <2>14. n \in 1 .. Len(x)
    BY <2>7, <2>8, <2>10
  <2>15. kept \in Seq(Sentence)
    <3>1. \A m \in 1 .. n : m \in 1 .. Len(x) /\ x[m] \in Sentence
      BY <2>8, <2>14
    <3>2. 1 \in Int /\ n \in Int
      BY <2>8, <2>14
    <3> HIDE DEF n
    <3> QED BY <3>1, <3>2, SubSeqProperties
  <2>16. x[n] = <<c, e>> /\ x[n][1] = s[1] /\ x[n][2] = e
    BY <2>9, <2>10, <2>13
  <2> HIDE DEF n, kept
  <2>17. /\ s[2] \in Nat /\ b \in Nat /\ s[2] \in e + 1 .. b /\ e + 1 \in Nat \ {0}
    BY <2>4, <2>5, <2>13
  <2>18. PICK to \in s[2] .. b :
            /\ LengthOf(ch.sentences) + LengthOf(Between(c, e + 1, to)) > ChunkMax
            /\ s[2] \in text[c].ends => to = s[2]
    BY <2>12, <2>17
  <2> DEFINE gap == Between(c, e + 1, to)
  <2>19. /\ to \in Nat /\ to \in s[2] .. Count(c) /\ to \in 0 .. Count(c)
         /\ e + 1 <= to + 1 /\ to <= b
    BY <2>5, <2>17, <2>13
  <2>20. /\ gap \in Seq(Sentence) /\ Len(gap) = to + 1 - (e + 1)
         /\ \A k \in 1 .. to + 1 - (e + 1) : gap[k] = <<c, (e + 1) + k - 1>>
    BY <2>4, <2>17, <2>19, RunIs
  <2>21. ASSUME NEW k \in 1 .. to + 1 - (e + 1)
         PROVE  <<c, (e + 1) + k - 1>> \in LostIn(rws)
    <3> DEFINE m == (e + 1) + k - 1
    <3>1. /\ e \in Nat /\ to \in Nat /\ b \in Nat /\ Count(c) \in Nat
          /\ to <= b /\ to <= Count(c)
      BY <2>4, <2>5, <2>17, <2>19
    <3>2. m \in e + 1 .. b /\ m \in 1 .. Count(c)
      BY <3>1
    <3> HIDE DEF m
    <3>3. InNone(all, <<s[1], m>>)
      BY <2>11, <3>2 DEF e, ch
    <3>4. <<c, m>> \in Sentence
      BY <2>4, <3>2, SentenceIs
    <3>5. <<c, m>> \in LostIn(rws)
      BY <1>5, <2>13, <3>3, <3>4
    <3> QED BY <3>5 DEF m
  <2>22. Range(gap) \subseteq LostIn(rws)
    <3> HIDE DEF gap
    <3>1. DOMAIN gap = 1 .. to + 1 - (e + 1)
      BY <2>20
    <3> QED BY <2>20, <2>21, <3>1 DEF Range
  <2>23. LengthOf(kept) + LengthOf(gap) > ChunkMax /\ 2 * LengthOf(kept) > ChunkMax
    <3> DEFINE u == LengthOf(ch.sentences)
               v == LengthOf(kept)
               z == LengthOf(gap)
    <3>1. u \in Nat /\ v \in Nat /\ z \in Nat /\ ChunkMax \in Nat /\ v >= u
      BY <2>4, <2>10, <2>15, <2>20, Lengths DEF ChunkingAssumption
    <3>2. u + z > ChunkMax /\ 2 * u > ChunkMax
      BY <2>12, <2>18
    <3> HIDE DEF u, v, z
    <3> QED BY <3>1, <3>2 DEF v, z
  <2> HIDE DEF gap
  <2>24. \E d \in s[2] .. Count(s[1]) :
            LET g == Between(s[1], x[n][2] + 1, d)
            IN  /\ Range(g) \subseteq LostIn(rws)
                /\ LengthOf(kept) + LengthOf(g) > ChunkMax
                /\ s[2] \in text[s[1]].ends => d = s[2]
    BY <2>16, <2>18, <2>19, <2>13, <2>22, <2>23 DEF gap
  <2>25. x[n][1] = s[1] /\ x[n][2] < s[2] /\ 2 * LengthOf(kept) > ChunkMax
    BY <2>16, <2>13, <2>23
  <2> QED BY <1>4, <2>6, <2>8, <2>14, <2>24, <2>25 DEF kept, x
<1>7. KeptIn(rws)
  <2>1. \A i, j \in DOMAIN rws :
           \A m \in DOMAIN rws[i].sentences, n \in DOMAIN rws[j].sentences :
               i < j \/ (i = j /\ m < n) => Before(rws[i].sentences[m], rws[j].sentences[n])
    BY <1>1, <1>2, SortedIs
  <2> QED BY <1>6, <2>1 DEF KeptIn
<1> QED BY <1>3, <1>7 DEF rws

-----------------------------------------------------------------------------
(* A short text, which is one chunk.                                        *)

\* The sentences of the first k clauses, in their order.
AllOf(q, k) ==
    /\ q \in Seq(Sentence)
    /\ \A m \in 1 .. Len(q) : q[m][1] <= k
    /\ \A m, n \in 1 .. Len(q) : m < n => Before(q[m], q[n])
    /\ \A c \in 1 .. k : \A i \in 1 .. Count(c) : \E m \in 1 .. Len(q) : q[m] = <<c, i>>

LEMMA AllMore ==
    ASSUME ChunkingAssumption, text \in Texts, NEW k \in Clause, NEW q, AllOf(q, k - 1)
    PROVE  AllOf(q \o SentencesOf(k), k)
<1> DEFINE r == SentencesOf(k)
           h == Len(q)
           d == Len(r)
           new == q \o r
<1>1. k \in Nat \ {0} /\ Count(k) \in Nat \ {0} /\ Clause = 1 .. Len(text)
  BY TextIs
<1>2. r \in Seq(Sentence) /\ d = Count(k) /\ \A i \in 1 .. d : r[i] = <<k, i>>
  <2>1. /\ r \in Seq(Sentence) /\ Len(r) = Count(k) + 1 - 1
        /\ \A i \in 1 .. Count(k) + 1 - 1 : r[i] = <<k, 1 + i - 1>>
    <3>1. 1 \in Nat \ {0} /\ Count(k) \in 0 .. Count(k) /\ 1 <= Count(k) + 1
      BY <1>1
    <3> QED BY <3>1, RunIs DEF SentencesOf
  <2>2. Count(k) + 1 - 1 = Count(k)
    BY <1>1
  <2>3. \A i \in 1 .. Count(k) : 1 + i - 1 = i
    BY <1>1
  <2> QED BY <2>1, <2>2, <2>3
<1>3. q \in Seq(Sentence) /\ h \in Nat /\ d \in Nat \ {0}
  BY <1>1, <1>2 DEF AllOf
<1> HIDE DEF r
<1>4. /\ new \in Seq(Sentence) /\ Len(new) = h + d
      /\ \A m \in 1 .. h : new[m] = q[m]
      /\ \A m \in h + 1 .. h + d : new[m] = r[m - h]
  <2>1. /\ q \o r \in Seq(Sentence) /\ Len(q \o r) = Len(q) + Len(r)
        /\ \A i \in 1 .. Len(q) + Len(r) : (q \o r)[i] =
                IF i <= Len(q) THEN q[i] ELSE r[i - Len(q)]
    BY ONLY <1>2, <1>3, ConcatProperties
  <2> QED BY <1>3, <2>1
<1> HIDE DEF h, d, new
<1>5. \A m \in h + 1 .. h + d : new[m] = <<k, m - h>>
  <2> TAKE m \in h + 1 .. h + d
  <2>1. m - h \in 1 .. d
    BY <1>3
  <2> QED BY <1>2, <1>4, <2>1
<1>6. \A m \in 1 .. h : q[m] \in Sentence /\ q[m][1] \in Nat /\ q[m][2] \in Nat /\ q[m][1] < k
  <2> TAKE m \in 1 .. h
  <2>1. q[m] \in Sentence /\ q[m][1] <= k - 1
    BY <1>3 DEF AllOf, h
  <2>2. q[m][1] \in Clause /\ q[m][2] \in 1 .. Count(q[m][1])
    BY <2>1, SentenceIs
  <2>3. q[m][1] \in Nat /\ q[m][2] \in Nat
    BY <1>1, <2>2, TextIs
  <2> QED BY <1>1, <2>1, <2>3
<1>7. \A m \in 1 .. h + d : new[m][1] <= k
  <2> TAKE m \in 1 .. h + d
  <2>1. CASE m \in 1 .. h
    BY <1>1, <1>4, <1>6, <2>1
  <2>2. CASE m \in h + 1 .. h + d
    BY <1>1, <1>5, <2>2
  <2> QED BY <1>3, <2>1, <2>2
<1>8. ASSUME NEW m \in 1 .. h + d, NEW n \in 1 .. h + d, m < n
      PROVE  Before(new[m], new[n])
  <2>1. CASE n \in 1 .. h
    <3>1. m \in 1 .. h
      BY <1>3, <1>8, <2>1
    <3> QED BY <1>4, <1>8, <2>1, <3>1 DEF AllOf, h
  <2>2. CASE m \in 1 .. h /\ n \in h + 1 .. h + d
    BY <1>1, <1>4, <1>5, <1>6, <2>2 DEF Before
  <2>3. CASE m \in h + 1 .. h + d /\ n \in h + 1 .. h + d
    <3>1. m - h < n - h
      BY <1>3, <1>8
    <3>2. new[m] = <<k, m - h>> /\ new[n] = <<k, n - h>>
      BY <1>5, <2>3
    <3> QED BY <3>1, <3>2 DEF Before
  <2> QED BY <1>3, <1>8, <2>1, <2>2, <2>3
<1>9. ASSUME NEW c \in 1 .. k, NEW i \in 1 .. Count(c)
      PROVE  \E m \in 1 .. h + d : new[m] = <<c, i>>
  <2>1. CASE c = k
    <3>1. h + i \in h + 1 .. h + d /\ h + i \in 1 .. h + d /\ (h + i) - h = i
      BY <1>2, <1>3, <1>9, <2>1 DEF d
    <3> QED BY <1>5, <2>1, <3>1
  <2>2. CASE c # k
    <3>1. c \in 1 .. k - 1
      BY <1>1, <2>2
    <3>2. PICK m \in 1 .. h : q[m] = <<c, i>>
      BY <3>1 DEF AllOf, h
    <3>3. m \in 1 .. h + d
      BY <1>3
    <3> QED BY <1>4, <3>2, <3>3
  <2> QED BY <2>1, <2>2
<1> QED BY <1>4, <1>7, <1>8, <1>9 DEF AllOf, new, r

LEMMA AllSentencesAre ==
    ASSUME ChunkingAssumption, text \in Texts
    PROVE  AllOf(AllSentences, Len(text))
<1> DEFINE n == Len(text)
           clauses == [c \in Clause |-> c]
<1>1. n \in Nat \ {0} /\ Clause = 1 .. n
  BY TextIs
<1>2. clauses \in Seq(Clause) /\ Len(clauses) = n /\ \A k \in 1 .. n : clauses[k] = k
  BY <1>1
<1>3. PICK F \in [0 .. n -> Seq(Sentence)] :
         /\ F[0] = <<>>
         /\ \A k \in 1 .. n : F[k] = AllNext(clauses, k, F[k - 1])
         /\ AllSentences = F[n]
  <2>1. \A cs \in Seq(Clause) : cs = [c \in Clause |-> c] =>
           \E F \in [0 .. Len(cs) -> Seq(Sentence)] :
              /\ F[0] = <<>>
              /\ \A k \in 1 .. Len(cs) : F[k] = AllNext(cs, k, F[k - 1])
              /\ AllSentences = F[Len(cs)]
    BY AllIs
  <2> HIDE DEF clauses
  <2>2. clauses = [c \in Clause |-> c]
    BY DEF clauses
  <2> QED BY <1>2, <2>1, <2>2
<1> HIDE DEF n, clauses
<1> DEFINE P == {k \in 0 .. n : AllOf(F[k], k)}
<1>4. 0 \in P
  <2>1. F[0] \in Seq(Sentence) /\ Len(F[0]) = 0
    BY <1>3
  <2>2. 1 .. 0 = {} /\ 0 \in 0 .. n
    BY <1>1
  <2> QED BY <2>1, <2>2 DEF AllOf
<1>5. ASSUME NEW k \in 1 .. n, k - 1 \in P
      PROVE  k \in P
  <2>1. AllOf(F[k - 1], k - 1) /\ k \in Clause /\ k \in 0 .. n
    BY <1>1, <1>5
  <2>2. F[k] = F[k - 1] \o SentencesOf(k)
    BY <1>2, <1>3 DEF AllNext
  <2> QED BY <2>1, <2>2, AllMore
<1>6. P = 0 .. n
  <2> HIDE DEF P
  <2>1. P \subseteq 0 .. n
    BY DEF P
  <2>2. 0 .. n \subseteq P
    BY <1>1, <1>4, <1>5, UpTo
  <2> QED BY <2>1, <2>2
<1>7. n \in P
  <2> HIDE DEF P
  <2>1. n \in 0 .. n
    BY <1>1
  <2> QED BY <1>6, <2>1
<1> QED BY <1>3, <1>7 DEF n

LEMMA WholeIs ==
    ASSUME ChunkingAssumption, text \in Texts
    PROVE  WholeText \in Nat
<1> DEFINE sizes == [c \in Clause |-> LengthOf(SentencesOf(c))]
<1>1. \A c \in Clause : LengthOf(SentencesOf(c)) \in Nat
  <2> TAKE c \in Clause
  <2>1. 1 \in Nat \ {0} /\ Count(c) \in 0 .. Count(c) /\ 1 <= Count(c) + 1
    BY TextIs
  <2>2. SentencesOf(c) \in Seq(Sentence)
    BY <2>1, RunIs DEF SentencesOf
  <2> QED BY <2>2, Lengths
<1>2. Clause = 1 .. Len(text) /\ Len(text) \in Nat
  BY TextIs
<1>3. sizes \in Seq(Nat)
  BY <1>1, <1>2
<1> HIDE DEF sizes
<1>4. Total(sizes) \in Nat
  BY <1>3, TotalOfBoth
<1> QED BY <1>4 DEF WholeText, sizes

LEMMA WholeTells ==
    ASSUME ChunkingAssumption, text \in Texts, WholeText < ShortText,
           NEW rws, rws = Titled(<<Piece(AllSentences)>>, TitleOf(1))
    PROVE  rws \in Seq(Chunk) /\ KeptIn(rws) /\ TitlesIn(rws)
<1> DEFINE q == AllSentences
           ps == <<Piece(q)>>
<1>1. AllOf(q, Len(text)) /\ q \in Seq(Sentence)
  BY AllSentencesAre DEF AllOf
<1>2. /\ ps \in Seq(Rec) /\ Len(ps) = 1
      /\ ps[1].sentences = q
  BY <1>1, PieceIs
<1>3. TitleOf(1) \in {None} \cup Clause
  BY TextIs DEF TitleOf
<1> HIDE DEF q, ps
<1>4. rws \in Seq(Chunk) /\ Len(rws) = 1 /\ rws[1].sentences = q
  <2>1. rws = Titled(ps, TitleOf(1))
    BY DEF ps, q
  <2> QED BY <1>2, <1>3, <2>1, TitledIs
<1>5. Sorted(rws)
  BY <1>1, <1>4 DEF Sorted, AllOf
<1>6. LostIn(rws) = {}
  <2> SUFFICES ASSUME NEW s \in Sentence
               PROVE  s \in StoredIn(rws)
    BY DEF LostIn
  <2>1. s = <<s[1], s[2]>> /\ s[1] \in 1 .. Len(text) /\ s[2] \in 1 .. Count(s[1])
    BY SentenceIs, TextIs
  <2>2. PICK m \in 1 .. Len(q) : q[m] = s
    BY <1>1, <2>1 DEF AllOf
  <2> QED BY <1>4, <2>2, StoredIs
<1>7. KeptIn(rws)
  <2>1. \A i, j \in DOMAIN rws :
           \A m \in DOMAIN rws[i].sentences, n \in DOMAIN rws[j].sentences :
               i < j \/ (i = j /\ m < n) => Before(rws[i].sentences[m], rws[j].sentences[n])
    BY <1>4, <1>5, SortedIs
  <2> QED BY <1>6, <2>1 DEF KeptIn
<1>8. TitlesIn(rws)
  <2>1. ~(WholeText >= ShortText)
    <3>1. WholeText \in Nat
      BY WholeIs
    <3>2. ShortText \in Nat
      BY DEF ChunkingAssumption
    <3> QED BY <3>1, <3>2
  <2>2. \A i \in 1 .. 1 : ~(i > 1)
    OBVIOUS
  <2> QED BY <1>4, <2>1, <2>2, TitlesHold
<1> QED BY <1>4, <1>7, <1>8

-----------------------------------------------------------------------------
(* The invariant.                                                           *)

LEMMA TypesAre ==
    text' = text => (TypeOK' <=>
        /\ text \in Texts /\ clause' \in 1 .. Len(text) + 1
        /\ chunks' \in Seq(Chunk) /\ rows' \in {None} \cup Seq(Chunk)
        /\ failed' \subseteq Clause)
BY DEF TypeOK, Chunk, Sentence, Clause

LEMMA InitInv == ChunkingAssumption /\ Init => IInv
<1> SUFFICES ASSUME ChunkingAssumption, Init
             PROVE  IInv
  OBVIOUS
<1>1. Len(text) \in Nat \ {0}
  BY TextIs DEF Init
<1>2. TypeOK
  BY <1>1 DEF Init, TypeOK
<1>3. ChunksInv
  BY DEF Init, ChunksInv
<1>4. ChunksTell
  BY DEF Init, ChunksTell
<1> QED BY <1>2, <1>3, <1>4 DEF IInv

LEMMA WholeKept ==
    ASSUME ChunkingAssumption, IInv, KeepWhole
    PROVE  IInv'
<1>1. text \in Texts /\ text' = text /\ WholeText < ShortText
  BY DEF IInv, TypeOK, KeepWhole
<1>2. rows' \in Seq(Chunk) /\ KeptIn(rows') /\ TitlesIn(rows')
  BY <1>1, WholeTells DEF KeepWhole
<1>3. TypeOK'
  BY <1>1, <1>2, TypesAre DEF IInv, TypeOK, KeepWhole
<1>4. ChunksInv'
  BY <1>1, ChunksAreInv DEF IInv, KeepWhole
<1>5. ChunksTell'
  BY <1>1, <1>2, TellAre
<1> QED BY <1>3, <1>4, <1>5 DEF IInv

LEMMA ClauseSplit ==
    ASSUME ChunkingAssumption, IInv, SplitClause
    PROVE  IInv'
<1>1. text \in Texts /\ text' = text /\ clause \in Clause /\ rows' = rows
  BY TextIs DEF IInv, TypeOK, SplitClause
<1>2. chunks \in Seq(Chunk) /\ ChunksAre(chunks, clause)
  BY ChunksAreInv DEF IInv, TypeOK
<1>3. chunks' \in Seq(Chunk) /\ ChunksAre(chunks', clause + 1)
  <2>1. ASSUME NEW b, chunks' = chunks \o Titled(SemanticSplit(clause, b), TitleOf(clause))
        PROVE  chunks' \in Seq(Chunk) /\ ChunksAre(chunks', clause + 1)
    <3>1. PICK cuts : Covers(SemanticSplit(clause, b), clause, cuts)
      BY <1>1, SemanticCovers
    <3> QED BY <1>1, <1>2, <2>1, <3>1, Continued
  <2>2. ASSUME chunks' = chunks \o Titled(<<Piece(SentencesOf(clause))>>, TitleOf(clause))
        PROVE  chunks' \in Seq(Chunk) /\ ChunksAre(chunks', clause + 1)
    <3>1. PICK cuts : Covers(<<Piece(SentencesOf(clause))>>, clause, cuts)
      BY <1>1, WholeCovers
    <3> QED BY <1>1, <1>2, <2>2, <3>1, Continued
  <2> QED BY <2>1, <2>2 DEF SplitClause
<1>4. TypeOK'
  <2>1. clause' \in 1 .. Len(text) + 1 /\ clause' = clause + 1
    BY <1>1, TextIs DEF SplitClause
  <2>2. failed' \subseteq Clause
    BY <1>1 DEF SplitClause, IInv, TypeOK
  <2> QED BY <1>1, <1>3, <2>1, <2>2, TypesAre DEF IInv, TypeOK
<1>5. ChunksInv'
  BY <1>1, <1>3, ChunksAreInv DEF SplitClause
<1>6. ChunksTell'
  BY <1>1, TellAre DEF IInv
<1> QED BY <1>4, <1>5, <1>6 DEF IInv

LEMMA ChunksStored ==
    ASSUME ChunkingAssumption, IInv, StoreChunks
    PROVE  IInv'
<1>1. /\ text \in Texts /\ text' = text /\ clause = Len(text) + 1
      /\ rows' = MergeSmallTails(chunks)
  BY DEF IInv, TypeOK, StoreChunks
<1>2. chunks \in Seq(Chunk) /\ ChunksAre(chunks, Len(text) + 1)
  BY <1>1, ChunksAreInv DEF IInv, TypeOK
<1>3. KeptIn(rows') /\ TitlesIn(rows')
  BY <1>1, <1>2, StoredTells
<1>4. rows' \in Seq(Chunk)
  BY <1>1, <1>2, RowsOfChunks
<1>5. TypeOK'
  BY <1>1, <1>4, TypesAre DEF IInv, TypeOK, StoreChunks
<1>6. ChunksInv'
  BY <1>1, ChunksAreInv DEF IInv, StoreChunks
<1>7. ChunksTell'
  BY <1>1, <1>3, TellAre
<1> QED BY <1>5, <1>6, <1>7 DEF IInv

LEMMA NextInv == ChunkingAssumption /\ IInv /\ [Next]_vars => IInv'
<1> SUFFICES ASSUME ChunkingAssumption, IInv, [Next]_vars
             PROVE  IInv'
  OBVIOUS
<1>1. CASE KeepWhole
  BY <1>1, WholeKept
<1>2. CASE SplitClause
  BY <1>2, ClauseSplit
<1>3. CASE StoreChunks
  BY <1>3, ChunksStored
<1>4. CASE UNCHANGED vars
  <2>1. text' = text /\ clause' = clause /\ chunks' = chunks /\ rows' = rows /\ failed' = failed
    BY <1>4 DEF vars
  <2>2. TypeOK'
    BY <2>1, TypesAre DEF IInv, TypeOK
  <2>3. ChunksInv'
    BY <2>1, ChunksAreInv DEF IInv
  <2>4. ChunksTell'
    BY <2>1, TellAre DEF IInv
  <2> QED BY <2>2, <2>3, <2>4 DEF IInv
<1> QED BY <1>1, <1>2, <1>3, <1>4 DEF Next

LEMMA InvProperty == IInv => ChunksTell
BY DEF IInv

\* What is stored of a text has its sentences in their order and once each; one is lost
\* only behind a chunk that is more than half full and would have been too long with it,
\* or, if smart_truncate cannot find its end, with it and others that are lost as well; and
\* a chunk has the title of its first clause that has one: SemanticChunker.split_text, for
\* any texts, breaks and failures of the embeddings.
THEOREM ChunksTellHolds == ASSUME ChunkingAssumption PROVE Spec => []ChunksTell
<1>1. Init => IInv
  BY InitInv
<1>2. IInv /\ [Next]_vars => IInv'
  BY NextInv
<1>3. IInv => ChunksTell
  BY InvProperty
<1> QED BY <1>1, <1>2, <1>3, PTL DEF Spec
=============================================================================
