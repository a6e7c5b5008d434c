---------------------------- MODULE SequenceFacts ----------------------------
(***************************************************************************)
(* Lemmas about numbers, sequences and loops that the proofs about the     *)
(* modules share.  An induction is carried by the least counterexample     *)
(* (LeastNat); a flattened sequence is laid out piece by piece (Joins);    *)
(* and a loop is a function on Nat (Turns).                                *)
(***************************************************************************)
EXTENDS SequencesExt, FiniteSetTheorems, SequenceTheorems, TLAPS
-----------------------------------------------------------------------------
(* Sets of numbers                                                         *)

(* A set of natural numbers that is not empty has a least element.         *)
LEMMA LeastNat ==
    ASSUME NEW T, T \subseteq Nat, T # {}
    PROVE  \E x \in T : \A y \in T : x <= y
<1>1. PICK x \in T : \A y \in T : <<y, x>> \notin OpToRel(<, Nat)
  BY NatLessThanWellFounded, WFMin
<1>2. \A y \in T : ~(y < x)
  BY <1>1 DEF OpToRel
<1> QED
  BY <1>2

LEMMA MinIn ==
    ASSUME NEW T, T \subseteq Nat, T # {}
    PROVE  Min(T) \in T /\ \A y \in T : Min(T) <= y
<1>1. \E x \in T : \A y \in T : x <= y
  BY LeastNat
<1> QED
  BY <1>1 DEF Min

(* Induction, over a set.                                                  *)
LEMMA SetInduction ==
    ASSUME NEW T, 0 \in T, \A n \in Nat : n \in T => n + 1 \in T
    PROVE  Nat \subseteq T
<1> DEFINE U == { n \in Nat : n \notin T }
<1>1. ASSUME U # {} PROVE FALSE
  <2>1. U \subseteq Nat
    OBVIOUS
  <2> HIDE DEF U
  <2>2. PICK x \in U : \A y \in U : x <= y
    BY <1>1, <2>1, LeastNat
  <2>3. x \in Nat /\ x \notin T
    BY DEF U
  <2>4. x # 0
    BY <2>3
  <2>5. x - 1 \in Nat /\ x - 1 \notin U
    BY <2>2, <2>3, <2>4
  <2>6. x - 1 \in T
    BY <2>5 DEF U
  <2>7. (x - 1) + 1 \in T
    BY <2>5, <2>6
  <2> QED
    BY <2>3, <2>7
<1> QED
  BY <1>1

(* The same, up to a bound.                                                *)
LEMMA UpTo ==
    ASSUME NEW T, NEW N \in Nat, 0 \in T, \A n \in 0 .. N - 1 : n \in T => n + 1 \in T
    PROVE  0 .. N \subseteq T
<1> DEFINE U == { n \in Nat : n \in 0 .. N => n \in T }
<1>1. 0 \in U
  OBVIOUS
<1>2. ASSUME NEW n \in Nat, n \in U PROVE n + 1 \in U
  <2>1. n + 1 \in 0 .. N => n \in 0 .. N - 1
    OBVIOUS
  <2> QED
    BY <1>2, <2>1
<1>3. Nat \subseteq U
  <2> HIDE DEF U
  <2> QED
    BY <1>1, <1>2, SetInduction
<1> QED
  BY <1>3

-----------------------------------------------------------------------------
(* Sequences put together                                                  *)

(* F is what comes of the first sequences of ss.                           *)
Joins(X, ss, F) ==
    /\ ss \in Seq(Seq(X)) /\ F \in [0 .. Len(ss) -> Seq(X)]
    /\ F[0] = <<>> /\ \A k \in 1 .. Len(ss) : F[k] = F[k - 1] \o ss[k]

(* Where the k-th of them ends in it.                                      *)
At(F, k) == Len(F[k])

LEMMA JoinsExists ==
    ASSUME NEW X, NEW ss \in Seq(Seq(X))
    PROVE  \E F : Joins(X, ss, F)
<1> DEFINE N == Len(ss)
           T == { n \in 0 .. N : \E F \in [0 .. n -> Seq(X)] :
                     F[0] = <<>> /\ \A k \in 1 .. n : F[k] = F[k - 1] \o ss[k] }
<1>1. N \in Nat /\ \A k \in 1 .. N : ss[k] \in Seq(X)
  OBVIOUS
<1>2. 0 \in T
  <2> DEFINE F == [k \in 0 .. 0 |-> <<>>]
  <2>1. F \in [0 .. 0 -> Seq(X)] /\ F[0] = <<>> /\ \A k \in 1 .. 0 : F[k] = F[k - 1] \o ss[k]
    OBVIOUS
  <2>2. 0 \in 0 .. N
    BY <1>1
  <2> HIDE DEF F, N
  <2> QED
    BY <2>1, <2>2
<1>3. ASSUME NEW n \in 0 .. N - 1, n \in T PROVE n + 1 \in T
  <2>1. PICK F \in [0 .. n -> Seq(X)] :
          F[0] = <<>> /\ \A k \in 1 .. n : F[k] = F[k - 1] \o ss[k]
    BY <1>3
  <2> DEFINE G == [k \in 0 .. n + 1 |-> IF k = n + 1 THEN F[n] \o ss[n + 1] ELSE F[k]]
  <2>2. n \in Nat /\ n \in 0 .. n /\ n + 1 \in 1 .. N
    BY <1>1
  <2>3. F[n] \o ss[n + 1] \in Seq(X)
    <3>1. F[n] \in Seq(X) /\ ss[n + 1] \in Seq(X)
      BY <1>1, <2>1, <2>2
    <3> QED
      BY <3>1
  <2>4. G \in [0 .. n + 1 -> Seq(X)]
    <3>1. \A k \in 0 .. n + 1 : k # n + 1 => k \in 0 .. n
      BY <2>2
    <3> QED
      BY <2>1, <2>3, <3>1
  <2>5. G[0] = <<>>
    BY <2>1, <2>2
  <2>6. ASSUME NEW k \in 1 .. n + 1 PROVE G[k] = G[k - 1] \o ss[k]
    <3>1. k - 1 \in 0 .. n /\ k - 1 # n + 1 /\ k \in 0 .. n + 1 /\ k - 1 \in 0 .. n + 1
      BY <2>2
    <3>2. G[k - 1] = F[k - 1]
      BY <3>1
    <3>3. CASE k = n + 1
      <4>1. k - 1 = n
        BY <2>2, <3>3
      <4> QED
        BY <3>1, <3>2, <3>3, <4>1
    <3>4. CASE k # n + 1
      <4>1. k \in 1 .. n
        BY <2>2, <3>4
      <4>2. G[k] = F[k]
        BY <3>1, <3>4
      <4> QED
        BY <2>1, <3>2, <4>1, <4>2
    <3> QED
      BY <3>3, <3>4
  <2> HIDE DEF G
  <2>7. n + 1 \in 0 .. N
    BY <1>1
  <2> QED
    BY <2>4, <2>5, <2>6, <2>7
<1>4. 0 .. N \subseteq T
  <2> HIDE DEF T, N
  <2> QED
    BY <1>1, <1>2, <1>3, UpTo
<1>5. N \in T
  <2>1. N \in 0 .. N
    BY <1>1
  <2> HIDE DEF T, N
  <2> QED
    BY <1>4, <2>1
<1> QED
  BY <1>5 DEF Joins

LEMMA FlattenIs ==
    ASSUME NEW X, NEW ss, NEW F, Joins(X, ss, F)
    PROVE  FlattenSeq(ss) = F[Len(ss)]
<1> DEFINE N == Len(ss)
           H == CHOOSE f : f = [i \in 1 .. N |-> IF i = 1 THEN ss[i] ELSE f[i - 1] \o ss[i]]
           G == [i \in 1 .. N |-> F[i]]
<1>1. N \in Nat /\ \A k \in 1 .. N : ss[k] \in Seq(X)
  BY DEF Joins
<1>2. CASE N = 0
  <2>1. ss = <<>>
    BY <1>2 DEF Joins
  <2> QED
    BY <1>2, <2>1 DEF FlattenSeq, Joins
<1>3. CASE N # 0
  <2>1. FlattenSeq(ss) = H[N]
    BY <1>3 DEF FlattenSeq
  <2>2. F[1] = ss[1]
    <3>0. 1 \in 1 .. N /\ 1 - 1 = 0
      BY <1>1, <1>3
    <3>1. F[1] = F[1 - 1] \o ss[1] /\ ss[1] \in Seq(X)
      BY <1>1, <3>0 DEF Joins
    <3>2. F[1] = <<>> \o ss[1]
      BY <3>0, <3>1 DEF Joins
    <3> QED
      BY <3>1, <3>2
  <2>3. G = [i \in 1 .. N |-> IF i = 1 THEN ss[i] ELSE G[i - 1] \o ss[i]]
    <3>1. ASSUME NEW i \in 1 .. N PROVE G[i] = IF i = 1 THEN ss[i] ELSE G[i - 1] \o ss[i]
      <4>1. CASE i = 1
        BY <2>2, <4>1
      <4>2. CASE i # 1
        <5>1. i - 1 \in 1 .. N
          BY <1>1, <4>2
        <5>2. F[i] = F[i - 1] \o ss[i]
          BY DEF Joins
        <5> QED
          BY <4>2, <5>1, <5>2
      <4> QED
        BY <4>1, <4>2
    <3> QED
      BY <3>1
  <2>4. H = [i \in 1 .. N |-> IF i = 1 THEN ss[i] ELSE H[i - 1] \o ss[i]]
    <3> HIDE DEF G
    <3> QED
      BY <2>3
  <2> HIDE DEF H
  <2>5. 0 .. N \subseteq { n \in Nat : n \in 1 .. N => H[n] = F[n] }
    <3> DEFINE T == { n \in Nat : n \in 1 .. N => H[n] = F[n] }
    <3>1. 0 \in T
      OBVIOUS
    <3>2. ASSUME NEW n \in 0 .. N - 1, n \in T PROVE n + 1 \in T
      <4>1. n + 1 \in 1 .. N /\ (n + 1) - 1 = n /\ n + 1 \in Nat
        BY <1>1
      <4>2. CASE n = 0
        BY <2>2, <2>4, <4>1, <4>2
      <4>3. CASE n # 0
        <5>0. n + 1 # 1
          BY <4>1, <4>3
        <5>1. H[n + 1] = H[(n + 1) - 1] \o ss[n + 1]
          BY <2>4, <4>1, <5>0
        <5>2. F[n + 1] = F[n] \o ss[n + 1]
          BY <4>1 DEF Joins
        <5>3. n \in 1 .. N
          BY <1>1, <4>3
        <5> QED
          BY <3>2, <4>1, <5>1, <5>2, <5>3
      <4> QED
        BY <4>2, <4>3
    <3> HIDE DEF T, N
    <3>3. 0 .. N \subseteq T
      BY <1>1, <3>1, <3>2, UpTo
    <3> QED
      BY <3>3 DEF T
  <2>6. H[N] = F[N]
    <3>1. N \in 0 .. N /\ N \in 1 .. N
      BY <1>1, <1>3
    <3> QED
      BY <2>5, <3>1
  <2> QED
    BY <2>1, <2>6
<1> QED
  BY <1>2, <1>3

LEMMA JoinStep ==
    ASSUME NEW X, NEW ss, NEW F, Joins(X, ss, F), NEW k \in 1 .. Len(ss)
    PROVE  /\ F[k - 1] \in Seq(X) /\ F[k] \in Seq(X) /\ ss[k] \in Seq(X)
           /\ At(F, k - 1) \in Nat /\ At(F, k) \in Nat /\ Len(ss[k]) \in Nat
           /\ At(F, k) = At(F, k - 1) + Len(ss[k])
           /\ \A i \in 1 .. At(F, k - 1) : F[k][i] = F[k - 1][i]
           /\ \A i \in 1 .. Len(ss[k]) : F[k][At(F, k - 1) + i] = ss[k][i]
<1>1. k - 1 \in 0 .. Len(ss) /\ k \in 0 .. Len(ss) /\ F[k] = F[k - 1] \o ss[k] /\ ss[k] \in Seq(X)
  BY DEF Joins
<1>2. F[k - 1] \in Seq(X) /\ F[k] \in Seq(X)
  BY <1>1 DEF Joins
<1> DEFINE f == F[k - 1]
           g == ss[k]
<1> HIDE DEF f, g
<1>3. f \in Seq(X) /\ g \in Seq(X) /\ F[k] = f \o g
  BY <1>1, <1>2 DEF f, g
<1>4. /\ Len(f) \in Nat /\ Len(g) \in Nat /\ Len(f \o g) = Len(f) + Len(g)
      /\ \A i \in 1 .. Len(f) : (f \o g)[i] = f[i]
      /\ \A i \in 1 .. Len(g) : (f \o g)[Len(f) + i] = g[i]
  BY <1>3
<1>5. At(F, k - 1) = Len(f) /\ At(F, k) = Len(f \o g)
  BY <1>3 DEF f, At
<1>6. \A i \in 1 .. At(F, k - 1) : F[k][i] = f[i]
  BY <1>3, <1>4, <1>5
<1>7. \A i \in 1 .. Len(g) : F[k][At(F, k - 1) + i] = g[i]
  BY <1>3, <1>4, <1>5
<1>8. At(F, k) = Len(f) + Len(g)
  BY <1>4, <1>5
<1>9. At(F, k) \in Nat
  BY <1>4, <1>8
<1>10. f = F[k - 1] /\ g = ss[k]
  BY DEF f, g
<1> HIDE DEF At
<1> QED
  BY <1>1, <1>2, <1>4, <1>5, <1>6, <1>7, <1>8, <1>9, <1>10

LEMMA JoinStart ==
    ASSUME NEW X, NEW ss, NEW F, Joins(X, ss, F)
    PROVE  Len(ss) \in Nat /\ At(F, 0) = 0 /\ \A k \in 0 .. Len(ss) : F[k] \in Seq(X) /\ At(F, k) \in Nat
  BY DEF Joins, At

LEMMA JoinPrefix ==
    ASSUME NEW X, NEW ss, NEW F, Joins(X, ss, F)
    PROVE  \A k \in 0 .. Len(ss) : \A n \in k .. Len(ss) :
             At(F, k) <= At(F, n) /\ \A i \in 1 .. At(F, k) : F[n][i] = F[k][i]
<1> TAKE k \in 0 .. Len(ss)
<1> TAKE n \in k .. Len(ss)
<1> DEFINE N == Len(ss)
           T == { m \in 0 .. N - k : At(F, k) <= At(F, k + m)
                                       /\ \A i \in 1 .. At(F, k) : F[k + m][i] = F[k][i] }
<1>1. N \in Nat /\ k \in Nat /\ n \in Nat /\ N - k \in Nat /\ At(F, k) \in Nat
  BY JoinStart
<1>2. 0 \in T
  <2>1. k + 0 = k /\ 0 \in 0 .. N - k
    BY <1>1
  <2> QED
    BY <1>1, <2>1
<1>3. ASSUME NEW m \in 0 .. (N - k) - 1, m \in T PROVE m + 1 \in T
  <2> DEFINE j == k + m + 1
  <2>1. j \in 1 .. N /\ j - 1 = k + m /\ k + (m + 1) = j /\ m + 1 \in 0 .. N - k
    BY <1>1
  <2> HIDE DEF j
  <2>2. /\ At(F, j) = At(F, j - 1) + Len(ss[j]) /\ At(F, j - 1) \in Nat /\ Len(ss[j]) \in Nat
        /\ \A i \in 1 .. At(F, j - 1) : F[j][i] = F[j - 1][i]
    BY <2>1, JoinStep
  <2>3. At(F, k) <= At(F, j - 1) /\ \A i \in 1 .. At(F, k) : F[j - 1][i] = F[k][i]
    BY <1>3, <2>1
  <2>4. At(F, k) <= At(F, j)
    BY <1>1, <2>2, <2>3
  <2>5. \A i \in 1 .. At(F, k) : F[j][i] = F[k][i]
    <3>1. \A i \in 1 .. At(F, k) : i \in 1 .. At(F, j - 1)
      BY <1>1, <2>2, <2>3
    <3> QED
      BY <2>2, <2>3, <3>1
  <2> QED
    BY <2>1, <2>4, <2>5
<1>4. 0 .. N - k \subseteq T
  <2> HIDE DEF T, N
  <2> QED
    BY <1>1, <1>2, <1>3, UpTo
<1>5. n - k \in T /\ k + (n - k) = n
  <2>1. n - k \in 0 .. N - k
    BY <1>1
  <2> HIDE DEF T, N
  <2> QED
    BY <1>1, <1>4, <2>1
<1> QED
  BY <1>5

LEMMA JoinPiece ==
    ASSUME NEW X, NEW ss, NEW F, Joins(X, ss, F)
    PROVE  \A k \in 1 .. Len(ss) : \A n \in k .. Len(ss) : \A j \in 1 .. Len(ss[k]) :
             /\ At(F, k - 1) + j \in 1 .. At(F, n)
             /\ F[n][At(F, k - 1) + j] = ss[k][j]
<1> TAKE k \in 1 .. Len(ss)
<1> TAKE n \in k .. Len(ss)
<1> TAKE j \in 1 .. Len(ss[k])
<1>1. /\ At(F, k) = At(F, k - 1) + Len(ss[k]) /\ At(F, k - 1) \in Nat /\ Len(ss[k]) \in Nat
      /\ F[k][At(F, k - 1) + j] = ss[k][j]
  BY JoinStep
<1>2. At(F, k - 1) + j \in 1 .. At(F, k)
  BY <1>1
<1>3. k \in 0 .. Len(ss) /\ n \in 0 .. Len(ss)
  BY JoinStart
<1>4. At(F, k) <= At(F, n) /\ \A i \in 1 .. At(F, k) : F[n][i] = F[k][i]
  BY <1>3, JoinPrefix
<1>5. At(F, n) \in Nat /\ At(F, k) \in Nat
  BY <1>3, JoinStart
<1> QED
  BY <1>1, <1>2, <1>4, <1>5

(* Where a text that was cut after n characters ends.                      *)
LEMMA JoinCut ==
    ASSUME NEW X, NEW ss, NEW F, Joins(X, ss, F), Len(ss) # 0, NEW n \in 0 .. At(F, Len(ss))
    PROVE  \E c \in 1 .. Len(ss) : At(F, c - 1) <= n /\ (n < At(F, c) \/ c = Len(ss))
<1> DEFINE N == Len(ss)
           T == { c \in 1 .. N : n < At(F, c) \/ c = N }
<1>1. N \in Nat /\ N \in 1 .. N /\ n \in Nat
  BY JoinStart
<1>2. T \subseteq Nat /\ T # {}
  <2>1. N \in T
    BY <1>1
  <2> QED
    BY <1>1, <2>1
<1>3. PICK c \in T : \A y \in T : c <= y
  <2> HIDE DEF T
  <2> QED
    BY <1>2, LeastNat
<1>4. c \in 1 .. N /\ (n < At(F, c) \/ c = N)
  OBVIOUS
<1>5. At(F, c - 1) <= n
  <2>1. CASE c = 1
    <3>1. At(F, c - 1) = 0
      BY <2>1, JoinStart
    <3> QED
      BY <1>1, <3>1
  <2>2. CASE c # 1
    <3>1. c - 1 \in 1 .. N /\ ~(c <= c - 1) /\ c - 1 \in 0 .. N
      BY <1>1, <1>4, <2>2
    <3>2. c - 1 \notin T
      <4> HIDE DEF T
      <4> QED
        BY <1>3, <3>1
    <3>3. ~(n < At(F, c - 1))
      BY <3>1, <3>2
    <3>4. At(F, c - 1) \in Nat
      BY <3>1, JoinStart
    <3> QED
      BY <1>1, <3>3, <3>4
  <2> QED
    BY <2>1, <2>2
<1> QED
  BY <1>4, <1>5

LEMMA JoinLong ==
    ASSUME NEW X, NEW ss, NEW F, Joins(X, ss, F), \A k \in 1 .. Len(ss) : Len(ss[k]) # 0
    PROVE  \A k \in 0 .. Len(ss) : k <= At(F, k)
<1> DEFINE N == Len(ss)
           T == { k \in 0 .. N : k <= At(F, k) }
<1>1. N \in Nat /\ At(F, 0) = 0
  BY JoinStart
<1>2. 0 \in T
  BY <1>1
<1>3. ASSUME NEW k \in 0 .. N - 1, k \in T PROVE k + 1 \in T
  <2>1. k + 1 \in 1 .. N /\ (k + 1) - 1 = k
    BY <1>1
  <2>2. At(F, k + 1) = At(F, k) + Len(ss[k + 1]) /\ At(F, k) \in Nat /\ Len(ss[k + 1]) \in Nat
    BY <2>1, JoinStep
  <2>3. Len(ss[k + 1]) # 0
    BY <2>1
  <2>4. k <= At(F, k) /\ k \in Nat
    BY <1>1, <1>3
  <2>5. k + 1 <= At(F, k + 1)
    BY <2>2, <2>3, <2>4
  <2> QED
    BY <1>1, <2>1, <2>5
<1>4. 0 .. N \subseteq T
  <2> HIDE DEF T, N
  <2> QED
    BY <1>1, <1>2, <1>3, UpTo
<1> QED
  BY <1>4

(* A loop: a function of the number of its turns.                          *)
Turns(S, G, x, E) ==
    E \in [Nat -> S] /\ E[0] = x /\ \A n \in Nat : E[n + 1] = G[E[n]]

LEMMA Iterates ==
    ASSUME NEW S, NEW G, G \in [S -> S], NEW x, x \in S
    PROVE  \E E : Turns(S, G, x, E)
<1> DEFINE Good(n, f) == f \in [0 .. n -> S] /\ f[0] = x /\ \A i \in 0 .. n - 1 : f[i + 1] = G[f[i]]
           T == { n \in Nat : \E f : Good(n, f) }
<1>1. 0 \in T
  <2> DEFINE f == [i \in 0 .. 0 |-> x]
  <2>1. Good(0, f)
    OBVIOUS
  <2> HIDE DEF f, Good
  <2> QED
    BY <2>1
<1>2. ASSUME NEW n \in Nat, n \in T PROVE n + 1 \in T
  <2>1. PICK f : Good(n, f)
    BY <1>2
  <2> DEFINE g == [i \in 0 .. n + 1 |-> IF i = n + 1 THEN G[f[n]] ELSE f[i]]
  <2>2. f[n] \in S /\ G[f[n]] \in S
    <3>1. f[n] \in S
      BY <2>1
    <3> QED
      BY <3>1
  <2>3. g \in [0 .. n + 1 -> S]
    <3>1. \A i \in 0 .. n + 1 : i # n + 1 => i \in 0 .. n
      OBVIOUS
    <3> QED
      BY <2>1, <2>2, <3>1
  <2>4. g[0] = x
    BY <2>1
  <2>5. ASSUME NEW i \in 0 .. (n + 1) - 1 PROVE g[i + 1] = G[g[i]]
    <3>1. i \in 0 .. n + 1 /\ i # n + 1 /\ i + 1 \in 0 .. n + 1
      OBVIOUS
    <3>2. g[i] = f[i]
      BY <3>1
    <3>3. CASE i = n
      BY <3>1, <3>2, <3>3
    <3>4. CASE i # n
      <4>1. i \in 0 .. n - 1 /\ i + 1 # n + 1
        BY <3>4
      <4> QED
        BY <2>1, <3>1, <3>2, <4>1
    <3> QED
      BY <3>3, <3>4
  <2>6. Good(n + 1, g)
    BY <2>3, <2>4, <2>5
  <2> HIDE DEF g, Good
  <2> QED
    BY <2>6
<1>3. \A n \in Nat : \E f : Good(n, f)
  <2>1. Nat \subseteq T
    <3> HIDE DEF T
    <3> QED
      BY <1>1, <1>2, SetInduction
  <2> HIDE DEF Good
  <2> QED
    BY <2>1
<1> DEFINE a == [n \in Nat |-> CHOOSE f : Good(n, f)]
<1>4. \A n \in Nat : Good(n, a[n])
  <2> HIDE DEF Good
  <2> QED
    BY <1>3
<1>5. ASSUME NEW n \in Nat PROVE a[n + 1][n] = a[n][n]
  <2> DEFINE U == { i \in 0 .. n : a[n + 1][i] = a[n][i] }
             p == a[n]
             q == a[n + 1]
  <2>1. Good(n, p) /\ Good(n + 1, q)
    <3>1. n + 1 \in Nat
      OBVIOUS
    <3> HIDE DEF Good, a
    <3> QED
      BY <1>4, <3>1
  <2> HIDE DEF a
  <2>2. 0 \in U
    BY <2>1
  <2>3. ASSUME NEW i \in 0 .. n - 1, i \in U PROVE i + 1 \in U
    <3> HIDE DEF p, q
    <3>1. p[i + 1] = G[p[i]] /\ q[i + 1] = G[q[i]] /\ i + 1 \in 0 .. n
      BY <2>1
    <3> QED
      BY <2>3, <3>1 DEF p, q
  <2>4. 0 .. n \subseteq U
    <3> HIDE DEF U
    <3> QED
      BY <2>2, <2>3, UpTo
  <2> QED
    BY <2>4
<1> DEFINE E == [n \in Nat |-> a[n][n]]
<1>6. \A n \in Nat : a[n][n] \in S
  <2> TAKE n \in Nat
  <2> HIDE DEF a
  <2>1. Good(n, a[n])
    <3> HIDE DEF Good
    <3> QED
      BY <1>4
  <2> QED
    BY <2>1
<1>7. E[0] = x
  <2> HIDE DEF a
  <2>1. Good(0, a[0])
    <3> HIDE DEF Good
    <3> QED
      BY <1>4
  <2> QED
    BY <2>1
<1>8. ASSUME NEW n \in Nat PROVE E[n + 1] = G[E[n]]
  <2> HIDE DEF a
  <2>0. n + 1 \in Nat /\ n \in 0 .. (n + 1) - 1
    OBVIOUS
  <2>1. Good(n + 1, a[n + 1])
    <3> HIDE DEF Good
    <3> QED
      BY <1>4, <2>0
  <2>2. a[n + 1][n + 1] = G[a[n + 1][n]]
    BY <2>0, <2>1
  <2> QED
    BY <1>5, <2>0, <2>2
<1>9. E \in [Nat -> S]
  BY <1>6
<1> HIDE DEF E
<1>10. Turns(S, G, x, E)
  BY <1>7, <1>8, <1>9 DEF Turns
<1> QED
  BY <1>10
=============================================================================
