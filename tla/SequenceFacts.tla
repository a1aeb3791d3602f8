---------------------------- MODULE SequenceFacts -----------------------------
(***************************************************************************)
(* What the proofs of several components need to know about queues, about  *)
(* listing a set and about loops that are folds.                           *)
(***************************************************************************)
EXTENDS Integers, SequencesExt, FiniteSetTheorems, WellFoundedInduction, TLAPS

\* What the ends of a queue do to its entries.
LEMMA QueueFacts ==
  ASSUME NEW T, NEW q \in Seq(T)
  PROVE  /\ \A x \in T :
              /\ Append(q, x) \in Seq(T) /\ Len(q) \in Nat /\ DOMAIN q = 1..Len(q)
              /\ DOMAIN Append(q, x) = 1..(Len(q) + 1) /\ Append(q, x)[Len(q) + 1] = x
              /\ \A n \in DOMAIN q : Append(q, x)[n] = q[n]
         /\ q # <<>> =>
              /\ Head(q) = q[1] /\ Len(q) \in Nat /\ Len(q) > 0 /\ DOMAIN q = 1..Len(q)
              /\ DOMAIN Tail(q) = 1..(Len(q) - 1)
              /\ \A n \in DOMAIN Tail(q) : Tail(q)[n] = q[n + 1]
  OBVIOUS

\* An entry of a sequence.
LEMMA Entries ==
  ASSUME NEW T, NEW q \in Seq(T)
  PROVE  \A n \in DOMAIN q : q[n] \in T
  OBVIOUS

\* One sequence after another, place by place.
LEMMA Concat ==
  ASSUME NEW T, NEW p \in Seq(T), NEW q \in Seq(T)
  PROVE  /\ p \o q \in Seq(T) /\ Len(p \o q) = Len(p) + Len(q)
         /\ \A n \in 1..(Len(p) + Len(q)) :
              (p \o q)[n] = IF n <= Len(p) THEN p[n] ELSE q[n - Len(p)]
  OBVIOUS

\* What becomes of the entries of two queues, one after the other.
LEMMA ConcatFacts ==
  ASSUME NEW T, NEW p \in Seq(T), NEW q \in Seq(T)
  PROVE  /\ \A n \in DOMAIN p : n \in DOMAIN (p \o q) /\ (p \o q)[n] = p[n]
         /\ \A k \in DOMAIN q :
              Len(p) + k \in DOMAIN (p \o q) /\ (p \o q)[Len(p) + k] = q[k]
         /\ \A n \in DOMAIN (p \o q) :
              \/ n \in DOMAIN p /\ (p \o q)[n] = p[n]
              \/ \E k \in DOMAIN q : n = Len(p) + k /\ (p \o q)[n] = q[k]
<1>1. /\ Len(p) \in Nat /\ Len(q) \in Nat /\ DOMAIN p = 1..Len(p) /\ DOMAIN q = 1..Len(q)
      /\ DOMAIN (p \o q) = 1..(Len(p) + Len(q))
      /\ \A n \in 1..(Len(p) + Len(q)) :
           (p \o q)[n] = IF n <= Len(p) THEN p[n] ELSE q[n - Len(p)]
  OBVIOUS
<1>2. ASSUME NEW n \in 1..(Len(p) + Len(q)), n > Len(p)
      PROVE  \E k \in DOMAIN q : n = Len(p) + k /\ (p \o q)[n] = q[k]
  <2>1. n - Len(p) \in DOMAIN q /\ n = Len(p) + (n - Len(p))
    BY <1>1, <1>2
  <2>2. (p \o q)[n] = q[n - Len(p)]
    BY <1>1, <1>2
  <2> QED
    BY <2>1, <2>2
<1>3. ASSUME NEW k \in DOMAIN q
      PROVE  Len(p) + k \in DOMAIN (p \o q) /\ (p \o q)[Len(p) + k] = q[k]
  <2>1. Len(p) + k \in 1..(Len(p) + Len(q)) /\ ~(Len(p) + k <= Len(p))
    BY <1>1
  <2>2. (Len(p) + k) - Len(p) = k
    BY <1>1
  <2> QED
    BY <1>1, <2>1, <2>2
<1>4. \A n \in DOMAIN p : n \in DOMAIN (p \o q) /\ (p \o q)[n] = p[n]
  BY <1>1
<1>5. ASSUME NEW n \in DOMAIN (p \o q)
      PROVE  \/ n \in DOMAIN p /\ (p \o q)[n] = p[n]
             \/ \E k \in DOMAIN q : n = Len(p) + k /\ (p \o q)[n] = q[k]
  <2>1. CASE n <= Len(p)
    BY <1>1, <2>1
  <2>2. CASE n > Len(p)
    BY <1>1, <1>2, <2>2
  <2> QED
    BY <1>1, <2>1, <2>2
<1> QED
  BY <1>3, <1>4, <1>5

\* One entry of a sequence is replaced by several.
Splice(R, r, X) == SubSeq(R, 1, r - 1) \o X \o SubSeq(R, r + 1, Len(R))

Spliced(Q, R, r, X, n) ==
  /\ DOMAIN Q = 1..(Len(R) + n - 1)
  /\ \A p \in 1..(Len(R) + n - 1) :
       /\ p < r => p \in DOMAIN R /\ Q[p] = R[p]
       /\ r <= p /\ p < r + n => p - r + 1 \in 1..n /\ Q[p] = X[p - r + 1]
       /\ p >= r + n => p - n + 1 \in DOMAIN R /\ Q[p] = R[p - n + 1]

\* What the members of a queue become.
LEMMA RangeFacts ==
  ASSUME NEW T, NEW q \in Seq(T)
  PROVE  /\ \A x \in Range(q) : x \in T
         /\ \A x : Range(Append(q, x)) = Range(q) \cup {x}
         /\ q # <<>> => Head(q) \in Range(q) /\ Range(q) = {Head(q)} \cup Range(Tail(q))
         /\ \A r \in Seq(T) : Range(q \o r) = Range(q) \cup Range(r)
<1>1. \A x \in Range(q) : x \in T
  BY DEF Range
<1>2. ASSUME NEW x PROVE Range(Append(q, x)) = Range(q) \cup {x}
  <2>1. /\ Len(q) \in Nat /\ DOMAIN q = 1..Len(q) /\ DOMAIN Append(q, x) = 1..(Len(q) + 1)
        /\ Append(q, x)[Len(q) + 1] = x /\ \A n \in 1..Len(q) : Append(q, x)[n] = q[n]
    OBVIOUS
  <2>2. (1..(Len(q) + 1)) = (1..Len(q)) \cup {Len(q) + 1}
    BY <2>1
  <2> QED
    BY <2>1, <2>2 DEF Range
<1>3. ASSUME q # <<>> PROVE Head(q) \in Range(q) /\ Range(q) = {Head(q)} \cup Range(Tail(q))
  <2>1. /\ Len(q) \in Nat \ {0} /\ DOMAIN q = 1..Len(q) /\ DOMAIN Tail(q) = 1..(Len(q) - 1)
        /\ Head(q) = q[1] /\ \A n \in 1..(Len(q) - 1) : Tail(q)[n] = q[n + 1]
    BY <1>3
  <2>2. \A x \in Range(q) : x = Head(q) \/ x \in Range(Tail(q))
    <3> SUFFICES ASSUME NEW i \in 1..Len(q), i # 1 PROVE q[i] \in Range(Tail(q))
      BY <2>1 DEF Range
    <3>1. i - 1 \in 1..(Len(q) - 1) /\ (i - 1) + 1 = i
      BY <2>1
    <3> QED
      BY <2>1, <3>1 DEF Range
  <2>3. \A x \in Range(Tail(q)) : x \in Range(q)
    <3> SUFFICES ASSUME NEW i \in 1..(Len(q) - 1) PROVE Tail(q)[i] \in Range(q)
      BY <2>1 DEF Range
    <3>1. i + 1 \in 1..Len(q)
      BY <2>1
    <3> QED
      BY <2>1, <3>1 DEF Range
  <2>4. Head(q) \in Range(q)
    BY <2>1 DEF Range
  <2> QED
    BY <2>2, <2>3, <2>4
<1>4. ASSUME NEW r \in Seq(T) PROVE Range(q \o r) = Range(q) \cup Range(r)
  <2>1. /\ \A n \in DOMAIN q : n \in DOMAIN (q \o r) /\ (q \o r)[n] = q[n]
        /\ \A k \in DOMAIN r : Len(q) + k \in DOMAIN (q \o r) /\ (q \o r)[Len(q) + k] = r[k]
        /\ \A n \in DOMAIN (q \o r) :
              \/ n \in DOMAIN q /\ (q \o r)[n] = q[n]
              \/ \E k \in DOMAIN r : n = Len(q) + k /\ (q \o r)[n] = r[k]
    BY ConcatFacts
  <2> DEFINE Q == q \o r
  <2> HIDE DEF Q
  <2>2. \A x \in Range(Q) : x \in Range(q) \/ x \in Range(r)
    BY <2>1 DEF Range, Q
  <2>3. \A x \in Range(q) : x \in Range(Q)
    BY <2>1 DEF Range, Q
  <2>4. \A x \in Range(r) : x \in Range(Q)
    <3> SUFFICES ASSUME NEW k \in DOMAIN r PROVE r[k] \in Range(Q)
      BY DEF Range
    <3>1. Len(q) + k \in DOMAIN Q /\ Q[Len(q) + k] = r[k]
      BY <2>1 DEF Q
    <3> QED
      BY <3>1 DEF Range
  <2> QED
    BY <2>2, <2>3, <2>4 DEF Q
<1> QED
  BY <1>1, <1>2, <1>3, <1>4

\* The entries behind it.
LEMMA EntriesBehind ==
  ASSUME NEW T, NEW R \in Seq(T), NEW r \in DOMAIN R
  PROVE  /\ SubSeq(R, r + 1, Len(R)) \in Seq(T)
         /\ Len(SubSeq(R, r + 1, Len(R))) = Len(R) - r
         /\ \A p \in 1..(Len(R) - r) : SubSeq(R, r + 1, Len(R))[p] = R[r + p]
<1>1. Len(R) \in Nat /\ DOMAIN R = 1..Len(R) /\ r \in 1..Len(R)
  OBVIOUS
<1> QED
  BY <1>1

\* The numbers of the places behind it.
LEMMA SpliceNumbers ==
  ASSUME NEW r \in Int, NEW N \in Int, NEW n \in Int, NEW m \in Int, m = r - 1 + n
  PROVE  /\ m + (N - r) = N + n - 1
         /\ \A p \in 1..(N + n - 1) : p >= r + n =>
              ~(p <= m) /\ p - m \in 1..(N - r) /\ r + (p - m) = p - n + 1
  OBVIOUS

\* What becomes of the others.
LEMMA SpliceFacts ==
  ASSUME NEW T, NEW R \in Seq(T), NEW r \in Nat, r \in DOMAIN R, NEW n \in Nat, NEW X \in [1..n -> T]
  PROVE  Splice(R, r, X) \in Seq(T) /\ Spliced(Splice(R, r, X), R, r, X, n)
<1> DEFINE Q == Splice(R, r, X)
           A == SubSeq(R, 1, r - 1)
           B == SubSeq(R, r + 1, Len(R))
           N == Len(R)
<1>1. N \in Nat /\ DOMAIN R = 1..N /\ r \in 1..N
  OBVIOUS
<1>2. X \in Seq(T) /\ Len(X) = n
  OBVIOUS
<1>3. A \in Seq(T) /\ Len(A) = r - 1 /\ \A p \in 1..(r - 1) : A[p] = R[p]
  BY <1>1
<1>4. B \in Seq(T) /\ Len(B) = N - r /\ \A p \in 1..(N - r) : B[p] = R[r + p]
  BY EntriesBehind
<1>5. Q = (A \o X) \o B
  BY DEF Splice
<1> HIDE DEF A, B, N, Q
<1> DEFINE a == r - 1
           C == A \o X
           m == a + n
<1>6. a \in Nat /\ m \in Nat /\ N - r \in Nat /\ a = r - 1 /\ m = r - 1 + n
  BY <1>1
<1>7. C \in Seq(T) /\ Len(C) = m /\ \A p \in 1..m : C[p] = IF p <= a THEN A[p] ELSE X[p - a]
  <2>1. Len(A) = a
    BY <1>3
  <2> HIDE DEF a
  <2> QED
    BY <1>2, <1>3, <2>1, Concat
<1> HIDE DEF C, m
<1>8. /\ Q \in Seq(T) /\ Len(Q) = m + (N - r)
      /\ \A p \in 1..(m + (N - r)) : Q[p] = IF p <= m THEN C[p] ELSE B[p - m]
  <2> DEFINE k == N - r
  <2>1. Len(B) = k /\ k \in Nat /\ Q = C \o B
    BY <1>4, <1>5, <1>6 DEF C
  <2> HIDE DEF k
  <2>2. /\ Q \in Seq(T) /\ Len(Q) = m + k
        /\ \A p \in 1..(m + k) : Q[p] = IF p <= m THEN C[p] ELSE B[p - m]
    BY <1>4, <1>7, <2>1, Concat
  <2> QED
    BY <2>2 DEF k
<1> HIDE DEF a
<1>9. /\ m + (N - r) = N + n - 1
      /\ \A p \in 1..(N + n - 1) : p >= r + n =>
           ~(p <= m) /\ p - m \in 1..(N - r) /\ r + (p - m) = p - n + 1
  <2>2. r \in Int /\ N \in Int /\ n \in Int /\ m \in Int
    BY <1>1, <1>6
  <2> QED
    BY <1>6, <2>2, SpliceNumbers
<1>14. DOMAIN Q = 1..(N + n - 1)
  <2>1. Len(Q) = N + n - 1
    BY <1>8, <1>9
  <2>2. Q \in Seq(T)
    BY <1>8
  <2> QED
    BY <2>1, <2>2
<1>10. ASSUME NEW p \in 1..(N + n - 1), p < r PROVE p \in 1..N /\ Q[p] = R[p]
  <2>1. p <= m /\ p <= a /\ p \in 1..m /\ p \in 1..(r - 1) /\ p \in 1..N
    BY <1>1, <1>6, <1>10
  <2> QED
    BY <1>3, <1>7, <1>8, <1>9, <2>1
<1>11. ASSUME NEW p \in 1..(N + n - 1), r <= p, p < r + n
       PROVE  p - r + 1 \in 1..n /\ Q[p] = X[p - r + 1]
  <2>1. p <= m /\ ~(p <= a) /\ p \in 1..m /\ p - a = p - r + 1
    BY <1>1, <1>6, <1>11
  <2>2. p - r + 1 \in 1..n
    BY <1>1, <1>11
  <2> QED
    BY <1>7, <1>8, <1>9, <2>1, <2>2
<1>12. ASSUME NEW p \in 1..(N + n - 1), p >= r + n
       PROVE  p - n + 1 \in 1..N /\ Q[p] = R[p - n + 1]
  <2>1. ~(p <= m) /\ p - m \in 1..(N - r) /\ r + (p - m) = p - n + 1
    BY <1>9, <1>12
  <2>2. p - n + 1 \in 1..N
    BY <1>1, <1>12
  <2> QED
    <3>1. Q[p] = B[p - m]
      BY <1>8, <1>9, <2>1
    <3>2. B[p - m] = R[r + (p - m)]
      BY <1>4, <2>1
    <3> QED
      BY <2>1, <2>2, <3>1, <3>2
<1> QED
  BY <1>1, <1>8, <1>10, <1>11, <1>12, <1>14 DEF N, Q, Spliced

\* SetToSeq lists every element of a finite set once.
LEMMA Listing ==
  ASSUME NEW S, IsFiniteSet(S)
  PROVE  /\ Cardinality(S) \in Nat
         /\ SetToSeq(S) \in [1..Cardinality(S) -> S]
         /\ IsInjective(SetToSeq(S))
         /\ \A x \in S : \E n \in 1..Cardinality(S) : SetToSeq(S)[n] = x
<1> DEFINE N == Cardinality(S)
           L == SetToSeq(S)
<1>1. N \in Nat /\ ExistsBijection(1..N, S)
  BY FS_CardinalityType
<1>2. \E g \in [1..N -> S] : IsInjective(g)
  BY <1>1, Zenon DEF ExistsBijection, Bijection, Injection
<1>3. L \in [1..N -> S] /\ IsInjective(L)
  BY <1>2, Zenon DEF SetToSeq
<1>4. L \in Injection(1..N, S)
  BY <1>3, Zenon DEF Injection
<1>5. Cardinality(1..N) = N
  <2>1. 1 \in Int /\ N \in Int
    BY <1>1
  <2>2. Cardinality(1..N) = IF 1 > N THEN 0 ELSE N - 1 + 1
    BY <2>1, FS_Interval
  <2> QED
    BY <2>2, <1>1
<1>6. L \in Surjection(1..N, S)
  BY <1>4, <1>5, FS_Injection, Zenon
<1> QED
  BY <1>1, <1>3, <1>6, Zenon DEF Surjection

-------------------------------------------------------------------------------
(* Loops.  The induction theorems of the library take an operator; these take a  *)
(* set, which the provers can find.                                              *)

\* A set of numbers up to N with 0 in it, and with every number its successor.
LEMMA SetInduction ==
  ASSUME NEW N \in Nat, NEW P, 0 \in P, \A n \in 0..(N - 1) : n \in P => n + 1 \in P
  PROVE  \A n \in 0..N : n \in P
<1> DEFINE T == {n \in 0..N : n \notin P}
           R == OpToRel(<, Nat)
<1> SUFFICES ASSUME T # {} PROVE FALSE
  OBVIOUS
<1>1. IsWellFoundedOn(R, Nat)
  BY NatLessThanWellFounded, Zenon
<1>2. T \subseteq Nat
  OBVIOUS
<1>3. PICK x \in T : \A y \in T : <<y, x>> \notin R
  <2> HIDE DEF T, R
  <2> QED
    BY <1>1, <1>2, WFMin
<1>4. \A y, z \in Nat : y < z => <<y, z>> \in R
  BY DEF OpToRel
<1> HIDE DEF R
<1>5. x \in Nat /\ x # 0 /\ x \in 0..N /\ x \notin P
  OBVIOUS
<1>6. x - 1 \in 0..(N - 1) /\ x - 1 \notin T /\ x - 1 + 1 = x
  <2>1. x - 1 \in Nat /\ x - 1 < x /\ x - 1 \in 0..(N - 1) /\ x - 1 + 1 = x
    BY <1>5
  <2>2. <<x - 1, x>> \in R
    BY <1>4, <1>5, <2>1
  <2> QED
    BY <1>3, <2>1, <2>2
<1>7. x - 1 \in P
  BY <1>6
<1> QED
  BY <1>5, <1>6, <1>7

\* What a loop keeps from one turn to the next holds after the last.
LEMMA LoopInvariant ==
  ASSUME NEW N \in Nat, NEW f, NEW G, f[0] \in G,
         \A n \in 1..N : f[n - 1] \in G => f[n] \in G
  PROVE  \A n \in 0..N : f[n] \in G
<1> DEFINE P == {n \in 0..N : f[n] \in G}
<1>1. 0 \in P
  OBVIOUS
<1>2. ASSUME NEW n \in 0..(N - 1), n \in P PROVE n + 1 \in P
  <2>1. n + 1 \in 1..N /\ (n + 1) - 1 = n /\ n + 1 \in 0..N
    OBVIOUS
  <2>2. f[(n + 1) - 1] \in G
    BY <1>2, <2>1
  <2>3. f[n + 1] \in G
    BY <2>1, <2>2
  <2> QED
    BY <2>1, <2>3
<1> HIDE DEF P
<1>3. \A n \in 0..N : n \in P
  BY <1>1, <1>2, SetInduction
<1> QED
  BY <1>3 DEF P

\* The greatest number of a set that ends with it.
LEMMA MaxFacts ==
  ASSUME NEW n \in Nat, NEW t \in SUBSET (0..n), n \in t
  PROVE  Max(t) = n
<1>1. \A x \in t : x <= n /\ x \in Int
  OBVIOUS
<1>2. \A y \in t : n >= y
  BY <1>1
<1>3. Max(t) \in t /\ \A y \in t : Max(t) >= y
  BY <1>2, Zenon DEF Max
<1> DEFINE x == Max(t)
<1>4. x \in t /\ x >= n
  BY <1>3
<1> HIDE DEF x
<1>5. x = n
  BY <1>1, <1>4
<1> QED
  BY <1>5 DEF x

\* A set of numbers up to n that is not empty has a greatest one.
LEMMA MaxIsIn ==
  ASSUME NEW n \in Nat, NEW t \in SUBSET (0..n), t # {}
  PROVE  Max(t) \in t /\ \A y \in t : Max(t) >= y
<1> DEFINE P == {k \in 0..n : \A u \in SUBSET (0..k) : u # {} => \E x \in u : \A y \in u : x >= y}
<1>1. 0 \in P
  <2>1. 0..0 = {0} /\ 0 \in 0..n /\ 0 >= 0
    OBVIOUS
  <2>2. ASSUME NEW u \in SUBSET (0..0), u # {} PROVE \E x \in u : \A y \in u : x >= y
    <3>1. u = {0}
      BY <2>1, <2>2
    <3> QED
      BY <3>1
  <2> QED
    BY <2>1, <2>2
<1>2. ASSUME NEW k \in 0..(n - 1), k \in P PROVE k + 1 \in P
  <2>1. k + 1 \in 0..n /\ 0..(k + 1) = (0..k) \cup {k + 1} /\ \A y \in 0..(k + 1) : k + 1 >= y
    OBVIOUS
  <2>2. ASSUME NEW u \in SUBSET (0..(k + 1)), u # {} PROVE \E x \in u : \A y \in u : x >= y
    <3>1. CASE k + 1 \in u
      BY <2>1, <3>1
    <3>2. CASE k + 1 \notin u
      <4>1. u \in SUBSET (0..k)
        BY <2>1, <3>2
      <4> QED
        BY <1>2, <2>2, <4>1
    <3> QED
      BY <3>1, <3>2
  <2> QED
    BY <2>1, <2>2
<1> HIDE DEF P
<1>3. n \in P
  BY <1>1, <1>2, SetInduction
<1>4. \E x \in t : \A y \in t : x >= y
  BY <1>3 DEF P
<1> QED
  BY <1>4, Zenon DEF Max

\* A set of numbers that is not empty has a least one.
LEMMA MinFacts ==
  ASSUME NEW t \in SUBSET Nat, t # {}
  PROVE  Min(t) \in t /\ \A y \in t : Min(t) <= y
<1> DEFINE R == OpToRel(<, Nat)
<1>1. IsWellFoundedOn(R, Nat)
  BY NatLessThanWellFounded, Zenon
<1>2. PICK x \in t : \A y \in t : <<y, x>> \notin R
  <2> HIDE DEF R
  <2> QED
    BY <1>1, WFMin
<1>3. \A y, z \in Nat : y < z => <<y, z>> \in R
  BY DEF OpToRel
<1> HIDE DEF R
<1>4. ASSUME NEW y \in t PROVE x <= y
  <2>1. ~(y < x)
    BY <1>2, <1>3
  <2>2. x \in Nat /\ y \in Nat
    OBVIOUS
  <2> QED
    BY <2>1, <2>2
<1>5. \E z \in t : \A y \in t : z <= y
  BY <1>4
<1> QED
  BY <1>5, Zenon DEF Min

\* The function by which a fold over N entries is defined, on the sets of their
\* numbers: F makes a turn with the last of them.
IsFold(h, N, b, F) ==
  \A t \in SUBSET (1..N) : h[t] = IF t = {} THEN b ELSE F[<<h[t \ {Max(t)}], Max(t)>>]

\* There is a function like the one by which a fold over a sequence is defined.
LEMMA FoldExists ==
  ASSUME NEW N \in Nat, NEW G, NEW b \in G, NEW F \in [G \X (1..N) -> G]
  PROVE  \E h \in [SUBSET (1..N) -> G] : IsFold(h, N, b, F)
<1> DEFINE P == {n \in 0..N : \E h \in [SUBSET (1..n) -> G] : IsFold(h, n, b, F)}
<1>1. 0 \in P
  <2> DEFINE h == [t \in SUBSET (1..0) |-> b]
  <2>1. h \in [SUBSET (1..0) -> G]
    OBVIOUS
  <2>2. \A t \in SUBSET (1..0) : t = {} /\ h[t] = b
    OBVIOUS
  <2> HIDE DEF h
  <2>3. IsFold(h, 0, b, F)
    BY <2>2 DEF IsFold
  <2>4. 0 \in 0..N
    OBVIOUS
  <2> QED
    BY <2>1, <2>3, <2>4
<1>2. ASSUME NEW n \in 0..(N - 1), n \in P PROVE n + 1 \in P
  <2>1. PICK h \in [SUBSET (1..n) -> G] : IsFold(h, n, b, F)
    BY <1>2
  <2> DEFINE m == n + 1
             k == [t \in SUBSET (1..m) |-> IF m \in t THEN F[<<h[t \ {m}], m>>] ELSE h[t]]
  <2>2. n \in Nat /\ m \in Nat /\ m \in 1..N /\ m \in 0..N /\ 1..m = (1..n) \cup {m} /\ m \notin 1..n
    OBVIOUS
  <2> HIDE DEF m
  <2>3. \A t \in SUBSET (1..m) : /\ t \ {m} \in SUBSET (1..n)
                                 /\ m \notin t => t \in SUBSET (1..n)
                                 /\ m \in t => Max(t) = m
    <3> SUFFICES ASSUME NEW t \in SUBSET (1..m)
                 PROVE  /\ t \ {m} \in SUBSET (1..n)
                        /\ m \notin t => t \in SUBSET (1..n)
                        /\ m \in t => Max(t) = m
      OBVIOUS
    <3>1. t \in SUBSET (0..m)
      BY <2>2
    <3>2. m \in t => Max(t) = m
      BY <2>2, <3>1, MaxFacts
    <3> QED
      BY <2>2, <3>2
  <2>4. k \in [SUBSET (1..m) -> G]
    BY <2>2, <2>3
  <2>5. ASSUME NEW t \in SUBSET (1..m)
        PROVE  k[t] = IF t = {} THEN b ELSE F[<<k[t \ {Max(t)}], Max(t)>>]
    <3>1. CASE m \in t
      <4>1. k[t] = F[<<h[t \ {m}], m>>] /\ Max(t) = m /\ t # {}
        BY <2>3, <3>1
      <4>2. t \ {m} \in SUBSET (1..m) /\ m \notin t \ {m}
        BY <2>2
      <4>3. k[t \ {m}] = h[t \ {m}]
        BY <4>2
      <4> HIDE DEF k
      <4> QED
        BY <4>1, <4>3
    <3>2. CASE m \notin t
      <4>1. k[t] = h[t] /\ t \in SUBSET (1..n)
        BY <2>3, <3>2
      <4>2. t \ {Max(t)} \in SUBSET (1..m) /\ m \notin t \ {Max(t)}
        BY <3>2
      <4>3. k[t \ {Max(t)}] = h[t \ {Max(t)}]
        BY <4>2
      <4> HIDE DEF k
      <4> QED
        BY <2>1, <4>1, <4>3 DEF IsFold
    <3> QED
      BY <3>1, <3>2
  <2> HIDE DEF k
  <2>6. IsFold(k, m, b, F)
    BY <2>5 DEF IsFold
  <2>7. m \in P
    BY <2>2, <2>4, <2>6
  <2> QED
    BY <2>7 DEF m
<1> HIDE DEF P
<1>3. N \in P
  BY <1>1, <1>2, SetInduction
<1> QED
  BY <1>3 DEF P

\* The beginnings of a sequence, on which such a function takes the value of each turn.
LEMMA Beginnings ==
  ASSUME NEW N \in Nat
  PROVE  /\ 1..0 = {} /\ 1..0 \in SUBSET (1..N)
         /\ \A n \in 1..N : /\ 1..n \in SUBSET (1..N) /\ 1..n # {}
                            /\ Max(1..n) = n /\ (1..n) \ {n} = 1..(n - 1)
<1>1. ASSUME NEW n \in 1..N
      PROVE  /\ 1..n \in SUBSET (1..N) /\ 1..n # {}
             /\ Max(1..n) = n /\ (1..n) \ {n} = 1..(n - 1)
  <2>1. 1..n \in SUBSET (1..N) /\ n \in 1..n /\ 1..n \in SUBSET (0..n)
    OBVIOUS
  <2>2. Max(1..n) = n
    BY <2>1, MaxFacts
  <2>3. (1..n) \ {n} = 1..(n - 1)
    OBVIOUS
  <2> QED
    BY <2>1, <2>2, <2>3
<1> QED
  BY <1>1

===============================================================================
