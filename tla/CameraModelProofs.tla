------------------------- MODULE CameraModelProofs -------------------------
(***************************************************************************)
(* Proofs about the camera grid.                                           *)
(***************************************************************************)
EXTENDS CameraModel, SequenceFacts

-----------------------------------------------------------------------------
(* The two loops. *)

\* The turns of the pass of onStoreUpdated over the rows s.
Turns(f, b, s) ==
  /\ f[0] = b
  /\ \A n \in 1..Len(s) : f[n] = AutoSplitRow(f[n - 1], s[n])

Closed(G, T) == \A g \in G, e \in T : AutoSplitRow(g, e) \in G

\* The pass ends with its last turn.
LEMMA AutoSplitLoop ==
  ASSUME NEW T, NEW s \in Seq(T), NEW G, NEW b \in G, Closed(G, T)
  PROVE  \E f : Turns(f, b, s) /\ AutoSplitRows(b, s) = f[Len(s)]
<1> DEFINE N == Len(s)
           Turn(g, t) == [u \in SUBSET t |-> IF u = {} THEN b
                            ELSE AutoSplitRow(g[u \ {Max(u)}], s[Max(u)])]
           F == [p \in G \X (1..N) |-> AutoSplitRow(p[1], s[p[2]])]
<1>1. \E h : AutoSplitRows(b, s) = h[DOMAIN s] /\ h = CHOOSE g : g = Turn(g, DOMAIN s)
  BY Zenon DEF AutoSplitRows, FoldLeft, MapThenFoldSet
<1>2. N \in Nat /\ DOMAIN s = 1..N /\ \A n \in 1..N : s[n] \in T
  OBVIOUS
<1>3. F \in [G \X (1..N) -> G]
  BY <1>2 DEF Closed
<1>4. \A g \in G, n \in 1..N : F[<<g, n>>] = AutoSplitRow(g, s[n])
  BY <1>2
<1>5. PICK h \in [SUBSET (1..N) -> G] : IsFold(h, N, b, F)
  <2>1. N \in Nat /\ b \in G
    BY <1>2
  <2> HIDE DEF F, N
  <2> QED
    BY <1>3, <2>1, FoldExists
<1>6. ASSUME NEW t \in SUBSET (1..N)
      PROVE  h[t] = IF t = {} THEN b ELSE AutoSplitRow(h[t \ {Max(t)}], s[Max(t)])
  <2>1. ASSUME t # {} PROVE Max(t) \in 1..N /\ h[t \ {Max(t)}] \in G
    <3>1. t \in SUBSET (0..N)
      BY <1>2
    <3>2. Max(t) \in t
      BY <1>2, <2>1, <3>1, MaxIsIn
    <3> QED
      BY <3>2
  <2> HIDE DEF F, N
  <2> QED
    BY <1>4, <1>5, <2>1 DEF IsFold
<1>7. h = Turn(h, 1..N)
  BY <1>6, Zenon
<1>8. PICK g : AutoSplitRows(b, s) = g[DOMAIN s] /\ g = Turn(g, DOMAIN s)
  BY <1>1, <1>2, <1>7, Zenon
<1> DEFINE f == [n \in 0..N |-> g[1..n]]
<1>9. \A t \in SUBSET (1..N) :
        g[t] = IF t = {} THEN b ELSE AutoSplitRow(g[t \ {Max(t)}], s[Max(t)])
  BY <1>2, <1>8, Zenon
<1>10. f[0] = b
  <2>1. 0 \in 0..N /\ 1..0 = {} /\ 1..0 \in SUBSET (1..N)
    BY <1>2
  <2> QED
    BY <1>9, <2>1, Zenon
<1>11. ASSUME NEW n \in 1..N PROVE f[n] = AutoSplitRow(f[n - 1], s[n])
  <2>1. /\ n \in 0..N /\ n - 1 \in 0..N /\ 1..n \in SUBSET (1..N) /\ 1..n # {}
        /\ Max(1..n) = n /\ (1..n) \ {n} = 1..(n - 1)
    BY <1>2, Beginnings
  <2> QED
    BY <1>9, <2>1, Zenon
<1>12. f[N] = g[DOMAIN s]
  BY <1>2
<1> HIDE DEF f
<1> QED
  BY <1>8, <1>10, <1>11, <1>12 DEF Turns

\* The rows a merge keeps, turn by turn.
LEMMA KeptLoop ==
  ASSUME NEW T, NEW s \in Seq(T), NEW removed
  PROVE  \E f : /\ f[0] = <<>>
                /\ \A n \in 1..Len(s) :
                     f[n] = IF n \in removed THEN f[n - 1] ELSE Append(f[n - 1], n)
                /\ Kept(s, removed) = f[Len(s)]
<1> DEFINE N == Len(s)
           G == Seq(1..N)
           b == <<>>
           F == [p \in G \X (1..N) |-> IF p[2] \in removed THEN p[1] ELSE Append(p[1], p[2])]
           id == [i \in DOMAIN s |-> i]
           Turn(g) == [u \in SUBSET DOMAIN id |-> IF u = {} THEN b
                         ELSE IF id[Max(u)] \in removed THEN g[u \ {Max(u)}]
                              ELSE Append(g[u \ {Max(u)}], id[Max(u)])]
<1>1. \E h : Kept(s, removed) = h[DOMAIN id] /\ h = CHOOSE g : g = Turn(g)
  BY Zenon DEF Kept, FoldLeftDomain, FoldLeft, MapThenFoldSet
<1>2. N \in Nat /\ DOMAIN id = 1..N /\ b \in G /\ \A n \in 1..N : id[n] = n
  OBVIOUS
<1>3. F \in [G \X (1..N) -> G]
  <2>1. \A g \in G, n \in 1..N : (IF n \in removed THEN g ELSE Append(g, n)) \in G
    <3> DEFINE D == 1..N
    <3> HIDE DEF D
    <3>1. \A g \in Seq(D), n \in D : (IF n \in removed THEN g ELSE Append(g, n)) \in Seq(D)
      OBVIOUS
    <3> QED
      BY <3>1 DEF D
  <2> HIDE DEF G, N
  <2> QED
    BY <2>1
<1>4. \A g \in G, n \in 1..N : F[<<g, n>>] = IF n \in removed THEN g ELSE Append(g, n)
  BY <1>2
<1>5. PICK h \in [SUBSET (1..N) -> G] : IsFold(h, N, b, F)
  <2> HIDE DEF F, N, G, b
  <2> QED
    BY <1>2, <1>3, FoldExists
<1> HIDE DEF id, b
<1>6. ASSUME NEW t \in SUBSET (1..N)
      PROVE  h[t] = IF t = {} THEN b
                    ELSE IF id[Max(t)] \in removed THEN h[t \ {Max(t)}]
                         ELSE Append(h[t \ {Max(t)}], id[Max(t)])
  <2>1. ASSUME t # {} PROVE Max(t) \in 1..N /\ id[Max(t)] = Max(t) /\ h[t \ {Max(t)}] \in G
    <3>1. t \in SUBSET (0..N)
      BY <1>2
    <3>2. Max(t) \in t
      BY <1>2, <2>1, <3>1, MaxIsIn
    <3> HIDE DEF G
    <3> QED
      BY <1>2, <3>2
  <2> HIDE DEF F, N, G
  <2> QED
    BY <1>4, <1>5, <2>1 DEF IsFold
<1>7. h = Turn(h)
  <2> HIDE DEF F, N, G
  <2> QED
    BY <1>2, <1>6, Zenon
<1>8. PICK g : Kept(s, removed) = g[DOMAIN id] /\ g = Turn(g)
  <2> HIDE DEF F, N, G
  <2> QED
    BY <1>1, <1>7, Zenon
<1> DEFINE f == [n \in 0..N |-> g[1..n]]
<1>9. \A t \in SUBSET (1..N) :
        g[t] = IF t = {} THEN b
               ELSE IF id[Max(t)] \in removed THEN g[t \ {Max(t)}]
                    ELSE Append(g[t \ {Max(t)}], id[Max(t)])
  <2> HIDE DEF F, N, G
  <2> QED
    BY <1>2, <1>8, Zenon
<1>10. f[0] = <<>>
  <2>1. 0 \in 0..N /\ 1..0 = {} /\ 1..0 \in SUBSET (1..N)
    BY <1>2
  <2>2. f[0] = b
    BY <1>9, <2>1, Zenon
  <2> QED
    BY <2>2 DEF b
<1>11. ASSUME NEW n \in 1..N
       PROVE  f[n] = IF n \in removed THEN f[n - 1] ELSE Append(f[n - 1], n)
  <2>1. /\ n \in 0..N /\ n - 1 \in 0..N /\ 1..n \in SUBSET (1..N) /\ 1..n # {}
        /\ Max(1..n) = n /\ (1..n) \ {n} = 1..(n - 1) /\ id[n] = n
    BY <1>2, Beginnings
  <2> QED
    BY <1>9, <2>1, Zenon
<1>12. f[N] = g[DOMAIN id]
  BY <1>2
<1> HIDE DEF f
<1> QED
  BY <1>8, <1>10, <1>11, <1>12

\* The numbers up to N that are not removed, each of them once.
KeepsTheRest(k, N, removed) ==
  /\ k \in Seq(1..N)
  /\ \A p, q \in DOMAIN k : k[p] = k[q] => p = q
  /\ \A p \in DOMAIN k : k[p] \notin removed
  /\ \A n \in 1..N : n \notin removed => \E p \in DOMAIN k : k[p] = n

\* The numbers of the rows a merge keeps.
LEMMA KeptFacts ==
  ASSUME NEW T, NEW s \in Seq(T), NEW removed
  PROVE  KeepsTheRest(Kept(s, removed), Len(s), removed)
<1> DEFINE N == Len(s)
           Keeps(k, n) == /\ k \in Seq(1..N)
                          /\ \A p \in DOMAIN k : k[p] <= n /\ k[p] \notin removed
                          /\ \A p, q \in DOMAIN k : k[p] = k[q] => p = q
                          /\ \A i \in 1..N : i <= n /\ i \notin removed =>
                               \E p \in DOMAIN k : k[p] = i
<1>1. PICK f : /\ f[0] = <<>>
               /\ \A n \in 1..N : f[n] = IF n \in removed THEN f[n - 1] ELSE Append(f[n - 1], n)
               /\ Kept(s, removed) = f[N]
  BY KeptLoop
<1> DEFINE P == {n \in 0..N : Keeps(f[n], n)}
<1>2. N \in Nat
  OBVIOUS
<1> HIDE DEF N
<1>3. 0 \in P
  <2>1. 0 \in 0..N /\ \A i \in 1..N : ~(i <= 0)
    BY <1>2
  <2>2. f[0] \in Seq(1..N) /\ DOMAIN f[0] = {}
    BY <1>1
  <2>3. Keeps(f[0], 0)
    BY <2>1, <2>2
  <2> QED
    BY <2>1, <2>3
<1>4. ASSUME NEW n \in 0..(N - 1), n \in P PROVE n + 1 \in P
  <2> DEFINE m == n + 1
  <2>1. m \in 1..N /\ m - 1 = n /\ m \in 0..N /\ m \in Nat /\ n \in Nat
    BY <1>2
  <2>2. Keeps(f[n], n)
    BY <1>4
  <2>3. f[m] = IF m \in removed THEN f[n] ELSE Append(f[n], m)
    BY <1>1, <2>1
  <2>4. \A i \in 1..N : i <= m => i <= n \/ i = m
    OBVIOUS
  <2>5. \A i \in 1..N : i <= n => i <= m /\ i # m
    BY <2>1
  <2> HIDE DEF m
  <2>6. CASE m \in removed
    <3>1. f[m] = f[n]
      BY <2>3, <2>6
    <3>2. Keeps(f[n], m)
      <4> DEFINE k == f[n]
      <4>1. /\ k \in Seq(1..N) /\ \A p \in DOMAIN k : k[p] <= n /\ k[p] \notin removed
            /\ \A p, q \in DOMAIN k : k[p] = k[q] => p = q
            /\ \A i \in 1..N : i <= n /\ i \notin removed => \E p \in DOMAIN k : k[p] = i
        BY <2>2, Zenon
      <4> HIDE DEF k
      <4>2. \A p \in DOMAIN k : k[p] \in 1..N
        BY <4>1, Entries
      <4>3. \A p \in DOMAIN k : k[p] <= m
        BY <2>1, <4>1, <4>2
      <4>4. \A i \in 1..N : i <= m /\ i \notin removed => \E p \in DOMAIN k : k[p] = i
        BY <2>4, <2>6, <4>1
      <4>5. Keeps(k, m)
        BY <4>1, <4>3, <4>4, Zenon
      <4> QED
        BY <4>5 DEF k
    <3>3. Keeps(f[m], m)
      BY <3>1, <3>2, Zenon
    <3> QED
      BY <2>1, <3>3 DEF m
  <2>7. CASE m \notin removed
    <3> DEFINE k == f[n]
               l == f[m]
    <3>1. l = Append(k, m) /\ k \in Seq(1..N)
      BY <2>2, <2>3, <2>7
    <3>2. /\ l \in Seq(1..N) /\ Len(k) \in Nat /\ DOMAIN k = 1..Len(k)
          /\ DOMAIN l = 1..(Len(k) + 1) /\ l[Len(k) + 1] = m
          /\ \A p \in DOMAIN k : l[p] = k[p]
      <4> HIDE DEF k, l
      <4> QED
        BY <2>1, <3>1, QueueFacts
    <3>3. /\ \A p \in DOMAIN k : k[p] <= n /\ k[p] \notin removed
          /\ \A p, q \in DOMAIN k : k[p] = k[q] => p = q
          /\ \A i \in 1..N : i <= n /\ i \notin removed => \E p \in DOMAIN k : k[p] = i
      BY <2>2, Zenon
    <3> HIDE DEF k, l
    <3>10. \A p \in DOMAIN k : k[p] \in 1..N
      BY <3>1, Entries
    <3>4. \A p \in DOMAIN l :
             \/ p \in DOMAIN k /\ l[p] = k[p] /\ l[p] # m
             \/ p = Len(k) + 1 /\ l[p] = m
      <4>1. \A p \in DOMAIN k : k[p] # m
        BY <2>1, <3>3, <3>10
      <4> QED
        BY <3>2, <4>1
    <3>5. \A p \in DOMAIN l : l[p] <= m /\ l[p] \notin removed
      BY <2>1, <2>5, <2>7, <3>3, <3>4, <3>10
    <3>6. \A p, q \in DOMAIN l : l[p] = l[q] => p = q
      BY <3>3, <3>4
    <3>7. \A i \in 1..N : i <= m /\ i \notin removed => \E p \in DOMAIN l : l[p] = i
      BY <2>4, <3>2, <3>3
    <3>8. Keeps(l, m)
      BY <3>2, <3>5, <3>6, <3>7
    <3>9. Keeps(f[m], m)
      BY <3>8 DEF l
    <3> QED
      BY <2>1, <3>9 DEF m
  <2> QED
    BY <2>6, <2>7
<1> HIDE DEF P
<1>5. \A n \in 0..N : n \in P
  BY <1>2, <1>3, <1>4, SetInduction
<1>6. Keeps(Kept(s, removed), N)
  <2>1. N \in 0..N
    BY <1>2
  <2>2. N \in P
    BY <1>5, <2>1
  <2> QED
    BY <1>1, <2>2, Zenon DEF P
<1>7. \A n \in 1..N : n <= N
  BY <1>2
<1> QED
  BY <1>6, <1>7, Zenon DEF N, KeepsTheRest

-----------------------------------------------------------------------------
(* The inductive invariant, first about a set of rows, then about the members *)
(* a handler works on as one value.                                           *)

\* A row is a whole card, or one tile of a split whose group has been numbered.
EntryOK(e, groups) ==
  /\ e \in CameraEntry
  /\ e.splitCount = 1 =>
       e.splitGroupId = -1 /\ e.splitIndex = 0 /\ e.cropRect = FullFrame
  /\ e.splitCount > 1 =>
       /\ e.splitGroupId \in 1..(groups - 1)
       /\ ValidCount(e.splitCount, e.splitDirection)
       /\ e.splitIndex \in 0..(e.splitCount - 1)
       /\ e.cropRect = computeCropRect(e.splitIndex, e.splitCount, e.splitDirection)

Alike(d, e) ==
  /\ d.splitCount = e.splitCount
  /\ d.splitGroupId = e.splitGroupId
  /\ d.splitDirection = e.splitDirection
  /\ d.isOnline = e.isOnline

\* The rows of a camera belong to one split, a split belongs to one camera.
Together(S) ==
  \A d, e \in S :
    /\ d.cameraId = e.cameraId => Alike(d, e) /\ (d.splitIndex = e.splitIndex => d = e)
    /\ d.splitGroupId = e.splitGroupId /\ d.splitGroupId # -1 => d.cameraId = e.cameraId

\* No tile of a split is missing.
Complete(S) ==
  \A e \in S : \A i \in 0..(e.splitCount - 1) :
    \E d \in S : d.cameraId = e.cameraId /\ d.splitIndex = i

RowsOK(S, groups) == (\A e \in S : EntryOK(e, groups)) /\ Together(S) /\ Complete(S)

\* The layouts, one by one.
LEMMA Layouts ==
  ASSUME NEW n \in 1..4, NEW direction, ValidCount(n, direction)
  PROVE  \/ n = 2 /\ direction = "Col"
         \/ n = 3 /\ direction = "Col"
         \/ n = 4 /\ direction = "Col"
         \/ n = 2 /\ direction = "Row"
         \/ n = 3 /\ direction = "Row"
         \/ n = 4 /\ direction = "Grid"
  BY DEF ValidCount

\* The rectangle of every tile of every layout, in twelfths of the frame.
LEMMA Crops ==
  /\ \A i \in 0..1 : computeCropRect(i, 2, "Col") = [x |-> i * 6, y |-> 0, w |-> 6, h |-> 12]
  /\ \A i \in 0..2 : computeCropRect(i, 3, "Col") = [x |-> i * 4, y |-> 0, w |-> 4, h |-> 12]
  /\ \A i \in 0..3 : computeCropRect(i, 4, "Col") = [x |-> i * 3, y |-> 0, w |-> 3, h |-> 12]
  /\ \A i \in 0..1 : computeCropRect(i, 2, "Row") = [x |-> 0, y |-> i * 6, w |-> 12, h |-> 6]
  /\ \A i \in 0..2 : computeCropRect(i, 3, "Row") = [x |-> 0, y |-> i * 4, w |-> 12, h |-> 4]
  /\ computeCropRect(0, 4, "Grid") = [x |-> 0, y |-> 0, w |-> 6, h |-> 6]
  /\ computeCropRect(1, 4, "Grid") = [x |-> 6, y |-> 0, w |-> 6, h |-> 6]
  /\ computeCropRect(2, 4, "Grid") = [x |-> 0, y |-> 6, w |-> 6, h |-> 6]
  /\ computeCropRect(3, 4, "Grid") = [x |-> 6, y |-> 6, w |-> 6, h |-> 6]
<1>1. /\ 12 \div 2 = 6 /\ 12 \div 3 = 4 /\ 12 \div 4 = 3
      /\ 2 \in 2..4 /\ 3 \in 2..4 /\ 4 \in 2..4 /\ 2 \in 2..3 /\ 3 \in 2..3
  OBVIOUS
<1>2. /\ 0 % 2 = 0 /\ 1 % 2 = 1 /\ 2 % 2 = 0 /\ 3 % 2 = 1
      /\ 0 \div 2 = 0 /\ 1 \div 2 = 0 /\ 2 \div 2 = 1 /\ 3 \div 2 = 1
      /\ 0 * 6 = 0 /\ 1 * 6 = 6
  OBVIOUS
<1>3. "Col" # "Row" /\ "Col" # "Grid" /\ "Row" # "Grid"
  OBVIOUS
<1>4. \A i, n : n \in 2..4 => computeCropRect(i, n, "Col") =
                 [x |-> i * (12 \div n), y |-> 0, w |-> 12 \div n, h |-> 12]
  BY <1>3 DEF computeCropRect, Frame
<1>5. \A i, n : n \in 2..3 => computeCropRect(i, n, "Row") =
                 [x |-> 0, y |-> i * (12 \div n), w |-> 12, h |-> 12 \div n]
  BY <1>3 DEF computeCropRect, Frame
<1>6. \A i : computeCropRect(i, 4, "Grid") =
                 [x |-> (i % 2) * (12 \div 2), y |-> (i \div 2) * (12 \div 2),
                  w |-> 12 \div 2, h |-> 12 \div 2]
  BY <1>3 DEF computeCropRect, Frame
<1>7. /\ \A i \in 0..1 : computeCropRect(i, 2, "Col") = [x |-> i * 6, y |-> 0, w |-> 6, h |-> 12]
      /\ \A i \in 0..2 : computeCropRect(i, 3, "Col") = [x |-> i * 4, y |-> 0, w |-> 4, h |-> 12]
      /\ \A i \in 0..3 : computeCropRect(i, 4, "Col") = [x |-> i * 3, y |-> 0, w |-> 3, h |-> 12]
  BY <1>1, <1>4
<1>8. /\ \A i \in 0..1 : computeCropRect(i, 2, "Row") = [x |-> 0, y |-> i * 6, w |-> 12, h |-> 6]
      /\ \A i \in 0..2 : computeCropRect(i, 3, "Row") = [x |-> 0, y |-> i * 4, w |-> 12, h |-> 4]
  BY <1>1, <1>5
<1>9. /\ computeCropRect(0, 4, "Grid") = [x |-> 0, y |-> 0, w |-> 6, h |-> 6]
      /\ computeCropRect(1, 4, "Grid") = [x |-> 6, y |-> 0, w |-> 6, h |-> 6]
      /\ computeCropRect(2, 4, "Grid") = [x |-> 0, y |-> 6, w |-> 6, h |-> 6]
      /\ computeCropRect(3, 4, "Grid") = [x |-> 6, y |-> 6, w |-> 6, h |-> 6]
  BY <1>1, <1>2, <1>6
<1> QED
  BY <1>7, <1>8, <1>9

Rect == [x: 0..Frame, y: 0..Frame, w: 1..Frame, h: 1..Frame]

\* A tile is a part of the frame.
LEMMA CropsInFrame ==
  ASSUME NEW n \in 1..4, NEW direction, ValidCount(n, direction), NEW i \in 0..(n - 1)
  PROVE  computeCropRect(i, n, direction) \in Rect
<1>1. \A x, y \in 0..12, w, h \in 1..12 : [x |-> x, y |-> y, w |-> w, h |-> h] \in Rect
  BY DEF Rect, Frame
<1>0. /\ 0 \in 0..12 /\ 6 \in 0..12 /\ 12 \in 1..12
      /\ 6 \in 1..12 /\ 4 \in 1..12 /\ 3 \in 1..12
  OBVIOUS
<1>2. CASE n = 2 /\ direction = "Col"
  <2>1. i \in 0..1 /\ i * 6 \in 0..12
    BY <1>2
  <2>2. computeCropRect(i, n, direction) = [x |-> i * 6, y |-> 0, w |-> 6, h |-> 12]
    BY <1>2, <2>1, Crops
  <2> QED
    BY <1>0, <1>1, <2>1, <2>2
<1>3. CASE n = 3 /\ direction = "Col"
  <2>1. i \in 0..2 /\ i * 4 \in 0..12
    BY <1>3
  <2>2. computeCropRect(i, n, direction) = [x |-> i * 4, y |-> 0, w |-> 4, h |-> 12]
    BY <1>3, <2>1, Crops
  <2> QED
    BY <1>0, <1>1, <2>1, <2>2
<1>4. CASE n = 4 /\ direction = "Col"
  <2>1. i \in 0..3 /\ i * 3 \in 0..12
    BY <1>4
  <2>2. computeCropRect(i, n, direction) = [x |-> i * 3, y |-> 0, w |-> 3, h |-> 12]
    BY <1>4, <2>1, Crops
  <2> QED
    BY <1>0, <1>1, <2>1, <2>2
<1>5. CASE n = 2 /\ direction = "Row"
  <2>1. i \in 0..1 /\ i * 6 \in 0..12
    BY <1>5
  <2>2. computeCropRect(i, n, direction) = [x |-> 0, y |-> i * 6, w |-> 12, h |-> 6]
    BY <1>5, <2>1, Crops
  <2> QED
    BY <1>0, <1>1, <2>1, <2>2
<1>6. CASE n = 3 /\ direction = "Row"
  <2>1. i \in 0..2 /\ i * 4 \in 0..12
    BY <1>6
  <2>2. computeCropRect(i, n, direction) = [x |-> 0, y |-> i * 4, w |-> 12, h |-> 4]
    BY <1>6, <2>1, Crops
  <2> QED
    BY <1>0, <1>1, <2>1, <2>2
<1>7. CASE n = 4 /\ direction = "Grid"
  <2>1. i = 0 \/ i = 1 \/ i = 2 \/ i = 3
    BY <1>7
  <2>2. \E x, y \in {0, 6} :
          computeCropRect(i, n, direction) = [x |-> x, y |-> y, w |-> 6, h |-> 6]
    <3>1. CASE i = 0
      BY <1>7, <3>1, Crops
    <3>2. CASE i = 1
      BY <1>7, <3>2, Crops
    <3>3. CASE i = 2
      BY <1>7, <3>3, Crops
    <3>4. CASE i = 3
      BY <1>7, <3>4, Crops
    <3> QED
      BY <2>1, <3>1, <3>2, <3>3, <3>4
  <2>3. {0, 6} \subseteq 0..12
    OBVIOUS
  <2>4. PICK x \in 0..12, y \in 0..12 :
          computeCropRect(i, n, direction) = [x |-> x, y |-> y, w |-> 6, h |-> 6]
    BY <2>2, <2>3
  <2> QED
    BY <1>0, <1>1, <2>4
<1> QED
  BY <1>2, <1>3, <1>4, <1>5, <1>6, <1>7, Layouts

IsTile(t, e, slotId, group, i, n, direction) ==
  /\ EntryOK(t, group + 1)
  /\ t.slotId = slotId
  /\ t.cameraId = e.cameraId
  /\ t.isOnline = e.isOnline
  /\ t.splitCount = n
  /\ t.splitDirection = direction
  /\ t.splitGroupId = group
  /\ t.splitIndex = i

\* What a tile is.
LEMMA TileFacts ==
  ASSUME NEW e \in CameraEntry, NEW slotId \in Nat, NEW group \in Nat \ {0},
         NEW n \in 1..4, NEW direction, ValidCount(n, direction), NEW i \in 0..(n - 1)
  PROVE  IsTile(Tile(e, slotId, group, i, n, direction), e, slotId, group, i, n, direction)
<1> DEFINE crop == computeCropRect(i, n, direction)
           tile == Tile(e, slotId, group, i, n, direction)
<1>1. crop \in Rect
  BY CropsInFrame
<1>2. direction \in Directions /\ n > 1 /\ n # 1
  BY DEF ValidCount, Directions
<1> HIDE DEF crop
<1>3. e.cameraId \in Cameras /\ e.isOnline \in BOOLEAN
  BY DEF CameraEntry
<1>4. tile = [slotId |-> slotId, cameraId |-> e.cameraId, isOnline |-> e.isOnline,
              splitCount |-> n, splitDirection |-> direction, cropRect |-> crop,
              splitGroupId |-> group, splitIndex |-> i, deviceInfo |-> NoReading]
  <2> DEFINE new == NewEntry(slotId, e.cameraId, e.isOnline)
  <2>1. tile = [new EXCEPT !.splitCount = n, !.splitDirection = direction,
                           !.splitGroupId = group, !.splitIndex = i, !.cropRect = crop]
    BY Zenon DEF Tile, crop
  <2> DEFINE frame == FullFrame
  <2>2. new = [slotId |-> slotId, cameraId |-> e.cameraId, isOnline |-> e.isOnline,
               splitCount |-> 1, splitDirection |-> "None", cropRect |-> frame,
               splitGroupId |-> -1, splitIndex |-> 0, deviceInfo |-> NoReading]
    BY Zenon DEF NewEntry
  <2> HIDE DEF new, tile, frame
  <2> QED
    BY <2>1, <2>2
<1>5. i \in 0..3 /\ group \in Nat \cup {-1} /\ group \in 1..((group + 1) - 1)
  OBVIOUS
<1> HIDE DEF tile
<1>6. tile \in CameraEntry
  BY <1>1, <1>2, <1>3, <1>4, <1>5 DEF CameraEntry, Rect
<1>7. /\ tile.slotId = slotId /\ tile.cameraId = e.cameraId /\ tile.isOnline = e.isOnline
      /\ tile.splitCount = n /\ tile.splitDirection = direction /\ tile.cropRect = crop
      /\ tile.splitGroupId = group /\ tile.splitIndex = i
  BY <1>4
<1>8. EntryOK(tile, group + 1)
  <2>1. tile.cropRect = computeCropRect(tile.splitIndex, tile.splitCount, tile.splitDirection)
    BY <1>7 DEF crop
  <2> QED
    BY <1>2, <1>5, <1>6, <1>7, <2>1 DEF EntryOK
<1> QED
  BY <1>7, <1>8 DEF tile, IsTile

\* A whole card.
LEMMA NewEntryFacts ==
  ASSUME NEW slotId \in Nat, NEW cameraId \in Cameras, NEW isOnline \in BOOLEAN
  PROVE  /\ \A groups : EntryOK(NewEntry(slotId, cameraId, isOnline), groups)
         /\ NewEntry(slotId, cameraId, isOnline).slotId = slotId
         /\ NewEntry(slotId, cameraId, isOnline).cameraId = cameraId
         /\ NewEntry(slotId, cameraId, isOnline).splitCount = 1
         /\ NewEntry(slotId, cameraId, isOnline).isOnline = isOnline
<1> DEFINE e == NewEntry(slotId, cameraId, isOnline)
<1>1. FullFrame \in Rect
  BY DEF FullFrame, Rect, Frame
<1>2. /\ e.slotId = slotId /\ e.cameraId = cameraId /\ e.isOnline = isOnline
      /\ e.splitCount = 1 /\ e.splitGroupId = -1 /\ e.splitIndex = 0 /\ e.cropRect = FullFrame
  BY DEF NewEntry
<1>3. e \in CameraEntry
  <2> HIDE DEF FullFrame
  <2> QED
    BY <1>1 DEF NewEntry, CameraEntry, Rect
<1> HIDE DEF e
<1>4. \A groups : EntryOK(e, groups)
  BY <1>2, <1>3 DEF EntryOK
<1> QED
  BY <1>2, <1>4 DEF e

\* A camera that is shown whole has no other row.
LEMMA WholeIsAlone ==
  ASSUME NEW S, NEW groups, RowsOK(S, groups), NEW e \in S, e.splitCount = 1,
         NEW d \in S, d.cameraId = e.cameraId
  PROVE  d = e
<1>1. d.splitCount = 1
  BY DEF RowsOK, Together, Alike
<1>2. d.splitIndex = 0 /\ e.splitIndex = 0
  BY <1>1 DEF RowsOK, EntryOK
<1> QED
  BY <1>2 DEF RowsOK, Together

AreTiles(tiles, e, slotId, group, n, direction) ==
  tiles = {Tile(e, slotId + i - 1, group, i - 1, n, direction) : i \in 1..n}

\* A card is replaced by the tiles of its camera.
LEMMA SplitSet ==
  ASSUME NEW groups \in Nat \ {0}, NEW S, RowsOK(S, groups), NEW e \in S, e.splitCount = 1,
         NEW slotId \in Nat, NEW n \in 1..4, NEW direction, ValidCount(n, direction),
         NEW tiles, AreTiles(tiles, e, slotId, groups, n, direction)
  PROVE  RowsOK((S \ {e}) \cup tiles, groups + 1)
<1> DEFINE Q == (S \ {e}) \cup tiles
           T(i) == Tile(e, slotId + i - 1, groups, i - 1, n, direction)
<1>1. e \in CameraEntry
  BY DEF RowsOK, EntryOK
<1>2. ASSUME NEW i \in 1..n
      PROVE  /\ EntryOK(T(i), groups + 1) /\ T(i).cameraId = e.cameraId
             /\ T(i).isOnline = e.isOnline /\ T(i).splitCount = n /\ T(i).splitIndex = i - 1
             /\ T(i).splitDirection = direction /\ T(i).splitGroupId = groups
  <2> DEFINE k == slotId + i - 1
             j == i - 1
  <2>1. k \in Nat /\ j \in 0..(n - 1)
    OBVIOUS
  <2> HIDE DEF k, j
  <2> DEFINE t == Tile(e, k, groups, j, n, direction)
  <2>2. IsTile(t, e, k, groups, j, n, direction)
    BY <1>1, <2>1, TileFacts
  <2>3. T(i) = t /\ i - 1 = j
    BY DEF k, j
  <2> HIDE DEF t, T
  <2> QED
    BY <2>2, <2>3 DEF IsTile
<1>10. tiles = {T(i) : i \in 1..n}
  BY DEF AreTiles
<1> HIDE DEF T
<1>11. \A t \in tiles : /\ EntryOK(t, groups + 1) /\ t.cameraId = e.cameraId
                       /\ t.isOnline = e.isOnline /\ t.splitCount = n
                       /\ t.splitDirection = direction /\ t.splitGroupId = groups
  BY <1>2, <1>10
<1>3. \A t, u \in tiles : t.splitIndex = u.splitIndex => t = u
  <2>1. \A i, j \in 1..n : i - 1 = j - 1 => i = j
    OBVIOUS
  <2> QED
    <3> SUFFICES ASSUME NEW i \in 1..n, NEW j \in 1..n, T(i).splitIndex = T(j).splitIndex
                 PROVE  T(i) = T(j)
      BY <1>10
    <3>1. i = j
      BY <1>2, <2>1
    <3> QED
      BY <3>1
<1>4. \A k \in 0..(n - 1) : \E t \in tiles : t.splitIndex = k
  <2> SUFFICES ASSUME NEW k \in 0..(n - 1) PROVE \E t \in tiles : t.splitIndex = k
    OBVIOUS
  <2> DEFINE i == k + 1
  <2>1. i \in 1..n /\ i - 1 = k
    OBVIOUS
  <2> HIDE DEF i
  <2> QED
    BY <1>2, <1>10, <2>1
<1>5. \A d \in S \ {e} : d.cameraId # e.cameraId
  BY WholeIsAlone
<1>6. \A d \in S : /\ EntryOK(d, groups + 1) /\ d.splitGroupId # groups
  BY DEF RowsOK, EntryOK, CameraEntry
<1>7. \A d \in Q : EntryOK(d, groups + 1)
  BY <1>6, <1>11
<1>8. Together(Q)
  <2> SUFFICES ASSUME NEW c \in Q, NEW d \in Q
               PROVE  /\ c.cameraId = d.cameraId =>
                           Alike(c, d) /\ (c.splitIndex = d.splitIndex => c = d)
                      /\ c.splitGroupId = d.splitGroupId /\ c.splitGroupId # -1 =>
                           c.cameraId = d.cameraId
    BY DEF Together
  <2>1. CASE c \in tiles /\ d \in tiles
    BY <1>3, <1>11, <2>1 DEF Alike
  <2>2. CASE c \in S \ {e} /\ d \in S \ {e}
    BY <2>2 DEF RowsOK, Together
  <2>3. CASE c \in tiles /\ d \in S \ {e}
    BY <1>5, <1>6, <1>11, <2>3
  <2>4. CASE c \in S \ {e} /\ d \in tiles
    BY <1>5, <1>6, <1>11, <2>4
  <2> QED
    BY <2>1, <2>2, <2>3, <2>4
<1>9. Complete(Q)
  <2>1. ASSUME NEW d \in tiles, NEW i \in 0..(d.splitCount - 1)
        PROVE  \E c \in Q : c.cameraId = d.cameraId /\ c.splitIndex = i
    BY <1>4, <1>11
  <2>2. ASSUME NEW d \in S \ {e}, NEW i \in 0..(d.splitCount - 1)
        PROVE  \E c \in Q : c.cameraId = d.cameraId /\ c.splitIndex = i
    <3>1. PICK c \in S : c.cameraId = d.cameraId /\ c.splitIndex = i
      BY DEF RowsOK, Complete
    <3> QED
      BY <1>5, <3>1
  <2> HIDE DEF Q
  <2>3. \A d \in Q : d \in tiles \/ d \in S \ {e}
    BY DEF Q
  <2> QED
    BY <2>1, <2>2, <2>3 DEF Complete
<1> QED
  BY <1>7, <1>8, <1>9 DEF RowsOK

\* The tiles of a split are replaced by one card of its camera.
LEMMA MergeSet ==
  ASSUME NEW groups, NEW S, RowsOK(S, groups), NEW e \in S, e.splitGroupId # -1,
         NEW card, EntryOK(card, groups), card.splitCount = 1, card.cameraId = e.cameraId
  PROVE  RowsOK({d \in S : d.splitGroupId # e.splitGroupId} \cup {card}, groups)
<1> DEFINE K == {d \in S : d.splitGroupId # e.splitGroupId}
           Q == K \cup {card}
<1>1. \A d \in K : d \in S /\ d.cameraId # e.cameraId
  BY DEF RowsOK, Together, Alike
<1>2. card.splitGroupId = -1 /\ card.splitIndex = 0
  BY DEF EntryOK
<1>3. \A d \in Q : EntryOK(d, groups)
  BY DEF RowsOK
<1>4. Together(Q)
  <2> SUFFICES ASSUME NEW c \in Q, NEW d \in Q
               PROVE  /\ c.cameraId = d.cameraId =>
                           Alike(c, d) /\ (c.splitIndex = d.splitIndex => c = d)
                      /\ c.splitGroupId = d.splitGroupId /\ c.splitGroupId # -1 =>
                           c.cameraId = d.cameraId
    BY DEF Together
  <2>1. CASE c = card /\ d = card
    BY <2>1 DEF Alike
  <2>2. CASE c \in K /\ d \in K
    BY <1>1, <2>2 DEF RowsOK, Together
  <2>3. CASE c = card /\ d \in K
    BY <1>1, <1>2, <2>3
  <2>4. CASE c \in K /\ d = card
    BY <1>1, <1>2, <2>4
  <2> QED
    BY <2>1, <2>2, <2>3, <2>4
<1>5. Complete(Q)
  <2>1. ASSUME NEW i \in 0..(card.splitCount - 1)
        PROVE  \E c \in Q : c.cameraId = card.cameraId /\ c.splitIndex = i
    BY <1>2
  <2>2. ASSUME NEW d \in K, NEW i \in 0..(d.splitCount - 1)
        PROVE  \E c \in Q : c.cameraId = d.cameraId /\ c.splitIndex = i
    <3>1. PICK c \in S : c.cameraId = d.cameraId /\ c.splitIndex = i
      BY <1>1 DEF RowsOK, Complete
    <3>2. c \in K
      BY <1>1, <3>1 DEF RowsOK, Together, Alike
    <3> QED
      BY <3>1, <3>2
  <2> HIDE DEF Q
  <2>3. \A d \in Q : d = card \/ d \in K
    BY DEF Q
  <2> QED
    BY <2>1, <2>2, <2>3 DEF Complete
<1> QED
  BY <1>3, <1>4, <1>5 DEF RowsOK

\* Cards of cameras that have no row, one for each.
LEMMA AppendSet ==
  ASSUME NEW groups, NEW S, RowsOK(S, groups), NEW new,
         \A e \in new : EntryOK(e, groups) /\ e.splitCount = 1,
         \A d, e \in new : d.cameraId = e.cameraId => d = e,
         \A d \in S, e \in new : d.cameraId # e.cameraId
  PROVE  RowsOK(S \cup new, groups)
<1> DEFINE Q == S \cup new
<1>1. \A e \in new : e.splitGroupId = -1 /\ e.splitIndex = 0
  BY DEF EntryOK
<1>2. \A d \in Q : EntryOK(d, groups)
  BY DEF RowsOK
<1>3. Together(Q)
  <2> SUFFICES ASSUME NEW c \in Q, NEW d \in Q
               PROVE  /\ c.cameraId = d.cameraId =>
                           Alike(c, d) /\ (c.splitIndex = d.splitIndex => c = d)
                      /\ c.splitGroupId = d.splitGroupId /\ c.splitGroupId # -1 =>
                           c.cameraId = d.cameraId
    BY DEF Together
  <2>1. CASE c \in new /\ d \in new
    BY <1>1, <2>1 DEF Alike
  <2>2. CASE c \in S /\ d \in S
    BY <2>2 DEF RowsOK, Together
  <2>3. CASE c \in new /\ d \in S
    BY <1>1, <2>3
  <2>4. CASE c \in S /\ d \in new
    BY <1>1, <2>4
  <2> QED
    BY <2>1, <2>2, <2>3, <2>4
<1>4. Complete(Q)
  <2>1. ASSUME NEW d \in new, NEW i \in 0..(d.splitCount - 1)
        PROVE  \E c \in Q : c.cameraId = d.cameraId /\ c.splitIndex = i
    <3>1. i = 0
      OBVIOUS
    <3> QED
      BY <1>1, <3>1
  <2>2. ASSUME NEW d \in S, NEW i \in 0..(d.splitCount - 1)
        PROVE  \E c \in Q : c.cameraId = d.cameraId /\ c.splitIndex = i
    BY DEF RowsOK, Complete
  <2> HIDE DEF Q
  <2>3. \A d \in Q : d \in new \/ d \in S
    BY DEF Q
  <2> QED
    BY <2>1, <2>2, <2>3 DEF Complete
<1> QED
  BY <1>2, <1>3, <1>4 DEF RowsOK

SameShape(d, e) ==
  /\ d.cameraId = e.cameraId
  /\ d.splitCount = e.splitCount
  /\ d.splitDirection = e.splitDirection
  /\ d.cropRect = e.cropRect
  /\ d.splitGroupId = e.splitGroupId
  /\ d.splitIndex = e.splitIndex

\* Row p now shows what row P[p] showed.
Moved(D, R, Q, P) ==
  /\ \A p \in D : P[p] \in D /\ Q[p] \in CameraEntry /\ SameShape(Q[p], R[P[p]])
  /\ \A p, q \in D : P[p] = P[q] => p = q
  /\ \A p \in D : \E q \in D : P[q] = p
  /\ \A p, q \in D : Q[p].cameraId = Q[q].cameraId => Q[p].isOnline = Q[q].isOnline

\* Rows keep what they show, or exchange it, and the rows of a camera agree on
\* whether it is online.
LEMMA Rearranged ==
  ASSUME NEW groups, NEW D, NEW R, NEW Q, NEW P,
         RowsOK({R[n] : n \in D}, groups),
         \A p, q \in D : R[p] = R[q] => p = q,
         Moved(D, R, Q, P)
  PROVE  RowsOK({Q[n] : n \in D}, groups)
<1> DEFINE S == {R[n] : n \in D}
           V == {Q[n] : n \in D}
<1> USE DEF Moved
<1>1. \A p \in D : R[p] \in S /\ EntryOK(R[p], groups)
  BY DEF RowsOK
<1>2. \A d \in V : EntryOK(d, groups)
  <2> SUFFICES ASSUME NEW p \in D PROVE EntryOK(Q[p], groups)
    OBVIOUS
  <2>1. Q[p] \in CameraEntry /\ SameShape(Q[p], R[P[p]]) /\ EntryOK(R[P[p]], groups)
    BY <1>1
  <2> DEFINE d == Q[p]
             e == R[P[p]]
  <2> HIDE DEF d, e
  <2>2. d \in CameraEntry /\ SameShape(d, e) /\ EntryOK(e, groups)
    BY <2>1 DEF d, e
  <2>3. EntryOK(d, groups)
    BY <2>2 DEF EntryOK, SameShape
  <2> QED
    BY <2>3 DEF d
<1>3. Together(V)
  <2> SUFFICES ASSUME NEW p \in D, NEW q \in D
               PROVE  /\ Q[p].cameraId = Q[q].cameraId =>
                           /\ Alike(Q[p], Q[q])
                           /\ Q[p].splitIndex = Q[q].splitIndex => Q[p] = Q[q]
                      /\ Q[p].splitGroupId = Q[q].splitGroupId /\ Q[p].splitGroupId # -1 =>
                           Q[p].cameraId = Q[q].cameraId
    BY DEF Together
  <2> DEFINE c == R[P[p]]
             d == R[P[q]]
  <2>1. SameShape(Q[p], c) /\ SameShape(Q[q], d) /\ c \in S /\ d \in S
    BY <1>1
  <2>2. /\ c.cameraId = d.cameraId => Alike(c, d) /\ (c.splitIndex = d.splitIndex => c = d)
        /\ c.splitGroupId = d.splitGroupId /\ c.splitGroupId # -1 => c.cameraId = d.cameraId
    <3> HIDE DEF c, d
    <3> QED
      BY <2>1 DEF RowsOK, Together
  <2>3. c = d => p = q
    OBVIOUS
  <2>4. Q[p].cameraId = Q[q].cameraId => Q[p].isOnline = Q[q].isOnline
    OBVIOUS
  <2> HIDE DEF c, d
  <2> QED
    BY <2>1, <2>2, <2>3, <2>4 DEF SameShape, Alike
<1>4. Complete(V)
  <2> SUFFICES ASSUME NEW p \in D, NEW i \in 0..(Q[p].splitCount - 1)
               PROVE  \E c \in V : c.cameraId = Q[p].cameraId /\ c.splitIndex = i
    BY DEF Complete
  <2>1. SameShape(Q[p], R[P[p]]) /\ R[P[p]] \in S
    BY <1>1
  <2>2. i \in 0..(R[P[p]].splitCount - 1)
    BY <2>1 DEF SameShape
  <2>3. PICK d \in S : d.cameraId = R[P[p]].cameraId /\ d.splitIndex = i
    BY <2>1, <2>2 DEF RowsOK, Complete
  <2>4. PICK q \in D : R[P[q]] = d
    OBVIOUS
  <2>5. SameShape(Q[q], d)
    BY <2>4
  <2> QED
    BY <2>1, <2>3, <2>5 DEF SameShape
<1> QED
  BY <1>2, <1>3, <1>4 DEF RowsOK

-----------------------------------------------------------------------------
(* The members a handler works on. *)

Rows(R) == {R[n] : n \in DOMAIN R}

OneEach(R) == \A p, q \in DOMAIN R : R[p].slotId = R[q].slotId => p = q

GridValue == [cameras: Seq(CameraEntry), nextSlotId: Nat,
              nextSplitGroupId: Nat \ {0}, auto: SUBSET Nat]

GridOK(g) ==
  /\ g \in GridValue
  /\ OneEach(g.cameras)
  /\ \A e \in Rows(g.cameras) : e.slotId < g.nextSlotId
  /\ g.auto \subseteq Slots(g.cameras)
  /\ RowsOK(Rows(g.cameras), g.nextSplitGroupId)

\* A handler gives no row a number that was given before.
Follows(g, h) ==
  /\ h.nextSlotId >= g.nextSlotId
  /\ \A s \in Slots(h.cameras) : s \in Slots(g.cameras) \/ s >= g.nextSlotId

\* The slot ids are those of the rows.
LEMMA SlotsOfRows ==
  ASSUME NEW R
  PROVE  Slots(R) = {e.slotId : e \in Rows(R)}
  BY DEF Slots, Rows

Below(R, next) == \A e \in Rows(R) : e.slotId < next

Numbered(X, n, next) ==
  X \in [1..n -> CameraEntry] /\ \A i \in 1..n : X[i].slotId = next + i - 1

\* A row gives way to rows with numbers of their own.
LEMMA SplicedRows ==
  ASSUME NEW R \in Seq(CameraEntry), NEW next \in Nat, OneEach(R), Below(R, next),
         NEW r \in Nat, r \in DOMAIN R, NEW n \in 1..4, NEW X, Numbered(X, n, next)
  PROVE  /\ Splice(R, r, X) \in Seq(CameraEntry)
         /\ OneEach(Splice(R, r, X))
         /\ Rows(Splice(R, r, X)) = (Rows(R) \ {R[r]}) \cup Rows(X)
<1> DEFINE Q == Splice(R, r, X)
           N == Len(R)
           M == N + n - 1
<1>1. N \in Nat /\ DOMAIN R = 1..N /\ r \in 1..N /\ n \in Nat /\ n > 0 /\ M \in Nat
  <2>1. N \in Nat /\ DOMAIN R = 1..N
    OBVIOUS
  <2> HIDE DEF N
  <2> QED
    BY <2>1
<1>2. /\ Q \in Seq(CameraEntry) /\ DOMAIN Q = 1..M
      /\ \A p \in 1..M :
           /\ p < r => p \in DOMAIN R /\ Q[p] = R[p]
           /\ r <= p /\ p < r + n => p - r + 1 \in 1..n /\ Q[p] = X[p - r + 1]
           /\ p >= r + n => p - n + 1 \in DOMAIN R /\ Q[p] = R[p - n + 1]
  <2>1. Q \in Seq(CameraEntry) /\ Spliced(Q, R, r, X, n)
    <3> HIDE DEF N, M
    <3>1. X \in [1..n -> CameraEntry]
      BY DEF Numbered
    <3> QED
      BY <1>1, <3>1, SpliceFacts
  <2> HIDE DEF Q
  <2> QED
    BY <2>1, Zenon DEF Spliced
<1>3. \A q \in DOMAIN R : R[q] \in CameraEntry /\ R[q].slotId \in Nat /\ R[q].slotId < next
  <2>1. \A q \in DOMAIN R : R[q] \in CameraEntry
    BY Entries
  <2>2. \A e \in CameraEntry : e.slotId \in Nat
    BY DEF CameraEntry
  <2> QED
    BY <2>1, <2>2 DEF Rows, Below
<1>4. DOMAIN X = 1..n
  BY DEF Numbered
<1> HIDE DEF Q, N, M
<1>16. M = N + n - 1
  BY DEF M
<1>5. ASSUME NEW p \in 1..M
      PROVE  \/ /\ p < r /\ p \in DOMAIN R /\ p # r /\ Q[p] = R[p]
             \/ /\ p >= r /\ p < r + n /\ p - r + 1 \in 1..n /\ Q[p] = X[p - r + 1]
                /\ X[p - r + 1].slotId = next + (p - r)
             \/ /\ p >= r + n /\ p - n + 1 \in DOMAIN R /\ p - n + 1 # r /\ Q[p] = R[p - n + 1]
  <2>1. p < r \/ (r <= p /\ p < r + n) \/ p >= r + n
    BY <1>1
  <2>2. CASE p < r
    <3>1. p # r
      BY <1>1, <2>2
    <3>2. p \in DOMAIN R /\ Q[p] = R[p]
      BY <1>2, <2>2
    <3> QED
      BY <2>2, <3>1, <3>2
  <2>3. CASE r <= p /\ p < r + n
    <3>1. p - r + 1 \in 1..n /\ Q[p] = X[p - r + 1]
      BY <1>2, <2>3
    <3>2. next + (p - r + 1) - 1 = next + (p - r)
      BY <1>1
    <3>3. X[p - r + 1].slotId = next + (p - r + 1) - 1
      BY <3>1 DEF Numbered
    <3> QED
      BY <2>3, <3>1, <3>2, <3>3
  <2>4. CASE p >= r + n
    <3>1. p - n + 1 # r
      BY <1>1, <2>4
    <3> QED
      BY <1>2, <2>4, <3>1
  <2> QED
    BY <2>1, <2>2, <2>3, <2>4
<1>12. ASSUME NEW p \in 1..M, p >= r, p < r + n PROVE Q[p].slotId = next + (p - r)
  <2> DEFINE i == p - r + 1
  <2>1. i \in 1..n /\ Q[p] = X[i]
    BY <1>2, <1>12
  <2>2. next + i - 1 = next + (p - r)
    BY <1>1
  <2> HIDE DEF i
  <2> QED
    BY <2>1, <2>2 DEF Numbered
<1>13. ASSUME NEW p \in 1..M, p < r
       PROVE  p \in DOMAIN R /\ Q[p] = R[p] /\ Q[p].slotId \in Nat /\ Q[p].slotId < next
  <2>1. p \in DOMAIN R /\ Q[p] = R[p]
    BY <1>2, <1>13
  <2> QED
    BY <1>3, <2>1
<1>14. ASSUME NEW p \in 1..M, p >= r + n
       PROVE  /\ p - n + 1 \in DOMAIN R /\ Q[p] = R[p - n + 1]
              /\ Q[p].slotId \in Nat /\ Q[p].slotId < next
  <2>1. p - n + 1 \in DOMAIN R /\ Q[p] = R[p - n + 1]
    BY <1>2, <1>14
  <2> QED
    BY <1>3, <2>1
<1>15. \A p \in 1..M : /\ p < r \/ (p >= r /\ p < r + n) \/ p >= r + n
                       /\ p \in Int /\ (p >= r => next + (p - r) >= next)
  BY <1>1
<1>6. OneEach(Q)
  <2> SUFFICES ASSUME NEW p \in 1..M, NEW q \in 1..M, Q[p].slotId = Q[q].slotId
               PROVE  p = q
    BY <1>2 DEF OneEach
  <2>1. \A k, l \in DOMAIN R : R[k].slotId = R[l].slotId => k = l
    BY DEF OneEach
  <2>2. CASE p >= r /\ p < r + n
    <3>1. Q[p].slotId = next + (p - r) /\ ~(Q[q].slotId < next)
      BY <1>12, <1>15, <2>2
    <3>2. q >= r /\ q < r + n
      BY <1>13, <1>14, <1>15, <3>1
    <3>3. Q[q].slotId = next + (q - r)
      BY <1>12, <3>2
    <3>4. next + (p - r) = next + (q - r)
      BY <3>1, <3>3
    <3> QED
      BY <1>1, <3>4
  <2>3. CASE q >= r /\ q < r + n
    <3>1. Q[q].slotId = next + (q - r) /\ ~(Q[p].slotId < next)
      BY <1>12, <1>15, <2>3
    <3>2. p >= r /\ p < r + n
      BY <1>13, <1>14, <1>15, <3>1
    <3>3. Q[p].slotId = next + (p - r)
      BY <1>12, <3>2
    <3>4. next + (p - r) = next + (q - r)
      BY <3>1, <3>3
    <3> QED
      BY <1>1, <3>4
  <2>4. CASE p < r /\ q < r
    BY <1>13, <2>1, <2>4
  <2>5. CASE p >= r + n /\ q >= r + n
    <3> DEFINE k == p - n + 1
               l == q - n + 1
    <3>1. k \in DOMAIN R /\ l \in DOMAIN R /\ Q[p] = R[k] /\ Q[q] = R[l]
      BY <1>14, <2>5
    <3> HIDE DEF k, l
    <3>2. k = l
      BY <2>1, <3>1
    <3> QED
      BY <1>1, <3>2 DEF k, l
  <2>6. CASE p < r /\ q >= r + n
    <3> DEFINE l == q - n + 1
    <3>1. p \in DOMAIN R /\ l \in DOMAIN R /\ Q[p] = R[p] /\ Q[q] = R[l]
      BY <1>13, <1>14, <2>6
    <3> HIDE DEF l
    <3>2. p = l
      BY <2>1, <3>1
    <3> QED
      BY <1>1, <2>6, <3>2 DEF l
  <2>7. CASE q < r /\ p >= r + n
    <3> DEFINE k == p - n + 1
    <3>1. q \in DOMAIN R /\ k \in DOMAIN R /\ Q[q] = R[q] /\ Q[p] = R[k]
      BY <1>13, <1>14, <2>7
    <3> HIDE DEF k
    <3>2. q = k
      BY <2>1, <3>1
    <3> QED
      BY <1>1, <2>7, <3>2 DEF k
  <2> QED
    BY <1>15, <2>2, <2>3, <2>4, <2>5, <2>6, <2>7
<1>7. \A q \in DOMAIN R : q # r => R[q] # R[r]
  BY DEF OneEach
<1>8. Rows(Q) \subseteq (Rows(R) \ {R[r]}) \cup Rows(X)
  <2> SUFFICES ASSUME NEW p \in 1..M PROVE Q[p] \in (Rows(R) \ {R[r]}) \cup Rows(X)
    BY <1>2 DEF Rows
  <2> QED
    BY <1>4, <1>5, <1>7 DEF Rows
<1>9. ASSUME NEW q \in DOMAIN R, q # r PROVE \E p \in 1..M : Q[p] = R[q]
  <2>1. CASE q < r
    <3>1. q \in 1..M
      BY <1>1, <1>16, <2>1
    <3> QED
      BY <1>2, <2>1, <3>1
  <2>2. CASE q > r
    <3> DEFINE p == q + n - 1
    <3>1. p \in 1..M /\ p >= r + n /\ p - n + 1 = q
      BY <1>1, <1>16, <2>2
    <3> HIDE DEF p
    <3> QED
      BY <1>2, <3>1
  <2> QED
    BY <1>1, <1>9, <2>1, <2>2
<1>10. ASSUME NEW i \in 1..n PROVE \E p \in 1..M : Q[p] = X[i]
  <2> DEFINE p == r + i - 1
  <2>1. p \in 1..M /\ r <= p /\ p < r + n /\ p - r + 1 = i
    BY <1>1, <1>16
  <2> HIDE DEF p
  <2> QED
    BY <1>2, <2>1
<1>11. (Rows(R) \ {R[r]}) \cup Rows(X) \subseteq Rows(Q)
  <2>1. \A q \in DOMAIN R : R[q] # R[r] => R[q] \in Rows(Q)
    BY <1>2, <1>9 DEF Rows
  <2>2. \A i \in 1..n : X[i] \in Rows(Q)
    BY <1>2, <1>10 DEF Rows
  <2> QED
    BY <1>4, <2>1, <2>2 DEF Rows
<1> QED
  BY <1>2, <1>6, <1>8, <1>11 DEF Q

\* The fields of a grid.
LEMMA GridFacts ==
  ASSUME NEW g, GridOK(g)
  PROVE  /\ g.cameras \in Seq(CameraEntry) /\ g.nextSlotId \in Nat
         /\ g.nextSplitGroupId \in Nat \ {0} /\ g.auto \subseteq Slots(g.cameras)
         /\ OneEach(g.cameras) /\ (\A e \in Rows(g.cameras) : e.slotId < g.nextSlotId)
         /\ RowsOK(Rows(g.cameras), g.nextSplitGroupId)
  BY DEF GridOK, GridValue

\* Row e has given way to tiles of its camera, and only they have new marks.
Divided(g, h, e) ==
  /\ \A d \in Rows(h.cameras) :
       \/ d \in Rows(g.cameras) /\ d # e
       \/ d.splitCount > 1 /\ d.cameraId = e.cameraId /\ d.isOnline = e.isOnline
  /\ \A x \in h.auto : x \in g.auto \/ x >= g.nextSlotId

\* _splitSlotAtIndex keeps the grid in order.
LEMMA SplitGood ==
  ASSUME NEW g, GridOK(g), NEW r, NEW n \in 1..4, NEW direction, CanSplit(g, r, n, direction),
         NEW autoSplit \in BOOLEAN
  PROVE  /\ GridOK(SplitAt(g, r, n, direction, autoSplit))
         /\ Follows(g, SplitAt(g, r, n, direction, autoSplit))
         /\ Divided(g, SplitAt(g, r, n, direction, autoSplit), g.cameras[r])
<1> DEFINE R == g.cameras
           next == g.nextSlotId
           groups == g.nextSplitGroupId
           e == R[r]
           X == [i \in 1..n |-> Tile(e, next + i - 1, groups, i - 1, n, direction)]
           Q == Splice(R, r, X)
           marks == SplitMarks(g, e.slotId, X, autoSplit)
           h == SplitAt(g, r, n, direction, autoSplit)
<1>1. /\ R \in Seq(CameraEntry) /\ next \in Nat /\ groups \in Nat \ {0}
      /\ OneEach(R) /\ (\A d \in Rows(R) : d.slotId < next)
      /\ g.auto \subseteq Slots(R) /\ RowsOK(Rows(R), groups)
  BY GridFacts
<1>2. r \in DOMAIN R /\ ValidCount(n, direction) /\ e.splitCount = 1
  BY DEF CanSplit
<1>3. h = [cameras |-> Q, nextSlotId |-> next + n, nextSplitGroupId |-> groups + 1, auto |-> marks]
  BY DEF SplitAt, Splice
<1> HIDE DEF R, next, groups, h
<1>4. r \in Nat /\ e \in CameraEntry /\ e \in Rows(R)
  <2>1. Len(R) \in Nat /\ DOMAIN R = 1..Len(R)
    BY <1>1
  <2> QED
    BY <1>1, <1>2, <2>1, Entries DEF Rows
<1> HIDE DEF e
<1>5. ASSUME NEW i \in 1..n
      PROVE  /\ X[i] \in CameraEntry /\ X[i].slotId = next + i - 1 /\ X[i].splitCount = n
             /\ X[i].cameraId = e.cameraId /\ X[i].isOnline = e.isOnline
  <2> DEFINE k == next + i - 1
             j == i - 1
  <2>1. k \in Nat /\ j \in 0..(n - 1)
    BY <1>1
  <2>2. X[i] = Tile(e, k, groups, j, n, direction)
    OBVIOUS
  <2> HIDE DEF k, j, X
  <2>3. IsTile(X[i], e, k, groups, j, n, direction)
    BY <1>1, <1>2, <1>4, <2>1, <2>2, TileFacts
  <2> QED
    BY <2>3 DEF IsTile, EntryOK, k
<1>6. X \in [1..n -> CameraEntry] /\ DOMAIN X = 1..n
  BY <1>5
<1>7. Rows(X) = {Tile(e, next + i - 1, groups, i - 1, n, direction) : i \in 1..n}
  BY DEF Rows
<1> HIDE DEF X
<1>8. /\ Q \in Seq(CameraEntry) /\ OneEach(Q)
      /\ Rows(Q) = (Rows(R) \ {e}) \cup Rows(X)
  <2>1. Numbered(X, n, next) /\ Below(R, next)
    BY <1>1, <1>5, <1>6 DEF Numbered, Below
  <2>2. R \in Seq(CameraEntry) /\ next \in Nat /\ OneEach(R) /\ r \in Nat /\ r \in DOMAIN R
    BY <1>1, <1>2, <1>4
  <2>3. /\ Q \in Seq(CameraEntry) /\ OneEach(Q)
        /\ Rows(Q) = (Rows(R) \ {R[r]}) \cup Rows(X)
    BY <2>1, <2>2, SplicedRows
  <2> QED
    BY <2>3 DEF e
<1> HIDE DEF Q
<1>9. RowsOK(Rows(Q), groups + 1)
  <2> DEFINE S == Rows(R)
             tiles == Rows(X)
  <2>1. AreTiles(tiles, e, next, groups, n, direction)
    BY <1>7 DEF AreTiles
  <2> HIDE DEF S, tiles
  <2>2. RowsOK(S, groups) /\ e \in S
    BY <1>1, <1>4 DEF S
  <2>3. RowsOK((S \ {e}) \cup tiles, groups + 1)
    BY <1>1, <1>2, <2>1, <2>2, SplitSet
  <2> QED
    BY <1>8, <2>3 DEF S, tiles
<1>10. \A d \in Rows(X) : d.slotId >= next /\ d.slotId < next + n
  <2>1. \A i \in 1..n : next + i - 1 >= next /\ next + i - 1 < next + n
    BY <1>1
  <2> QED
    BY <1>5, <1>6, <2>1 DEF Rows
<1>11. \A d \in Rows(R) : d.slotId \in Nat /\ d.slotId < next /\ d.slotId < next + n
  <2>1. \A d \in Rows(R) : d.slotId \in Nat
    BY <1>1 DEF RowsOK, EntryOK, CameraEntry
  <2> QED
    BY <1>1, <2>1
<1>12. \A d \in Rows(Q) : d.slotId < next + n
  BY <1>8, <1>10, <1>11
<1>13. marks \subseteq Slots(Q)
  <2>1. /\ Slots(Q) = {d.slotId : d \in Rows(Q)}
        /\ Slots(X) = {d.slotId : d \in Rows(X)}
        /\ Slots(R) = {d.slotId : d \in Rows(R)}
    BY SlotsOfRows
  <2>2. marks \subseteq (Slots(R) \cup Slots(X)) \ {e.slotId}
    BY <1>1 DEF SplitMarks
  <2> QED
    BY <1>8, <2>1, <2>2
<1>14. marks \subseteq Nat
  <2>1. \A d \in Rows(Q) : d.slotId \in Nat
    BY <1>9 DEF RowsOK, EntryOK, CameraEntry
  <2> QED
    BY <1>13, <2>1, SlotsOfRows
<1>15. \A x \in marks : x \in g.auto \/ x >= next
  <2>1. \A x \in marks : x \in g.auto \/ x \in Slots(X)
    BY DEF SplitMarks
  <2> QED
    BY <1>10, <2>1, SlotsOfRows
<1> HIDE DEF marks
<1>16. h \in GridValue
  BY <1>1, <1>3, <1>8, <1>14 DEF GridValue
<1>17. h.cameras = Q /\ h.nextSlotId = next + n /\ h.nextSplitGroupId = groups + 1 /\ h.auto = marks
  BY <1>3
<1>18. GridOK(h)
  BY <1>8, <1>9, <1>12, <1>13, <1>16, <1>17 DEF GridOK
<1>19. Follows(g, h)
  <2>1. \A d \in Rows(Q) : d.slotId \in Slots(R) \/ d.slotId >= next
    BY <1>8, <1>10, SlotsOfRows
  <2>2. next + n >= next
    BY <1>1
  <2>3. \A s \in Slots(Q) : s \in Slots(R) \/ s >= next
    BY <2>1, SlotsOfRows
  <2> QED
    BY <1>17, <2>2, <2>3 DEF Follows, R, next
<1>20. Divided(g, h, e)
  <2>1. n > 1
    BY <1>2 DEF ValidCount
  <2>2. \A d \in Rows(X) : d.splitCount > 1 /\ d.cameraId = e.cameraId /\ d.isOnline = e.isOnline
    BY <1>5, <1>6, <2>1 DEF Rows
  <2> QED
    BY <1>8, <1>17, <1>15, <2>2 DEF Divided, R, next
<1> QED
  BY <1>18, <1>19, <1>20 DEF h, e, R

\* Handlers one after the other.
LEMMA FollowsFacts ==
  ASSUME NEW g, GridOK(g), NEW h, GridOK(h), NEW k, GridOK(k)
  PROVE  Follows(g, g) /\ (Follows(g, h) /\ Follows(h, k) => Follows(g, k))
<1>1. g.nextSlotId \in Nat /\ h.nextSlotId \in Nat /\ k.nextSlotId \in Nat
  BY GridFacts
<1>2. \A s \in Slots(k.cameras) : s \in Int
  <2>1. RowsOK(Rows(k.cameras), k.nextSplitGroupId)
    BY GridFacts
  <2>2. \A e \in Rows(k.cameras) : e.slotId \in Int
    BY <2>1 DEF RowsOK, EntryOK, CameraEntry
  <2> QED
    BY <2>2, SlotsOfRows
<1>3. Follows(g, g)
  BY <1>1 DEF Follows
<1>4. ASSUME Follows(g, h), Follows(h, k) PROVE Follows(g, k)
  <2>1. k.nextSlotId >= g.nextSlotId
    BY <1>1, <1>4 DEF Follows
  <2>2. ASSUME NEW s \in Slots(k.cameras) PROVE s \in Slots(g.cameras) \/ s >= g.nextSlotId
    <3>1. CASE s \in Slots(h.cameras)
      BY <1>4, <3>1 DEF Follows
    <3>2. CASE s >= h.nextSlotId
      BY <1>1, <1>2, <1>4, <3>2 DEF Follows
    <3> QED
      BY <1>4, <3>1, <3>2 DEF Follows
  <2> QED
    BY <2>1, <2>2 DEF Follows
<1> QED
  BY <1>3, <1>4

\* applyAutoSplitForSlot keeps the grid in order.
LEMMA AutoSplitGood ==
  ASSUME NEW g, GridOK(g), NEW slotId
  PROVE  GridOK(AutoSplitSlot(g, slotId)) /\ Follows(g, AutoSplitSlot(g, slotId))
<1> DEFINE rows == {r \in DOMAIN g.cameras : g.cameras[r].slotId = slotId}
           r == Min(rows)
           n == AutoTiles[g.cameras[r].cameraId]
           h == AutoSplitSlot(g, slotId)
<1>1. h = IF rows # {} /\ slotId \notin g.auto /\ CanSplit(g, r, n, "Col")
          THEN SplitAt(g, r, n, "Col", TRUE) ELSE g
  BY Zenon DEF AutoSplitSlot
<1> HIDE DEF r, h
<1>2. CASE CanSplit(g, r, n, "Col") /\ h = SplitAt(g, r, n, "Col", TRUE)
  <2>1. r \in DOMAIN g.cameras /\ g.cameras \in Seq(CameraEntry)
    BY <1>2, GridFacts DEF CanSplit
  <2>2. g.cameras[r] \in CameraEntry
    BY <2>1, Entries
  <2>3. n \in 1..4
    BY <2>2, AutoTilesAssumption DEF CameraEntry
  <2> HIDE DEF n
  <2> QED
    BY <1>2, <2>3, SplitGood DEF h
<1>3. CASE h = g
  BY <1>3, FollowsFacts DEF h
<1> QED
  BY <1>1, <1>2, <1>3, Zenon

\* The whole pass of onStoreUpdated over the rows keeps the grid in order.
LEMMA PassGood ==
  ASSUME NEW g, GridOK(g)
  PROVE  /\ GridOK(AutoSplitRows(g, g.cameras))
         /\ Follows(g, AutoSplitRows(g, g.cameras))
<1> DEFINE G == {h \in GridValue : GridOK(h) /\ Follows(g, h)}
           R == g.cameras
<1>1. R \in Seq(CameraEntry)
  BY GridFacts
<1>2. g \in G
  BY FollowsFacts DEF GridOK
<1>3. \A h \in G, e \in CameraEntry : AutoSplitRow(h, e) \in G
  <2> SUFFICES ASSUME NEW h \in G, NEW e \in CameraEntry PROVE AutoSplitRow(h, e) \in G
    OBVIOUS
  <2> DEFINE k == AutoSplitRow(h, e)
  <2>1. GridOK(h) /\ Follows(g, h)
    OBVIOUS
  <2>2. k = h \/ k = AutoSplitSlot(h, e.slotId)
    BY Zenon DEF AutoSplitRow
  <2> HIDE DEF k
  <2>3. GridOK(k) /\ Follows(h, k)
    BY <2>1, <2>2, AutoSplitGood, FollowsFacts
  <2>4. Follows(g, k)
    BY <2>1, <2>3, FollowsFacts
  <2> QED
    BY <2>3, <2>4 DEF k, GridOK
<1> HIDE DEF G, R
<1>4. PICK f : Turns(f, g, R) /\ AutoSplitRows(g, R) = f[Len(R)]
  <2>1. Closed(G, CameraEntry)
    BY <1>3 DEF Closed
  <2> QED
    BY <1>1, <1>2, <2>1, AutoSplitLoop
<1>5. Len(R) \in Nat /\ \A n \in 1..Len(R) : R[n] \in CameraEntry
  BY <1>1
<1>6. \A n \in 1..Len(R) : f[n - 1] \in G => f[n] \in G
  BY <1>3, <1>4, <1>5 DEF Turns
<1>7. \A n \in 0..Len(R) : f[n] \in G
  <2>1. f[0] \in G
    BY <1>2, <1>4 DEF Turns
  <2> QED
    BY <1>5, <1>6, <2>1, LoopInvariant
<1>8. f[Len(R)] \in G
  BY <1>5, <1>7
<1> QED
  BY <1>4, <1>8 DEF G, R

\* A row, field by field.
RowOf(slotId, cameraId, isOnline, n, direction, crop, group, i, info) ==
  [slotId |-> slotId, cameraId |-> cameraId, isOnline |-> isOnline, splitCount |-> n,
   splitDirection |-> direction, cropRect |-> crop, splitGroupId |-> group,
   splitIndex |-> i, deviceInfo |-> info]

\* Every row is one of those.
LEMMA EntryFields ==
  ASSUME NEW d \in CameraEntry
  PROVE  /\ d = RowOf(d.slotId, d.cameraId, d.isOnline, d.splitCount, d.splitDirection,
                      d.cropRect, d.splitGroupId, d.splitIndex, d.deviceInfo)
         /\ d.slotId \in Nat /\ d.cameraId \in Cameras /\ d.isOnline \in BOOLEAN
         /\ d.splitCount \in 1..4 /\ d.splitDirection \in Directions \cup {"None"}
         /\ d.cropRect \in Rect /\ d.splitGroupId \in Nat \cup {-1} /\ d.splitIndex \in 0..3
         /\ d.deviceInfo \in Cameras \cup {NoReading}
<1>1. /\ d.slotId \in Nat /\ d.cameraId \in Cameras /\ d.isOnline \in BOOLEAN
      /\ d.splitCount \in 1..4 /\ d.splitDirection \in Directions \cup {"None"}
      /\ d.cropRect \in Rect /\ d.splitGroupId \in Nat \cup {-1} /\ d.splitIndex \in 0..3
      /\ d.deviceInfo \in Cameras \cup {NoReading}
  BY DEF CameraEntry, Rect
<1>2. d = RowOf(d.slotId, d.cameraId, d.isOnline, d.splitCount, d.splitDirection,
                d.cropRect, d.splitGroupId, d.splitIndex, d.deviceInfo)
  BY DEF CameraEntry, RowOf
<1> QED
  BY <1>1, <1>2

\* The tile that stays becomes a whole card.
Whole(d) == [d EXCEPT !.splitCount = 1, !.cropRect = FullFrame,
                      !.splitGroupId = -1, !.splitIndex = 0, !.splitDirection = "Col"]

\* It is in order, in its old place.
LEMMA WholeFacts ==
  ASSUME NEW d \in CameraEntry
  PROVE  /\ \A groups : EntryOK(Whole(d), groups)
         /\ Whole(d).splitCount = 1 /\ Whole(d).slotId = d.slotId
         /\ Whole(d).cameraId = d.cameraId /\ Whole(d).isOnline = d.isOnline
<1> DEFINE c == Whole(d)
           frame == FullFrame
<1>1. frame \in Rect
  BY DEF FullFrame, Rect, Frame
<1> HIDE DEF frame
<1> DEFINE slotId == d.slotId
           cameraId == d.cameraId
           isOnline == d.isOnline
           info == d.deviceInfo
           n == d.splitCount
           direction == d.splitDirection
           crop == d.cropRect
           group == d.splitGroupId
           i == d.splitIndex
<1>2. /\ d = RowOf(slotId, cameraId, isOnline, n, direction, crop, group, i, info)
      /\ slotId \in Nat /\ cameraId \in Cameras /\ isOnline \in BOOLEAN
      /\ info \in Cameras \cup {NoReading}
  BY EntryFields
<1>3. c = [d EXCEPT !.splitCount = 1, !.cropRect = frame, !.splitGroupId = -1,
                    !.splitIndex = 0, !.splitDirection = "Col"]
  BY Zenon DEF Whole, frame
<1> HIDE DEF c, slotId, cameraId, isOnline, info, n, direction, crop, group, i
<1>4. c = RowOf(slotId, cameraId, isOnline, 1, "Col", frame, -1, 0, info)
  BY <1>2, <1>3 DEF RowOf
<1>5. /\ c.splitCount = 1 /\ c.cropRect = frame /\ c.splitGroupId = -1
      /\ c.splitIndex = 0 /\ c.slotId = d.slotId /\ c.cameraId = d.cameraId
      /\ c.isOnline = d.isOnline
  BY <1>4 DEF RowOf, slotId, cameraId, isOnline
<1>6. c \in CameraEntry
  BY <1>1, <1>2, <1>4 DEF RowOf, CameraEntry, Rect, Directions
<1>7. \A groups : EntryOK(c, groups)
  BY <1>5, <1>6 DEF EntryOK, frame
<1> QED
  BY <1>5, <1>7 DEF c

\* Every row shows a camera that a row of R shows, online as it is there.
FromRows(R, Q) ==
  \A d \in Rows(Q) : \E e \in Rows(R) : d.cameraId = e.cameraId /\ d.isOnline = e.isOnline

\* _mergeGroupByIndex keeps the grid in order.
LEMMA MergeGood ==
  ASSUME NEW g, GridOK(g), NEW r, CanMerge(g, r)
  PROVE  /\ GridOK(MergeAt(g, r)) /\ Follows(g, MergeAt(g, r))
         /\ FromRows(g.cameras, MergeAt(g, r).cameras)
<1> DEFINE R == g.cameras
           D == Group(g, r)
           first == Min(D)
           others == D \ {first}
           merged == [R EXCEPT
                        ![first].splitCount = 1, ![first].cropRect = FullFrame,
                        ![first].splitGroupId = -1, ![first].splitIndex = 0,
                        ![first].splitDirection = "Col"]
           kept == Kept(R, others)
           Q == [i \in DOMAIN kept |-> merged[kept[i]]]
           marks == g.auto \ {R[i].slotId : i \in others}
           h == MergeAt(g, r)
           card == merged[first]
           e == R[r]
           groups == g.nextSplitGroupId
<1>1. /\ R \in Seq(CameraEntry) /\ g.nextSlotId \in Nat /\ groups \in Nat \ {0}
      /\ OneEach(R) /\ (\A d \in Rows(R) : d.slotId < g.nextSlotId)
      /\ g.auto \subseteq Slots(R) /\ RowsOK(Rows(R), groups) /\ g \in GridValue
  BY GridFacts DEF GridOK
<1>2. h = [g EXCEPT !.cameras = Q, !.auto = marks]
  BY Zenon DEF MergeAt
<1>3. r \in DOMAIN R /\ e.splitGroupId # -1
  <2>1. e.splitGroupId >= 0
    BY DEF CanMerge
  <2> QED
    BY <2>1 DEF CanMerge
<1>4. D = {i \in DOMAIN R : R[i].splitGroupId = e.splitGroupId}
  BY DEF Group
<1> HIDE DEF D, R, h
<1>5. DOMAIN R = 1..Len(R) /\ Len(R) \in Nat /\ \A i \in DOMAIN R : R[i] \in CameraEntry
  BY <1>1
<1>6. first \in D
  <2>1. D \in SUBSET Nat /\ D # {}
    BY <1>3, <1>4, <1>5
  <2> QED
    BY <2>1, MinFacts
<1>7. first \in DOMAIN R /\ R[first].splitGroupId = e.splitGroupId
  BY <1>4, <1>6
<1> HIDE DEF first
<1>8. /\ DOMAIN merged = DOMAIN R
      /\ \A i \in DOMAIN R : i # first => merged[i] = R[i]
      /\ card = [R[first] EXCEPT !.splitCount = 1, !.cropRect = FullFrame,
                                 !.splitGroupId = -1, !.splitIndex = 0, !.splitDirection = "Col"]
  BY <1>5, <1>7
<1> HIDE DEF merged
<1>9. /\ EntryOK(card, groups) /\ card.splitCount = 1 /\ card.slotId = R[first].slotId
      /\ card.cameraId = R[first].cameraId /\ card.isOnline = R[first].isOnline
  <2>1. R[first] \in CameraEntry
    BY <1>5, <1>7
  <2>2. card = Whole(R[first])
    BY <1>8 DEF Whole
  <2> HIDE DEF R, card
  <2> QED
    BY <2>1, <2>2, WholeFacts
<1>10. card.cameraId = e.cameraId
  <2>1. R[first] \in Rows(R) /\ e \in Rows(R) /\ R[first].splitGroupId # -1
    BY <1>3, <1>7 DEF Rows
  <2> QED
    BY <1>1, <1>7, <1>9, <2>1 DEF RowsOK, Together
<1>11. \A i \in DOMAIN R : merged[i].slotId = R[i].slotId /\ merged[i] \in CameraEntry
  BY <1>5, <1>8, <1>9 DEF EntryOK
<1> HIDE DEF card
<1>12. /\ kept \in Seq(1..Len(R))
       /\ \A p, q \in DOMAIN kept : kept[p] = kept[q] => p = q
       /\ \A p \in DOMAIN kept : kept[p] \notin others
       /\ \A k \in 1..Len(R) : k \notin others => \E p \in DOMAIN kept : kept[p] = k
  <2> HIDE DEF others
  <2>1. KeepsTheRest(kept, Len(R), others)
    BY <1>1, KeptFacts
  <2> QED
    BY <2>1, Zenon DEF KeepsTheRest
<1>13. \A p \in DOMAIN kept : kept[p] \in DOMAIN R
  BY <1>5, <1>12, Entries
<1>14. \A k \in DOMAIN R : k \notin others => \E p \in DOMAIN kept : kept[p] = k
  BY <1>5, <1>12
<1>15. DOMAIN kept = 1..Len(kept) /\ Len(kept) \in Nat
  BY <1>12
<1> HIDE DEF kept
<1>16. DOMAIN Q = DOMAIN kept /\ \A p \in DOMAIN kept : Q[p] = merged[kept[p]]
  OBVIOUS
<1>17. Q \in Seq(CameraEntry)
  <2>1. Q \in [1..Len(kept) -> CameraEntry]
    BY <1>11, <1>13, <1>15
  <2> QED
    BY <1>15, <2>1
<1> HIDE DEF Q
<1>18. OneEach(Q)
  BY <1>1, <1>11, <1>12, <1>13, <1>16 DEF OneEach
<1>19. Rows(Q) = {d \in Rows(R) : d.splitGroupId # e.splitGroupId} \cup {card}
  <2>1. ASSUME NEW p \in DOMAIN Q
        PROVE  Q[p] \in {d \in Rows(R) : d.splitGroupId # e.splitGroupId} \cup {card}
    <3> DEFINE k == kept[p]
    <3>1. k \in DOMAIN R /\ k \notin others /\ Q[p] = merged[k]
      BY <1>12, <1>13, <1>16
    <3> HIDE DEF k
    <3>2. CASE k = first
      BY <3>1, <3>2 DEF card
    <3>3. CASE k # first
      BY <1>4, <1>8, <3>1, <3>3 DEF Rows
    <3> QED
      BY <3>2, <3>3
  <2>2. ASSUME NEW k \in DOMAIN R, R[k].splitGroupId # e.splitGroupId
        PROVE  \E p \in DOMAIN Q : Q[p] = R[k]
    <3>1. k \notin others /\ k # first
      BY <1>4, <1>6, <2>2
    <3>2. PICK p \in DOMAIN kept : kept[p] = k
      BY <1>14, <3>1
    <3> QED
      BY <1>8, <1>16, <3>1, <3>2
  <2>3. \E p \in DOMAIN Q : Q[p] = card
    <3>1. PICK p \in DOMAIN kept : kept[p] = first
      BY <1>7, <1>14
    <3> QED
      BY <1>16, <3>1 DEF card
  <2> QED
    BY <2>1, <2>2, <2>3 DEF Rows
<1>20. RowsOK(Rows(Q), groups)
  <2> DEFINE S == Rows(R)
  <2>1. RowsOK(S, groups) /\ e \in S
    BY <1>1, <1>3 DEF Rows
  <2> HIDE DEF S, e
  <2>2. RowsOK({d \in S : d.splitGroupId # e.splitGroupId} \cup {card}, groups)
    BY <1>3, <1>9, <1>10, <2>1, MergeSet
  <2> QED
    BY <1>19, <2>2 DEF S
<1>21. Slots(Q) \subseteq Slots(R)
  BY <1>11, <1>13, <1>16 DEF Slots
<1>22. marks \subseteq Slots(Q)
  <2> SUFFICES ASSUME NEW x \in g.auto, x \notin {R[i].slotId : i \in others}
               PROVE  x \in Slots(Q)
    OBVIOUS
  <2>1. PICK k \in DOMAIN R : R[k].slotId = x
    BY <1>1 DEF Slots
  <2>2. k \notin others
    BY <2>1
  <2>3. PICK p \in DOMAIN kept : kept[p] = k
    BY <1>14, <2>2
  <2>4. Q[p].slotId = x /\ p \in DOMAIN Q
    BY <1>11, <1>16, <2>1, <2>3
  <2> QED
    BY <2>4 DEF Slots
<1>23. marks \subseteq Nat
  BY <1>1 DEF GridValue
<1> HIDE DEF marks
<1>24. /\ h.cameras = Q /\ h.nextSlotId = g.nextSlotId /\ h.nextSplitGroupId = groups
       /\ h.auto = marks /\ h \in GridValue
  BY <1>1, <1>2, <1>17, <1>23 DEF GridValue
<1>25. \A d \in Rows(Q) : d.slotId < g.nextSlotId
  <2>1. \A x \in Slots(R) : x < g.nextSlotId
    BY <1>1, SlotsOfRows
  <2> QED
    BY <1>21, <2>1, SlotsOfRows
<1>26. GridOK(h)
  BY <1>18, <1>20, <1>22, <1>24, <1>25 DEF GridOK
<1>27. Follows(g, h)
  BY <1>1, <1>21, <1>24 DEF Follows, R
<1>28. FromRows(R, h.cameras)
  <2>1. R[first] \in Rows(R)
    BY <1>7 DEF Rows
  <2> QED
    BY <1>9, <1>19, <1>24, <2>1 DEF FromRows
<1> QED
  BY <1>26, <1>27, <1>28 DEF h, R

-----------------------------------------------------------------------------
(* The handlers that give rows other contents. *)

\* The sensor reading or the online flag of a row changes.
LEMMA UpdateFacts ==
  ASSUME NEW d \in CameraEntry
  PROVE  /\ \A b \in BOOLEAN :
              /\ [d EXCEPT !.isOnline = b] \in CameraEntry
              /\ SameShape([d EXCEPT !.isOnline = b], d)
              /\ [d EXCEPT !.isOnline = b].slotId = d.slotId
              /\ [d EXCEPT !.isOnline = b].isOnline = b
         /\ \A info \in Cameras :
              /\ [d EXCEPT !.deviceInfo = info] \in CameraEntry
              /\ SameShape([d EXCEPT !.deviceInfo = info], d)
              /\ [d EXCEPT !.deviceInfo = info].slotId = d.slotId
              /\ [d EXCEPT !.deviceInfo = info].isOnline = d.isOnline
<1>1. ASSUME NEW b \in BOOLEAN
      PROVE  /\ [d EXCEPT !.isOnline = b] \in CameraEntry
             /\ SameShape([d EXCEPT !.isOnline = b], d)
             /\ [d EXCEPT !.isOnline = b].slotId = d.slotId
             /\ [d EXCEPT !.isOnline = b].isOnline = b
  BY DEF CameraEntry, SameShape
<1>2. ASSUME NEW info \in Cameras
      PROVE  /\ [d EXCEPT !.deviceInfo = info] \in CameraEntry
             /\ SameShape([d EXCEPT !.deviceInfo = info], d)
             /\ [d EXCEPT !.deviceInfo = info].slotId = d.slotId
             /\ [d EXCEPT !.deviceInfo = info].isOnline = d.isOnline
  BY DEF CameraEntry, SameShape
<1> QED
  BY <1>1, <1>2

\* A row takes what another shows, and keeps its place.
LEMMA SwappedFacts ==
  ASSUME NEW a \in CameraEntry, NEW b \in CameraEntry
  PROVE  /\ Swapped(a, b) \in CameraEntry /\ SameShape(Swapped(a, b), b)
         /\ Swapped(a, b).slotId = a.slotId /\ Swapped(a, b).isOnline = b.isOnline
<1> DEFINE c == Swapped(a, b)
           slotId == a.slotId
           info == a.deviceInfo
           cameraId == b.cameraId
           isOnline == b.isOnline
           n == b.splitCount
           direction == b.splitDirection
           crop == b.cropRect
           group == b.splitGroupId
           i == b.splitIndex
           oldCamera == a.cameraId
           oldOnline == a.isOnline
           oldCount == a.splitCount
           oldDirection == a.splitDirection
           oldCrop == a.cropRect
           oldGroup == a.splitGroupId
           oldIndex == a.splitIndex
<1>1. /\ a = RowOf(slotId, oldCamera, oldOnline, oldCount, oldDirection, oldCrop,
                   oldGroup, oldIndex, info)
      /\ slotId \in Nat /\ info \in Cameras \cup {NoReading}
  BY EntryFields
<1>2. /\ cameraId \in Cameras /\ isOnline \in BOOLEAN /\ n \in 1..4
      /\ direction \in Directions \cup {"None"} /\ crop \in Rect
      /\ group \in Nat \cup {-1} /\ i \in 0..3
  BY EntryFields
<1>3. c = [a EXCEPT !.cameraId = cameraId, !.isOnline = isOnline, !.splitCount = n,
                    !.splitDirection = direction, !.cropRect = crop,
                    !.splitGroupId = group, !.splitIndex = i]
  BY Zenon DEF Swapped
<1> HIDE DEF c, slotId, info, cameraId, isOnline, n, direction, crop, group, i,
             oldCamera, oldOnline, oldCount, oldDirection, oldCrop, oldGroup, oldIndex
<1>4. c = RowOf(slotId, cameraId, isOnline, n, direction, crop, group, i, info)
  BY <1>1, <1>3 DEF RowOf
<1>5. c \in CameraEntry
  BY <1>1, <1>2, <1>4 DEF RowOf, CameraEntry, Rect
<1>6. /\ c.slotId = slotId /\ c.cameraId = cameraId /\ c.isOnline = isOnline
      /\ c.splitCount = n /\ c.splitDirection = direction /\ c.cropRect = crop
      /\ c.splitGroupId = group /\ c.splitIndex = i
  BY <1>4 DEF RowOf
<1> QED
  BY <1>5, <1>6 DEF c, SameShape, slotId, cameraId, isOnline, n, direction, crop, group, i

SamePlaces(Q, R) ==
  Q \in Seq(CameraEntry) /\ DOMAIN Q = DOMAIN R /\ \A p \in DOMAIN R : Q[p].slotId = R[p].slotId

\* Rows with other contents in the same places.
LEMMA SamePlacesGood ==
  ASSUME NEW g, GridOK(g), NEW Q, SamePlaces(Q, g.cameras),
         RowsOK(Rows(Q), g.nextSplitGroupId)
  PROVE  /\ GridOK([g EXCEPT !.cameras = Q]) /\ Follows(g, [g EXCEPT !.cameras = Q])
         /\ Slots(Q) = Slots(g.cameras)
<1> DEFINE h == [g EXCEPT !.cameras = Q]
           R == g.cameras
<1>1. /\ R \in Seq(CameraEntry) /\ g.nextSlotId \in Nat /\ g \in GridValue
      /\ OneEach(R) /\ (\A d \in Rows(R) : d.slotId < g.nextSlotId) /\ g.auto \subseteq Slots(R)
  BY GridFacts DEF GridOK
<1>2. /\ Q \in Seq(CameraEntry) /\ DOMAIN Q = DOMAIN R
      /\ \A p \in DOMAIN R : Q[p].slotId = R[p].slotId
  BY DEF SamePlaces
<1>3. /\ h \in GridValue /\ h.cameras = Q /\ h.nextSlotId = g.nextSlotId
      /\ h.nextSplitGroupId = g.nextSplitGroupId /\ h.auto = g.auto
  BY <1>1, <1>2 DEF GridValue
<1> HIDE DEF R, h
<1>4. Slots(Q) = Slots(R)
  BY <1>2 DEF Slots
<1>5. OneEach(Q)
  BY <1>1, <1>2 DEF OneEach
<1>6. \A d \in Rows(Q) : d.slotId < g.nextSlotId
  <2>1. \A x \in Slots(R) : x < g.nextSlotId
    BY <1>1, SlotsOfRows
  <2> QED
    BY <1>4, <2>1, SlotsOfRows
<1>7. GridOK(h)
  BY <1>1, <1>3, <1>4, <1>5, <1>6 DEF GridOK
<1>8. Follows(g, h)
  BY <1>1, <1>3, <1>4 DEF Follows, R
<1> QED
  BY <1>4, <1>7, <1>8 DEF h, R

\* The rows of a grid are different rows.
LEMMA DifferentRows ==
  ASSUME NEW R, OneEach(R)
  PROVE  \A p, q \in DOMAIN R : R[p] = R[q] => p = q
  BY DEF OneEach

\* A handler that exchanges what rows show keeps the grid in order.
LEMMA MovedGood ==
  ASSUME NEW g, GridOK(g), NEW Q, SamePlaces(Q, g.cameras),
         NEW P, Moved(DOMAIN g.cameras, g.cameras, Q, P)
  PROVE  /\ GridOK([g EXCEPT !.cameras = Q]) /\ Follows(g, [g EXCEPT !.cameras = Q])
         /\ Slots(Q) = Slots(g.cameras) /\ RowsOK(Rows(Q), g.nextSplitGroupId)
<1> DEFINE R == g.cameras
           D == DOMAIN R
           groups == g.nextSplitGroupId
<1>1. R \in Seq(CameraEntry) /\ OneEach(R) /\ RowsOK(Rows(R), groups)
  BY GridFacts
<1>2. Moved(D, R, Q, P) /\ SamePlaces(Q, R)
  OBVIOUS
<1> HIDE DEF R
<1>3. RowsOK({R[n] : n \in D}, groups) /\ \A p, q \in D : R[p] = R[q] => p = q
  BY <1>1, DifferentRows DEF Rows
<1> HIDE DEF D, groups
<1>4. RowsOK({Q[n] : n \in D}, groups)
  BY <1>2, <1>3, Rearranged
<1>5. RowsOK(Rows(Q), groups)
  BY <1>2, <1>4 DEF Rows, SamePlaces, D
<1> QED
  BY <1>2, <1>5, SamePlacesGood DEF R, groups

\* A sequence from a function on the same places.
LEMMA RowsInPlace ==
  ASSUME NEW R \in Seq(CameraEntry), NEW Q, Q = [p \in DOMAIN R |-> Q[p]],
         \A p \in DOMAIN R : Q[p] \in CameraEntry /\ Q[p].slotId = R[p].slotId
  PROVE  SamePlaces(Q, R)
<1>1. Len(R) \in Nat /\ DOMAIN R = 1..Len(R)
  OBVIOUS
<1>2. Q \in [1..Len(R) -> CameraEntry]
  BY <1>1
<1>3. Q \in Seq(CameraEntry)
  BY <1>1, <1>2
<1> QED
  BY <1>3 DEF SamePlaces

\* swapSlots keeps the grid in order.
LEMMA SwapGood ==
  ASSUME NEW g, GridOK(g), NEW a, NEW b, a \in DOMAIN g.cameras, b \in DOMAIN g.cameras, a # b
  PROVE  LET Q == [g.cameras EXCEPT ![a] = Swapped(g.cameras[a], g.cameras[b]),
                                    ![b] = Swapped(g.cameras[b], g.cameras[a])]
         IN  /\ GridOK([g EXCEPT !.cameras = Q]) /\ Follows(g, [g EXCEPT !.cameras = Q])
             /\ FromRows(g.cameras, Q)
<1> DEFINE R == g.cameras
           D == DOMAIN R
           P == [p \in D |-> IF p = a THEN b ELSE IF p = b THEN a ELSE p]
           x == Swapped(R[a], R[b])
           y == Swapped(R[b], R[a])
           Q == [R EXCEPT ![a] = x, ![b] = y]
<1>1. R \in Seq(CameraEntry) /\ RowsOK(Rows(R), g.nextSplitGroupId) /\ a \in D /\ b \in D
  BY GridFacts
<1>2. \A p \in D : R[p] \in CameraEntry
  BY <1>1, Entries
<1>3. /\ x \in CameraEntry /\ SameShape(x, R[b]) /\ x.slotId = R[a].slotId /\ x.isOnline = R[b].isOnline
      /\ y \in CameraEntry /\ SameShape(y, R[a]) /\ y.slotId = R[b].slotId /\ y.isOnline = R[a].isOnline
  BY <1>2, SwappedFacts
<1>5. \A d \in CameraEntry : SameShape(d, d)
  BY DEF SameShape
<1> HIDE DEF x, y, R
<1>6. /\ Q = [p \in D |-> Q[p]] /\ Q[a] = x /\ Q[b] = y
      /\ \A p \in D : p # a /\ p # b => Q[p] = R[p]
  BY <1>1
<1>7. /\ P[a] = b /\ P[b] = a /\ \A p \in D : p # a /\ p # b => P[p] = p
  BY <1>1
<1> HIDE DEF P, Q
<1>8. \A p \in D : /\ P[p] \in D /\ Q[p] \in CameraEntry /\ SameShape(Q[p], R[P[p]])
                   /\ Q[p].isOnline = R[P[p]].isOnline /\ Q[p].slotId = R[p].slotId
                   /\ P[P[p]] = p
  <2> SUFFICES ASSUME NEW p \in D
               PROVE  /\ P[p] \in D /\ Q[p] \in CameraEntry /\ SameShape(Q[p], R[P[p]])
                      /\ Q[p].isOnline = R[P[p]].isOnline /\ Q[p].slotId = R[p].slotId
                      /\ P[P[p]] = p
    OBVIOUS
  <2>1. CASE p = a
    BY <1>1, <1>3, <1>6, <1>7, <2>1
  <2>2. CASE p = b
    BY <1>1, <1>3, <1>6, <1>7, <2>2
  <2>3. CASE p # a /\ p # b
    BY <1>2, <1>5, <1>6, <1>7, <2>3
  <2> QED
    BY <2>1, <2>2, <2>3
<1>9. /\ \A p, q \in D : P[p] = P[q] => p = q
      /\ \A p \in D : \E q \in D : P[q] = p
  BY <1>8
<1>10. \A p, q \in D : Q[p].cameraId = Q[q].cameraId => Q[p].isOnline = Q[q].isOnline
  <2>1. \A p, q \in D : R[p].cameraId = R[q].cameraId => R[p].isOnline = R[q].isOnline
    <3>1. \A p \in D : R[p] \in Rows(R)
      BY DEF Rows
    <3> QED
      BY <1>1, <3>1 DEF RowsOK, Together, Alike
  <2>2. \A p \in D : P[p] \in D /\ Q[p].cameraId = R[P[p]].cameraId /\ Q[p].isOnline = R[P[p]].isOnline
    BY <1>8 DEF SameShape
  <2> QED
    BY <2>1, <2>2
<1>11. SamePlaces(Q, R)
  BY <1>1, <1>6, <1>8, RowsInPlace DEF D
<1>12. Moved(D, R, Q, P)
  BY <1>8, <1>9, <1>10 DEF Moved
<1>13. GridOK([g EXCEPT !.cameras = Q]) /\ Follows(g, [g EXCEPT !.cameras = Q])
  BY <1>11, <1>12, MovedGood DEF R, D
<1>14. FromRows(R, Q)
  <2>1. DOMAIN Q = D
    BY <1>6
  <2> QED
    BY <1>8, <2>1 DEF FromRows, Rows, SameShape
<1> QED
  BY <1>13, <1>14, Zenon DEF Q, x, y, R

\* The camera is in the snapshot, and online.
On(snapshot, cid) == cid \in DOMAIN snapshot /\ snapshot[cid]

Same(D) == [p \in D |-> p]

\* Rows that keep what they show, the rows of a camera alike.
LEMMA Unmoved ==
  ASSUME NEW D, NEW R, NEW Q,
         \A p \in D : Q[p] \in CameraEntry /\ SameShape(Q[p], R[p]),
         \A p, q \in D : Q[p].cameraId = Q[q].cameraId => Q[p].isOnline = Q[q].isOnline
  PROVE  Moved(D, R, Q, Same(D))
<1>1. \A p \in D : Same(D)[p] = p
  BY DEF Same
<1> QED
  BY <1>1 DEF Moved

\* Step 1 of onStoreUpdated.
LEMMA RefreshedGood ==
  ASSUME NEW snapshot \in Snapshots, cameras \in Seq(CameraEntry)
  PROVE  /\ SamePlaces(Refreshed(snapshot), cameras)
         /\ Moved(DOMAIN cameras, cameras, Refreshed(snapshot), Same(DOMAIN cameras))
         /\ \A p \in DOMAIN cameras : SameShape(Refreshed(snapshot)[p], cameras[p])
<1> DEFINE D == DOMAIN cameras
           Q == Refreshed(snapshot)
<1>1. \A cid : On(snapshot, cid) \in BOOLEAN
  BY Zenon DEF On
<1>2. Q = [p \in D |-> [cameras[p] EXCEPT !.isOnline = On(snapshot, cameras[p].cameraId)]]
  BY Zenon DEF Refreshed, On
<1>3. \A p \in D : cameras[p] \in CameraEntry
  BY Entries
<1> HIDE DEF Q
<1>4. \A p \in D : /\ Q[p] \in CameraEntry /\ SameShape(Q[p], cameras[p])
                   /\ Q[p].slotId = cameras[p].slotId
                   /\ Q[p].isOnline = On(snapshot, cameras[p].cameraId)
  <2> SUFFICES ASSUME NEW p \in D
               PROVE  /\ Q[p] \in CameraEntry /\ SameShape(Q[p], cameras[p])
                      /\ Q[p].slotId = cameras[p].slotId
                      /\ Q[p].isOnline = On(snapshot, cameras[p].cameraId)
    OBVIOUS
  <2> DEFINE d == cameras[p]
             b == On(snapshot, cameras[p].cameraId)
  <2>1. d \in CameraEntry /\ b \in BOOLEAN /\ Q[p] = [d EXCEPT !.isOnline = b]
    BY <1>1, <1>2, <1>3
  <2> HIDE DEF d, b
  <2>2. /\ Q[p] \in CameraEntry /\ SameShape(Q[p], d) /\ Q[p].slotId = d.slotId
        /\ Q[p].isOnline = b
    BY <2>1, UpdateFacts
  <2> QED
    BY <2>2 DEF d, b
<1>5. \A p, q \in D : Q[p].cameraId = Q[q].cameraId => Q[p].isOnline = Q[q].isOnline
  BY <1>4 DEF SameShape
<1>6. Q = [p \in D |-> Q[p]]
  BY <1>2
<1>7. SamePlaces(Q, cameras)
  BY <1>4, <1>6, RowsInPlace
<1>8. Moved(D, cameras, Q, Same(D))
  <2> HIDE DEF D
  <2> QED
    BY <1>4, <1>5, Unmoved
<1> QED
  BY <1>4, <1>7, <1>8 DEF Q

\* New cards, numbered from next, one for each of the cameras of set C.
AreCards(X, n, next, C) ==
  /\ X \in [1..n -> CameraEntry]
  /\ \A i \in 1..n : /\ X[i].slotId = next + i - 1 /\ X[i].splitCount = 1
                     /\ X[i].cameraId \in C /\ \A groups : EntryOK(X[i], groups)
  /\ \A i, j \in 1..n : X[i].cameraId = X[j].cameraId => i = j

Appended(h, g, X, n) ==
  h = [g EXCEPT !.cameras = g.cameras \o X, !.nextSlotId = g.nextSlotId + n]

\* Step 2 of onStoreUpdated.
LEMMA AppendGood ==
  ASSUME NEW g, GridOK(g), NEW n \in Nat, NEW C, NEW X, AreCards(X, n, g.nextSlotId, C),
         \A e \in Rows(g.cameras) : e.cameraId \notin C,
         NEW h, Appended(h, g, X, n)
  PROVE  GridOK(h) /\ Follows(g, h)
<1> DEFINE R == g.cameras
           next == g.nextSlotId
           groups == g.nextSplitGroupId
           Q == R \o X
<1>1. /\ R \in Seq(CameraEntry) /\ next \in Nat /\ groups \in Nat \ {0} /\ g \in GridValue
      /\ OneEach(R) /\ (\A d \in Rows(R) : d.slotId < next)
      /\ g.auto \subseteq Slots(R) /\ RowsOK(Rows(R), groups)
  BY GridFacts DEF GridOK
<1>2. AreCards(X, n, next, C) /\ \A e \in Rows(R) : e.cameraId \notin C
  OBVIOUS
<1>3. X \in Seq(CameraEntry) /\ DOMAIN X = 1..n /\ Len(X) = n
  BY <1>2 DEF AreCards
<1>4. /\ Q \in Seq(CameraEntry)
      /\ \A p \in DOMAIN R : p \in DOMAIN Q /\ Q[p] = R[p]
      /\ \A k \in DOMAIN X : Len(R) + k \in DOMAIN Q /\ Q[Len(R) + k] = X[k]
      /\ \A p \in DOMAIN Q : \/ p \in DOMAIN R /\ Q[p] = R[p]
                             \/ \E k \in DOMAIN X : p = Len(R) + k /\ Q[p] = X[k]
  <2> HIDE DEF R
  <2>1. R \o X \in Seq(CameraEntry)
    BY <1>1, <1>3, Concat
  <2> QED
    BY <1>1, <1>3, <2>1, ConcatFacts
<1>5. /\ h.cameras = Q /\ h.nextSlotId = next + n /\ h.nextSplitGroupId = groups
      /\ h.auto = g.auto /\ h \in GridValue
  <2>1. h = [g EXCEPT !.cameras = Q, !.nextSlotId = next + n]
    BY Zenon DEF Appended
  <2>2. Q \in Seq(CameraEntry) /\ next + n \in Nat
    BY <1>1, <1>4
  <2> HIDE DEF Q
  <2> QED
    BY <1>1, <2>1, <2>2 DEF GridValue
<1> HIDE DEF R, Q, next
<1>6. Len(R) \in Nat /\ DOMAIN R = 1..Len(R) /\ \A p \in DOMAIN R : R[p].slotId \in Nat /\ R[p].slotId < next
  <2>1. \A p \in DOMAIN R : R[p] \in CameraEntry /\ R[p] \in Rows(R)
    BY <1>1, Entries DEF Rows
  <2> QED
    BY <1>1, <2>1 DEF CameraEntry
<1>7. \A k \in 1..n : /\ X[k].slotId = next + k - 1 /\ X[k].splitCount = 1
                      /\ X[k].cameraId \in C /\ EntryOK(X[k], groups)
  BY <1>2 DEF AreCards
<1>8. OneEach(Q)
  <2> SUFFICES ASSUME NEW p \in DOMAIN Q, NEW q \in DOMAIN Q, Q[p].slotId = Q[q].slotId
               PROVE  p = q
    BY DEF OneEach
  <2>1. CASE p \in DOMAIN R /\ Q[p] = R[p] /\ q \in DOMAIN R /\ Q[q] = R[q]
    BY <1>1, <2>1 DEF OneEach
  <2>2. CASE \E k \in DOMAIN X : p = Len(R) + k /\ Q[p] = X[k]
    <3>1. PICK k \in 1..n : p = Len(R) + k /\ Q[p] = X[k]
      BY <1>3, <2>2
    <3>2. CASE q \in DOMAIN R /\ Q[q] = R[q]
      BY <1>1, <1>6, <1>7, <3>1, <3>2
    <3>3. CASE \E j \in DOMAIN X : q = Len(R) + j /\ Q[q] = X[j]
      <4>1. PICK j \in 1..n : q = Len(R) + j /\ Q[q] = X[j]
        BY <1>3, <3>3
      <4>2. X[k].slotId = next + k - 1 /\ X[j].slotId = next + j - 1 /\ X[k].slotId = X[j].slotId
        BY <1>7, <3>1, <4>1
      <4>3. k = j
        BY <1>1, <4>2
      <4> QED
        BY <3>1, <4>1, <4>3
    <3> QED
      BY <1>4, <3>2, <3>3
  <2>3. CASE /\ p \in DOMAIN R /\ Q[p] = R[p]
             /\ \E k \in DOMAIN X : q = Len(R) + k /\ Q[q] = X[k]
    BY <1>1, <1>3, <1>6, <1>7, <2>3
  <2> QED
    BY <1>4, <2>1, <2>2, <2>3
<1>9. Rows(Q) = Rows(R) \cup Rows(X)
  BY <1>4 DEF Rows
<1>10. RowsOK(Rows(Q), groups)
  <2>1. \A e \in Rows(X) : EntryOK(e, groups) /\ e.splitCount = 1 /\ e.cameraId \in C
    BY <1>3, <1>7 DEF Rows
  <2>2. \A d, e \in Rows(X) : d.cameraId = e.cameraId => d = e
    BY <1>2, <1>3 DEF Rows, AreCards
  <2>3. \A d \in Rows(R), e \in Rows(X) : d.cameraId # e.cameraId
    BY <1>2, <2>1
  <2> HIDE DEF groups
  <2>4. RowsOK(Rows(R) \cup Rows(X), groups)
    BY <1>1, <2>1, <2>2, <2>3, AppendSet
  <2> QED
    BY <1>9, <2>4
<1>11. Slots(Q) = Slots(R) \cup Slots(X)
  BY <1>9, SlotsOfRows
<1>12. \A x \in Slots(X) : x \in Nat /\ x >= next /\ x < next + n
  BY <1>1, <1>3, <1>7 DEF Slots
<1>13. \A x \in Slots(R) : x \in Nat /\ x < next
  BY <1>6 DEF Slots
<1>14. \A d \in Rows(Q) : d.slotId < next + n
  <2>1. \A x \in Slots(Q) : x < next + n
    BY <1>1, <1>11, <1>12, <1>13
  <2> QED
    BY <2>1, SlotsOfRows
<1>15. GridOK(h)
  BY <1>1, <1>5, <1>8, <1>10, <1>11, <1>14 DEF GridOK
<1>16. Follows(g, h)
  <2>1. h.nextSlotId >= next
    BY <1>1, <1>5
  <2>2. \A x \in Slots(h.cameras) : x \in Slots(R) \/ x >= next
    BY <1>5, <1>11, <1>12
  <2> QED
    BY <2>1, <2>2 DEF Follows, R, next
<1> QED
  BY <1>15, <1>16

\* The members, one by one.
LEMMA GridMembers ==
  /\ Grid.cameras = cameras /\ Grid.nextSlotId = nextSlotId
  /\ Grid.nextSplitGroupId = nextSplitGroupId /\ Grid.auto = autoSplitAppliedSlotIds
  BY DEF Grid

\* The new rows of onStoreUpdated.
LEMMA NewRowsGood ==
  ASSUME nextSlotId \in Nat, NEW snapshot \in Snapshots,
         NEW order \in SetToSeqs(NewCameras(snapshot))
  PROVE  /\ Len(order) \in Nat
         /\ AreCards(NewRows(snapshot, order), Len(order), nextSlotId, NewCameras(snapshot))
<1> DEFINE C == NewCameras(snapshot)
           X == NewRows(snapshot, order)
           n == Cardinality(C)
<1>1. C \subseteq Cameras /\ C \subseteq DOMAIN snapshot /\ \A c \in C : snapshot[c] \in BOOLEAN
  BY DEF NewCameras, Snapshots
<1>2. n \in Nat
  <2>1. IsFiniteSet(C)
    BY <1>1, CamerasAssumption, FS_Subset
  <2> QED
    BY <2>1, FS_CardinalityType
<1>3. order \in [1..n -> C] /\ \A i, j \in 1..n : i # j => order[i] # order[j]
  BY Zenon DEF SetToSeqs
<1> HIDE DEF C, n
<1>4. Len(order) = n /\ DOMAIN order = 1..n
  BY <1>2, <1>3
<1>5. X = [i \in 1..n |-> NewEntry(nextSlotId + i - 1, order[i], snapshot[order[i]])]
  BY <1>4, Zenon DEF NewRows
<1> HIDE DEF X
<1>6. ASSUME NEW i \in 1..n
      PROVE  /\ X[i] \in CameraEntry /\ X[i].slotId = nextSlotId + i - 1 /\ X[i].splitCount = 1
             /\ X[i].cameraId = order[i] /\ \A groups : EntryOK(X[i], groups)
  <2> DEFINE slotId == nextSlotId + i - 1
             c == order[i]
             b == snapshot[order[i]]
  <2>1. slotId \in Nat
    BY <1>2
  <2>2. c \in Cameras /\ b \in BOOLEAN
    BY <1>1, <1>3
  <2>3. X[i] = NewEntry(slotId, c, b)
    BY <1>5
  <2> HIDE DEF slotId, c, b
  <2>4. /\ X[i].slotId = slotId /\ X[i].splitCount = 1 /\ X[i].cameraId = c
        /\ \A groups : EntryOK(X[i], groups)
    BY <2>1, <2>2, <2>3, NewEntryFacts
  <2> QED
    BY <2>4 DEF slotId, c, EntryOK
<1>7. X \in [1..n -> CameraEntry]
  BY <1>5, <1>6
<1>8. \A i, j \in 1..n : X[i].cameraId = X[j].cameraId => i = j
  BY <1>3, <1>6
<1>9. \A i \in 1..n : order[i] \in C
  BY <1>3
<1>10. AreCards(X, n, nextSlotId, C)
  BY <1>6, <1>7, <1>8, <1>9 DEF AreCards
<1> QED
  BY <1>2, <1>4, <1>10 DEF X, C

\* onStoreUpdated, up to the automatic splits.
LEMMA AppendNewGood ==
  ASSUME GridOK(Grid), NEW snapshot \in Snapshots,
         NEW order \in SetToSeqs(NewCameras(snapshot))
  PROVE  GridOK(AppendNew(snapshot, order)) /\ Follows(Grid, AppendNew(snapshot, order))
<1> DEFINE C == NewCameras(snapshot)
           X == NewRows(snapshot, order)
           Q == Refreshed(snapshot)
           n == Len(order)
           k == [Grid EXCEPT !.cameras = Q]
           h == AppendNew(snapshot, order)
<1>1. cameras \in Seq(CameraEntry) /\ nextSlotId \in Nat /\ Grid \in GridValue
  BY GridFacts, GridMembers DEF GridOK
<1>2. /\ SamePlaces(Q, cameras) /\ Moved(DOMAIN cameras, cameras, Q, Same(DOMAIN cameras))
      /\ \A p \in DOMAIN cameras : SameShape(Q[p], cameras[p])
  BY <1>1, RefreshedGood
<1>3. n \in Nat /\ AreCards(X, n, nextSlotId, C)
  BY <1>1, NewRowsGood
<1>4. GridOK(k) /\ Follows(Grid, k)
  <2> HIDE DEF Q
  <2>1. SamePlaces(Q, Grid.cameras) /\ Moved(DOMAIN Grid.cameras, Grid.cameras, Q, Same(DOMAIN cameras))
    BY <1>2, GridMembers
  <2> HIDE DEF Grid
  <2> QED
    BY <2>1, MovedGood
<1>5. k.cameras = Q /\ k.nextSlotId = nextSlotId
  BY DEF Grid
<1>6. \A e \in Rows(Q) : e.cameraId \notin C
  <2> SUFFICES ASSUME NEW p \in DOMAIN Q PROVE Q[p].cameraId \notin C
    BY DEF Rows
  <2>1. p \in DOMAIN cameras /\ Q[p].cameraId = cameras[p].cameraId
    BY <1>2 DEF SamePlaces, SameShape
  <2> QED
    BY <2>1 DEF NewCameras
<1>7. h = [Grid EXCEPT !.cameras = Q \o X, !.nextSlotId = nextSlotId + n]
  BY DEF AppendNew, Grid
<1> HIDE DEF Q, X, C, n, h
<1>8. h = [k EXCEPT !.cameras = Q \o X, !.nextSlotId = nextSlotId + n]
  BY <1>7 DEF Grid
<1>9. Appended(h, k, X, n)
  BY <1>5, <1>8, Zenon DEF Appended
<1> HIDE DEF k
<1>10. AreCards(X, n, k.nextSlotId, C) /\ \A e \in Rows(k.cameras) : e.cameraId \notin C
  BY <1>3, <1>5, <1>6
<1>11. GridOK(h) /\ Follows(k, h)
  BY <1>3, <1>4, <1>9, <1>10, AppendGood
<1>12. Follows(Grid, h)
  BY <1>4, <1>11, FollowsFacts
<1> QED
  BY <1>11, <1>12 DEF h

-----------------------------------------------------------------------------
(* The inductive invariant of the specification. *)

GridInv ==
  /\ GridOK(Grid)
  /\ retired \subseteq Nat
  /\ \A x \in retired : x < nextSlotId /\ x \notin Slots(cameras)

\* What a handler makes of the grid.
LEMMA BecomeGood ==
  ASSUME GridInv, NEW h, GridOK(h), Follows(Grid, h), Become(h)
  PROVE  GridInv'
<1>1. Grid' = h
  BY DEF GridOK, GridValue, Become, Grid
<1>2. GridOK(Grid)'
  BY <1>1
<1>3. /\ cameras' = h.cameras /\ nextSlotId' = h.nextSlotId
      /\ retired' = retired \cup (Slots(cameras) \ Slots(h.cameras))
  BY DEF Become
<1>4. h.nextSlotId \in Nat /\ nextSlotId \in Nat
  BY GridFacts, GridMembers DEF GridInv
<1>5. \A x \in Slots(cameras) : x \in Nat /\ x < nextSlotId
  <2>1. cameras \in Seq(CameraEntry) /\ \A e \in Rows(cameras) : e.slotId < nextSlotId
    BY GridFacts, GridMembers DEF GridInv
  <2>2. \A e \in Rows(cameras) : e \in CameraEntry
    BY <2>1, Entries DEF Rows
  <2>3. \A e \in Rows(cameras) : e.slotId \in Nat
    BY <2>2 DEF CameraEntry
  <2> QED
    BY <2>1, <2>3, SlotsOfRows
<1>6. /\ h.nextSlotId >= nextSlotId
      /\ \A x \in Slots(h.cameras) : x \in Slots(cameras) \/ x >= nextSlotId
  BY GridMembers DEF Follows
<1>7. ASSUME NEW x \in retired'
      PROVE  x \in Nat /\ x < h.nextSlotId /\ x \notin Slots(h.cameras)
  <2>1. x \in Nat /\ x < nextSlotId
    BY <1>3, <1>5, <1>7 DEF GridInv
  <2>2. x \notin Slots(h.cameras)
    BY <1>3, <1>4, <1>6, <1>7, <2>1 DEF GridInv
  <2> QED
    BY <1>4, <1>6, <2>1, <2>2
<1> QED
  BY <1>2, <1>3, <1>7 DEF GridInv

\* The grid without a row.
LEMMA EmptyGood ==
  ASSUME NEW g, g = [cameras |-> <<>>, nextSlotId |-> 0, nextSplitGroupId |-> 1, auto |-> {}]
  PROVE  GridOK(g)
<1>1. Rows(<<>>) = {} /\ OneEach(<<>>)
  BY DEF Rows, OneEach
<1>2. g \in GridValue
  BY DEF GridValue
<1>3. RowsOK({}, 1)
  BY DEF RowsOK, Together, Complete
<1> QED
  BY <1>1, <1>2, <1>3 DEF GridOK

\* It holds initially.
LEMMA GridInit == Init => GridInv
<1> SUFFICES ASSUME Init PROVE GridInv
  OBVIOUS
<1>1. GridOK(Grid)
  BY EmptyGood DEF Init, Grid
<1> QED
  BY <1>1 DEF Init, GridInv

\* updateSensorInfo
LEMMA SensorGood ==
  ASSUME GridInv, NEW cid \in SensorCameras, updateSensorInfo(cid)
  PROVE  GridInv' /\ FromRows(cameras, cameras')
<1> DEFINE R == cameras
           D == DOMAIN cameras
           Q == cameras'
<1>1. /\ R \in Seq(CameraEntry) /\ RowsOK(Rows(R), nextSplitGroupId) /\ GridOK(Grid)
      /\ Grid \in GridValue
  BY GridFacts, GridMembers DEF GridInv, GridOK
<1>2. Q = [r \in D |-> IF R[r].cameraId = cid THEN [R[r] EXCEPT !.deviceInfo = cid] ELSE R[r]]
  BY Zenon DEF updateSensorInfo
<1>3. \A p \in D : R[p] \in CameraEntry
  BY <1>1, Entries
<1> HIDE DEF Q, R
<1>4. ASSUME NEW p \in D
      PROVE  /\ Q[p] \in CameraEntry /\ SameShape(Q[p], R[p])
             /\ Q[p].slotId = R[p].slotId /\ Q[p].isOnline = R[p].isOnline
  <2> DEFINE d == R[p]
             e == Q[p]
  <2>1. d \in CameraEntry /\ cid \in Cameras
    BY <1>3, SensorCamerasAssumption
  <2>2. e = [d EXCEPT !.deviceInfo = cid] \/ e = d
    BY <1>2
  <2> HIDE DEF d, e
  <2>3. e \in CameraEntry /\ SameShape(e, d) /\ e.slotId = d.slotId /\ e.isOnline = d.isOnline
    <3>1. SameShape(d, d)
      BY DEF SameShape
    <3>2. /\ [d EXCEPT !.deviceInfo = cid] \in CameraEntry
          /\ SameShape([d EXCEPT !.deviceInfo = cid], d)
          /\ [d EXCEPT !.deviceInfo = cid].slotId = d.slotId
          /\ [d EXCEPT !.deviceInfo = cid].isOnline = d.isOnline
      BY <2>1, UpdateFacts, Zenon
    <3> QED
      BY <2>1, <2>2, <3>1, <3>2, Zenon
  <2> QED
    BY <2>3 DEF d, e
<1>5. \A p, q \in D : R[p].cameraId = R[q].cameraId => R[p].isOnline = R[q].isOnline
  <2>1. \A p \in D : R[p] \in Rows(R)
    BY DEF Rows, R
  <2> QED
    BY <1>1, <2>1 DEF RowsOK, Together, Alike
<1>6. \A p, q \in D : Q[p].cameraId = Q[q].cameraId => Q[p].isOnline = Q[q].isOnline
  BY <1>4, <1>5 DEF SameShape
<1>7. Q = [p \in D |-> Q[p]]
  BY <1>2
<1>8. SamePlaces(Q, R)
  BY <1>1, <1>4, <1>7, RowsInPlace DEF R
<1>9. Moved(D, R, Q, Same(D))
  <2> HIDE DEF D
  <2> QED
    BY <1>4, <1>6, Unmoved
<1>10. GridOK([Grid EXCEPT !.cameras = Q]) /\ Slots(Q) = Slots(cameras)
  <2>1. SamePlaces(Q, Grid.cameras) /\ Moved(DOMAIN Grid.cameras, Grid.cameras, Q, Same(D))
    BY <1>8, <1>9, GridMembers DEF R
  <2> HIDE DEF Grid, D
  <2> QED
    BY <1>1, <2>1, MovedGood, GridMembers
<1>11. Grid' = [Grid EXCEPT !.cameras = Q]
  BY DEF updateSensorInfo, Grid, Q
<1>13. nextSlotId' = nextSlotId /\ retired' = retired
  BY DEF updateSensorInfo
<1>14. GridOK(Grid)'
  BY <1>10, <1>11
<1>15. FromRows(R, Q)
  <2>1. DOMAIN Q = DOMAIN R
    BY <1>7 DEF R
  <2> QED
    BY <1>4, <2>1 DEF FromRows, Rows, SameShape, R
<1> QED
  BY <1>10, <1>13, <1>14, <1>15 DEF GridInv, Q, R

\* Every handler keeps it.
LEMMA GridStep == GridInv /\ [Next]_vars => GridInv'
<1> SUFFICES ASSUME GridInv, [Next]_vars PROVE GridInv'
  OBVIOUS
<1>1. GridOK(Grid)
  BY DEF GridInv
<1>2. ASSUME NEW a \in DOMAIN cameras, NEW b \in DOMAIN cameras, swapSlots(a, b)
      PROVE  GridInv'
  <2> DEFINE h == [Grid EXCEPT !.cameras = [Grid.cameras EXCEPT
                      ![a] = Swapped(Grid.cameras[a], Grid.cameras[b]),
                      ![b] = Swapped(Grid.cameras[b], Grid.cameras[a])]]
  <2>1. a # b /\ Become(h)
    BY <1>2, GridMembers, Zenon DEF swapSlots
  <2>2. a \in DOMAIN Grid.cameras /\ b \in DOMAIN Grid.cameras
    BY GridMembers
  <2>3. GridOK(h) /\ Follows(Grid, h)
    <3> HIDE DEF Grid
    <3> QED
      BY <1>1, <2>1, <2>2, SwapGood, Zenon
  <2> HIDE DEF h
  <2> QED
    BY <2>1, <2>3, BecomeGood
<1>3. ASSUME NEW r \in DOMAIN cameras, NEW n \in 2..4, NEW d \in Directions, splitSlot(r, n, d)
      PROVE  GridInv'
  <2> DEFINE h == SplitAt(Grid, r, n, d, FALSE)
  <2>1. CanSplit(Grid, r, n, d) /\ Become(h)
    BY <1>3 DEF splitSlot
  <2>2. n \in 1..4
    OBVIOUS
  <2>3. GridOK(h) /\ Follows(Grid, h)
    <3> HIDE DEF Grid
    <3> QED
      BY <1>1, <2>1, <2>2, SplitGood
  <2> HIDE DEF h
  <2> QED
    BY <2>1, <2>3, BecomeGood
<1>4. ASSUME NEW r \in DOMAIN cameras, mergeSlots(r)
      PROVE  GridInv'
  <2> DEFINE h == MergeAt(Grid, r)
  <2>1. CanMerge(Grid, r) /\ Become(h)
    BY <1>4 DEF mergeSlots
  <2>2. GridOK(h) /\ Follows(Grid, h)
    <3> HIDE DEF Grid
    <3> QED
      BY <1>1, <2>1, MergeGood
  <2> HIDE DEF h
  <2> QED
    BY <2>1, <2>2, BecomeGood
<1>5. ASSUME NEW snapshot \in Snapshots, onStoreUpdated(snapshot)
      PROVE  GridInv'
  <2>1. PICK order \in SetToSeqs(NewCameras(snapshot)) :
               Become(AutoSplitRows(AppendNew(snapshot, order), AppendNew(snapshot, order).cameras))
    BY <1>5, Zenon DEF onStoreUpdated
  <2> DEFINE k == AppendNew(snapshot, order)
             h == AutoSplitRows(k, k.cameras)
  <2>2. GridOK(k) /\ Follows(Grid, k)
    BY <1>1, AppendNewGood
  <2>3. Become(h)
    BY <2>1
  <2> HIDE DEF k
  <2>4. GridOK(h) /\ Follows(k, h)
    BY <2>2, PassGood
  <2> HIDE DEF h
  <2>5. Follows(Grid, h)
    BY <1>1, <2>2, <2>4, FollowsFacts
  <2> QED
    BY <2>3, <2>4, <2>5, BecomeGood
<1>6. ASSUME clearAll PROVE GridInv'
  <2>1. GridOK(Grid)'
    <3>1. Grid' = [cameras |-> <<>>, nextSlotId |-> 0, nextSplitGroupId |-> 1, auto |-> {}]
      BY <1>6 DEF clearAll, Grid
    <3>2. GridOK(Grid')
      BY <3>1, EmptyGood
    <3> QED
      BY <3>2
  <2> QED
    BY <1>6, <2>1 DEF clearAll, GridInv
<1>7. ASSUME UNCHANGED vars PROVE GridInv'
  <2>1. Grid' = Grid
    BY <1>7 DEF vars, Grid
  <2> QED
    BY <1>7, <2>1 DEF vars, GridInv
<1> QED
  BY <1>2, <1>3, <1>4, <1>5, <1>6, <1>7, SensorGood DEF Next, UserStep, ServerStep

\* It holds throughout.
LEMMA GridInvariant == Spec => []GridInv
  BY GridInit, GridStep, PTL DEF Spec

-----------------------------------------------------------------------------
(* What it says. *)

\* The members keep their types, whatever the user and the server do.
THEOREM CameraTypeCorrect == Spec => []TypeOK
<1>1. GridInv => TypeOK
  <2> SUFFICES ASSUME GridInv PROVE TypeOK
    OBVIOUS
  <2>1. Grid \in GridValue
    BY DEF GridInv, GridOK
  <2>2. /\ cameras \in Seq(CameraEntry) /\ nextSlotId \in Nat /\ nextSplitGroupId \in Nat
        /\ autoSplitAppliedSlotIds \subseteq Nat
    BY <2>1, GridMembers DEF GridValue
  <2> QED
    BY <2>2 DEF TypeOK, GridInv
<1> QED
  BY <1>1, GridInvariant, PTL

\* No slotId is given to a second row before clearAll: swapSlots moves contents
\* and leaves the ids in their places, splits and new cameras count on.
THEOREM SlotIdsAreFresh == Spec => []SlotIdNeverReused
<1>1. GridInv => SlotIdNeverReused
  <2> SUFFICES ASSUME GridInv PROVE SlotIdNeverReused
    OBVIOUS
  <2>1. OneEach(cameras)
    BY GridMembers DEF GridInv, GridOK
  <2> QED
    BY <2>1 DEF SlotIdNeverReused, OneEach, GridInv
<1> QED
  BY <1>1, GridInvariant, PTL

\* Every mark in autoSplitAppliedSlotIds_ is that of a row of the grid.
THEOREM MarksAreLive == Spec => []AutoMarksAreLive
<1>1. GridInv => AutoMarksAreLive
  BY GridMembers DEF GridInv, GridOK, AutoMarksAreLive
<1> QED
  BY <1>1, GridInvariant, PTL

\* A set numbered from 0 without gaps or repetitions.
LEMMA CountByIndex ==
  ASSUME NEW n \in Nat, NEW S, NEW f \in [S -> 0..(n - 1)],
         \A p, q \in S : f[p] = f[q] => p = q,
         \A i \in 0..(n - 1) : \E p \in S : f[p] = i
  PROVE  Cardinality(S) = n
<1> DEFINE T == 0..(n - 1)
<1>1. IsFiniteSet(T) /\ Cardinality(T) = n
  <2>1. 0 \in Int /\ n - 1 \in Int
    OBVIOUS
  <2>2. IsFiniteSet(T) /\ Cardinality(T) = IF 0 > n - 1 THEN 0 ELSE n - 1 - 0 + 1
    BY <2>1, FS_Interval
  <2> QED
    BY <2>2
<1> HIDE DEF T
<1>2. f \in Injection(S, T) /\ f \in Surjection(S, T)
  BY DEF Injection, Surjection, IsInjective, T
<1>3. Cardinality(S) = Cardinality(T)
  BY <1>1, <1>2, FS_Injection
<1> QED
  BY <1>1, <1>3

\* The rows of a camera: alike, and one for each part.
LEMMA RowsOfCamera ==
  ASSUME GridInv, NEW cid, NEW q \in RowsOf(cid)
  PROVE  /\ cameras[q] \in CameraEntry /\ EntryOK(cameras[q], nextSplitGroupId)
         /\ nextSplitGroupId \in Nat
         /\ \A r \in RowsOf(cid) : /\ EntryOK(cameras[r], nextSplitGroupId)
                                   /\ Alike(cameras[r], cameras[q])
         /\ \A p, r \in RowsOf(cid) : cameras[p].splitIndex = cameras[r].splitIndex => p = r
         /\ \A i \in 0..(cameras[q].splitCount - 1) :
              \E r \in RowsOf(cid) : cameras[r].splitIndex = i
<1> DEFINE S == Rows(cameras)
<1>1. /\ RowsOK(S, nextSplitGroupId) /\ OneEach(cameras) /\ nextSplitGroupId \in Nat
  BY GridFacts, GridMembers DEF GridInv
<1>2. \A r \in RowsOf(cid) : r \in DOMAIN cameras /\ cameras[r] \in S /\ cameras[r].cameraId = cid
  BY DEF RowsOf, Rows
<1>3. \A d \in S : d.cameraId = cid => \E r \in RowsOf(cid) : cameras[r] = d
  BY DEF RowsOf, Rows
<1> HIDE DEF S
<1>4. \A r \in RowsOf(cid) : EntryOK(cameras[r], nextSplitGroupId) /\ Alike(cameras[r], cameras[q])
  BY <1>1, <1>2 DEF RowsOK, Together
<1>5. ASSUME NEW p \in RowsOf(cid), NEW r \in RowsOf(cid),
             cameras[p].splitIndex = cameras[r].splitIndex
      PROVE  p = r
  <2>1. cameras[p] = cameras[r]
    BY <1>1, <1>2, <1>5 DEF RowsOK, Together
  <2> QED
    BY <1>1, <1>2, <2>1 DEF OneEach
<1>6. ASSUME NEW i \in 0..(cameras[q].splitCount - 1)
      PROVE  \E r \in RowsOf(cid) : cameras[r].splitIndex = i
  <2>1. PICK d \in S : d.cameraId = cid /\ d.splitIndex = i
    BY <1>1, <1>2 DEF RowsOK, Complete
  <2> QED
    BY <1>3, <2>1
<1> QED
  BY <1>1, <1>4, <1>5, <1>6 DEF EntryOK

ShownAs(cid, n, group, dir, online) ==
  /\ (n > 1) <=> (group # -1)
  /\ \A r \in RowsOf(cid) :
        /\ cameras[r].splitCount = n
        /\ cameras[r].splitGroupId = group
        /\ cameras[r].splitDirection = dir
        /\ cameras[r].isOnline = online
  /\ Cardinality(RowsOf(cid)) = n
  /\ {cameras[r].splitIndex : r \in RowsOf(cid)} = 0..(n - 1)

\* A camera is one whole card, or all the tiles of one split, however swapSlots,
\* mergeSlots and the snapshots of the server have followed each other.
THEOREM ShownOnce == Spec => []CameraShownOnce
<1>1. GridInv => CameraShownOnce
  <2> SUFFICES ASSUME GridInv, NEW cid \in Cameras, NEW q \in RowsOf(cid)
               PROVE  \E n \in 1..4, group \in {-1} \cup 1..(nextSplitGroupId - 1),
                         dir \in Directions \cup {"None"}, online \in BOOLEAN :
                        ShownAs(cid, n, group, dir, online)
    BY Zenon DEF CameraShownOnce, ShownAs
  <2> DEFINE n == cameras[q].splitCount
             group == cameras[q].splitGroupId
             dir == cameras[q].splitDirection
             online == cameras[q].isOnline
             S == RowsOf(cid)
             f == [r \in S |-> cameras[r].splitIndex]
  <2>1. /\ cameras[q] \in CameraEntry /\ EntryOK(cameras[q], nextSplitGroupId)
        /\ nextSplitGroupId \in Nat
        /\ \A r \in S : EntryOK(cameras[r], nextSplitGroupId) /\ Alike(cameras[r], cameras[q])
        /\ \A p, r \in S : cameras[p].splitIndex = cameras[r].splitIndex => p = r
        /\ \A i \in 0..(n - 1) : \E r \in S : cameras[r].splitIndex = i
    BY RowsOfCamera
  <2> HIDE DEF S
  <2>2. /\ n \in 1..4 /\ dir \in Directions \cup {"None"} /\ online \in BOOLEAN
    BY <2>1 DEF CameraEntry
  <2>3. group \in {-1} \cup 1..(nextSplitGroupId - 1) /\ ((n > 1) <=> (group # -1))
    BY <2>1, <2>2 DEF EntryOK
  <2>4. \A r \in S : /\ cameras[r].splitCount = n /\ cameras[r].splitGroupId = group
                     /\ cameras[r].splitDirection = dir /\ cameras[r].isOnline = online
    BY <2>1 DEF Alike
  <2> HIDE DEF n, group, dir, online
  <2>5. \A r \in S : cameras[r].splitIndex \in 0..(n - 1)
    BY <2>1, <2>2, <2>4 DEF EntryOK
  <2>6. {cameras[r].splitIndex : r \in S} = 0..(n - 1)
    BY <2>1, <2>5
  <2>7. Cardinality(S) = n
    <3>1. f \in [S -> 0..(n - 1)] /\ n \in Nat
      BY <2>2, <2>5
    <3>2. \A r \in S : f[r] = cameras[r].splitIndex
      OBVIOUS
    <3> HIDE DEF f
    <3>3. /\ \A p, r \in S : f[p] = f[r] => p = r
          /\ \A i \in 0..(n - 1) : \E r \in S : f[r] = i
      BY <2>1, <3>2
    <3> QED
      BY <3>1, <3>3, CountByIndex
  <2>8. ShownAs(cid, n, group, dir, online)
    BY <2>3, <2>4, <2>6, <2>7 DEF S, ShownAs
  <2> QED
    BY <2>2, <2>3, <2>8
<1> QED
  BY <1>1, GridInvariant, PTL

\* A cell of the frame that a rectangle shows.
Shows(rect, a, b) == /\ rect.x <= a /\ a <= rect.x + rect.w - 1
                     /\ rect.y <= b /\ b <= rect.y + rect.h - 1

\* The cells of a rectangle.
LEMMA CellFacts ==
  ASSUME NEW rect \in Rect
  PROVE  /\ \A a, b \in Int : <<a, b>> \in Cells(rect) <=> Shows(rect, a, b)
         /\ \A c \in Cells(rect) : \E a, b \in Int : c = <<a, b>>
<1>1. rect.x \in Int /\ rect.y \in Int /\ rect.w \in Int /\ rect.h \in Int
  BY DEF Rect
<1> DEFINE A == rect.x .. rect.x + rect.w - 1
           B == rect.y .. rect.y + rect.h - 1
<1>2. A \subseteq Int /\ B \subseteq Int
  BY <1>1
<1>3. \A a, b \in Int : (a \in A /\ b \in B) <=> Shows(rect, a, b)
  BY <1>1 DEF Shows
<1>4. Cells(rect) = A \X B
  BY DEF Cells
<1> HIDE DEF A, B
<1>5. \A a, b : <<a, b>> \in A \X B <=> a \in A /\ b \in B
  OBVIOUS
<1>6. \A c \in A \X B : \E a \in A, b \in B : c = <<a, b>>
  OBVIOUS
<1> QED
  BY <1>2, <1>3, <1>4, <1>5, <1>6, Zenon

\* A tile ends within the frame.
LEMMA CropsEnd ==
  ASSUME NEW n \in 1..4, NEW direction, ValidCount(n, direction), NEW i \in 0..(n - 1)
  PROVE  /\ computeCropRect(i, n, direction).x + computeCropRect(i, n, direction).w <= 12
         /\ computeCropRect(i, n, direction).y + computeCropRect(i, n, direction).h <= 12
<1>1. CASE n = 2 /\ direction = "Col"
  BY <1>1, Crops
<1>2. CASE n = 3 /\ direction = "Col"
  BY <1>2, Crops
<1>3. CASE n = 4 /\ direction = "Col"
  BY <1>3, Crops
<1>4. CASE n = 2 /\ direction = "Row"
  BY <1>4, Crops
<1>5. CASE n = 3 /\ direction = "Row"
  BY <1>5, Crops
<1>6. CASE n = 4 /\ direction = "Grid"
  <2>1. i = 0 \/ i = 1 \/ i = 2 \/ i = 3
    BY <1>6
  <2> QED
    BY <1>6, <2>1, Crops
<1> QED
  BY <1>1, <1>2, <1>3, <1>4, <1>5, <1>6, Layouts

\* The tiles of every layout show every cell of the frame once.
LEMMA TilesOfLayout ==
  ASSUME NEW n \in 1..4, NEW direction, ValidCount(n, direction), NEW a \in 0..11, NEW b \in 0..11
  PROVE  /\ \E i \in 0..(n - 1) : Shows(computeCropRect(i, n, direction), a, b)
         /\ \A i, j \in 0..(n - 1) : /\ Shows(computeCropRect(i, n, direction), a, b)
                                     /\ Shows(computeCropRect(j, n, direction), a, b)
                                     => i = j
<1>1. CASE n = 2 /\ direction = "Col"
  <2>1. \A i \in 0..1 : Shows(computeCropRect(i, 2, "Col"), a, b) <=> i * 6 <= a /\ a <= i * 6 + 5
    BY Crops DEF Shows
  <2> QED
    BY <1>1, <2>1
<1>2. CASE n = 3 /\ direction = "Col"
  <2>1. \A i \in 0..2 : Shows(computeCropRect(i, 3, "Col"), a, b) <=> i * 4 <= a /\ a <= i * 4 + 3
    BY Crops DEF Shows
  <2> QED
    BY <1>2, <2>1
<1>3. CASE n = 4 /\ direction = "Col"
  <2>1. \A i \in 0..3 : Shows(computeCropRect(i, 4, "Col"), a, b) <=> i * 3 <= a /\ a <= i * 3 + 2
    BY Crops DEF Shows
  <2> QED
    BY <1>3, <2>1
<1>4. CASE n = 2 /\ direction = "Row"
  <2>1. \A i \in 0..1 : Shows(computeCropRect(i, 2, "Row"), a, b) <=> i * 6 <= b /\ b <= i * 6 + 5
    BY Crops DEF Shows
  <2> QED
    BY <1>4, <2>1
<1>5. CASE n = 3 /\ direction = "Row"
  <2>1. \A i \in 0..2 : Shows(computeCropRect(i, 3, "Row"), a, b) <=> i * 4 <= b /\ b <= i * 4 + 3
    BY Crops DEF Shows
  <2> QED
    BY <1>5, <2>1
<1>6. CASE n = 4 /\ direction = "Grid"
  <2>1. /\ Shows(computeCropRect(0, 4, "Grid"), a, b) <=> a <= 5 /\ b <= 5
        /\ Shows(computeCropRect(1, 4, "Grid"), a, b) <=> a > 5 /\ b <= 5
        /\ Shows(computeCropRect(2, 4, "Grid"), a, b) <=> a <= 5 /\ b > 5
        /\ Shows(computeCropRect(3, 4, "Grid"), a, b) <=> a > 5 /\ b > 5
    BY Crops DEF Shows
  <2>2. \A i \in 0..3 : i = 0 \/ i = 1 \/ i = 2 \/ i = 3
    OBVIOUS
  <2> QED
    BY <1>6, <2>1, <2>2
<1> QED
  BY <1>1, <1>2, <1>3, <1>4, <1>5, <1>6, Layouts

\* The rows of a camera show every part of its frame exactly once, for each of
\* the layouts computeCropRect knows and for whole and merged cards.
THEOREM TilesCover == Spec => []TilesCoverFrame
<1>1. GridInv => TilesCoverFrame
  <2> SUFFICES ASSUME GridInv, NEW cid \in Cameras, NEW q \in RowsOf(cid)
               PROVE  /\ UNION {Cells(cameras[r].cropRect) : r \in RowsOf(cid)} = Cells(FullFrame)
                      /\ \A p, r \in RowsOf(cid) : p # r =>
                            Cells(cameras[p].cropRect) \cap Cells(cameras[r].cropRect) = {}
    BY DEF TilesCoverFrame
  <2> DEFINE S == RowsOf(cid)
             n == cameras[q].splitCount
             dir == cameras[q].splitDirection
             crop(r) == cameras[r].cropRect
             index(r) == cameras[r].splitIndex
  <2>1. /\ cameras[q] \in CameraEntry
        /\ \A r \in S : EntryOK(cameras[r], nextSplitGroupId) /\ Alike(cameras[r], cameras[q])
        /\ \A p, r \in S : index(p) = index(r) => p = r
        /\ \A i \in 0..(n - 1) : \E r \in S : index(r) = i
    BY RowsOfCamera
  <2>2. n \in 1..4 /\ \A r \in S : crop(r) \in Rect
    BY <2>1 DEF EntryOK, CameraEntry, Rect
  <2>3. n > 1 => ValidCount(n, dir)
    BY <2>1 DEF EntryOK, Alike
  <2>4. \A r \in S : /\ n = 1 => crop(r) = FullFrame /\ index(r) = 0
                     /\ n > 1 => index(r) \in 0..(n - 1) /\ crop(r) = computeCropRect(index(r), n, dir)
    BY <2>1 DEF EntryOK, Alike
  <2>5. /\ \A a, b \in Int : <<a, b>> \in Cells(FullFrame) <=> a \in 0..11 /\ b \in 0..11
        /\ \A c \in Cells(FullFrame) : \E a, b \in Int : c = <<a, b>>
    <3>1. FullFrame \in Rect
      BY DEF FullFrame, Rect, Frame
    <3>2. \A a, b \in Int : Shows(FullFrame, a, b) <=> a \in 0..11 /\ b \in 0..11
      BY DEF Shows, FullFrame, Frame
    <3> QED
      BY <3>1, <3>2, CellFacts
  <2>6. \A r \in S : /\ \A a, b \in Int : <<a, b>> \in Cells(crop(r)) <=> Shows(crop(r), a, b)
                     /\ \A c \in Cells(crop(r)) : \E a, b \in Int : c = <<a, b>>
    BY <2>2, CellFacts
  <2>7. \A r \in S, a, b \in Int : Shows(crop(r), a, b) => a \in 0..11 /\ b \in 0..11
    <3>1. ASSUME NEW rect \in Rect, NEW a \in Int, NEW b \in Int, Shows(rect, a, b),
                 rect.x + rect.w <= 12, rect.y + rect.h <= 12
          PROVE  a \in 0..11 /\ b \in 0..11
      BY <3>1 DEF Shows, Rect
    <3>2. \A r \in S : crop(r).x + crop(r).w <= 12 /\ crop(r).y + crop(r).h <= 12
      <4> SUFFICES ASSUME NEW r \in S
                   PROVE  crop(r).x + crop(r).w <= 12 /\ crop(r).y + crop(r).h <= 12
        OBVIOUS
      <4>1. CASE n = 1
        BY <2>4, <4>1 DEF FullFrame, Frame
      <4>2. CASE n > 1
        <5> DEFINE i == index(r)
        <5>1. ValidCount(n, dir) /\ i \in 0..(n - 1) /\ crop(r) = computeCropRect(i, n, dir)
          BY <2>3, <2>4, <4>2
        <5> HIDE DEF i, n, dir
        <5> QED
          BY <2>2, <5>1, CropsEnd
      <4> QED
        BY <2>2, <4>1, <4>2
    <3> QED
      BY <2>2, <3>1, <3>2
  <2> HIDE DEF n, dir, S, crop, index
  <2>8. ASSUME NEW a \in 0..11, NEW b \in 0..11
        PROVE  /\ \E r \in S : Shows(crop(r), a, b)
               /\ \A p, r \in S : Shows(crop(p), a, b) /\ Shows(crop(r), a, b) => p = r
    <3>1. CASE n = 1
      <4>1. Shows(FullFrame, a, b)
        BY DEF Shows, FullFrame, Frame
      <4>2. q \in S
        BY DEF S
      <4> QED
        BY <2>1, <2>4, <3>1, <4>1, <4>2
    <3>2. CASE n > 1
      <4>1. PICK i \in 0..(n - 1) : Shows(computeCropRect(i, n, dir), a, b)
        BY <2>2, <2>3, <3>2, TilesOfLayout
      <4>2. PICK r \in S : index(r) = i
        BY <2>1, <4>1
      <4>3. Shows(crop(r), a, b)
        BY <2>4, <3>2, <4>1, <4>2
      <4>4. ASSUME NEW p \in S, NEW o \in S, Shows(crop(p), a, b), Shows(crop(o), a, b)
            PROVE  p = o
        <5>1. index(p) = index(o)
          BY <2>2, <2>3, <2>4, <3>2, <4>4, TilesOfLayout
        <5> QED
          BY <2>1, <5>1
      <4> QED
        BY <4>3, <4>4
    <3> QED
      BY <2>2, <3>1, <3>2
  <2>9. UNION {Cells(crop(r)) : r \in S} = Cells(FullFrame)
    <3>1. ASSUME NEW c \in Cells(FullFrame) PROVE \E r \in S : c \in Cells(crop(r))
      <4>1. PICK a \in Int, b \in Int : c = <<a, b>>
        BY <2>5, <3>1
      <4>2. a \in 0..11 /\ b \in 0..11
        BY <2>5, <3>1, <4>1
      <4>3. PICK r \in S : Shows(crop(r), a, b)
        BY <2>8, <4>2
      <4> QED
        BY <2>6, <4>1, <4>3
    <3>2. ASSUME NEW r \in S, NEW c \in Cells(crop(r)) PROVE c \in Cells(FullFrame)
      <4>1. PICK a \in Int, b \in Int : c = <<a, b>>
        BY <2>6, <3>2
      <4>2. a \in 0..11 /\ b \in 0..11
        BY <2>6, <2>7, <3>2, <4>1
      <4> QED
        BY <2>5, <4>1, <4>2
    <3> QED
      BY <3>1, <3>2
  <2>10. \A p, r \in S : p # r => Cells(crop(p)) \cap Cells(crop(r)) = {}
    <3> SUFFICES ASSUME NEW p \in S, NEW r \in S, NEW c \in Cells(crop(p)), c \in Cells(crop(r))
                 PROVE  p = r
      OBVIOUS
    <3>1. PICK a \in Int, b \in Int : c = <<a, b>>
      BY <2>6
    <3>2. Shows(crop(p), a, b) /\ Shows(crop(r), a, b)
      BY <2>6, <3>1
    <3> QED
      BY <2>7, <2>8, <3>2
  <2> QED
    BY <2>9, <2>10 DEF S, crop
<1> QED
  BY <1>1, GridInvariant, PTL

-----------------------------------------------------------------------------
(* The pass of onStoreUpdated over the rows misses none. *)

\* Row e is to be split, unless its place is marked.
Due(e, marks) == /\ e.isOnline /\ e.splitCount = 1 /\ AutoTiles[e.cameraId] > 1
                 /\ e.slotId \notin marks

\* What the turn for row e does to the grid.
LEMMA AutoSplitTurn ==
  ASSUME NEW h, GridOK(h), NEW e \in CameraEntry
  PROVE  /\ \/ AutoSplitRow(h, e) = h
            \/ \E d \in Rows(h.cameras) : Divided(h, AutoSplitRow(h, e), d)
         /\ Due(e, h.auto) /\ e \in Rows(h.cameras) => Divided(h, AutoSplitRow(h, e), e)
<1> DEFINE slotId == e.slotId
           rows == {r \in DOMAIN h.cameras : h.cameras[r].slotId = slotId}
           r == Min(rows)
           n == AutoTiles[h.cameras[r].cameraId]
           k == AutoSplitRow(h, e)
<1>1. h.cameras \in Seq(CameraEntry) /\ OneEach(h.cameras)
  BY GridFacts
<1>2. k = IF e.splitCount = 1 /\ e.isOnline THEN AutoSplitSlot(h, slotId) ELSE h
  BY Zenon DEF AutoSplitRow
<1>3. AutoSplitSlot(h, slotId) = IF rows # {} /\ slotId \notin h.auto /\ CanSplit(h, r, n, "Col")
                                 THEN SplitAt(h, r, n, "Col", TRUE) ELSE h
  BY Zenon DEF AutoSplitSlot
<1> HIDE DEF r, k
<1>4. ASSUME CanSplit(h, r, n, "Col")
      PROVE  /\ Divided(h, SplitAt(h, r, n, "Col", TRUE), h.cameras[r])
             /\ h.cameras[r] \in Rows(h.cameras)
  <2>1. r \in DOMAIN h.cameras
    BY <1>4 DEF CanSplit
  <2>2. h.cameras[r] \in CameraEntry
    BY <1>1, <2>1, Entries
  <2>3. n \in 1..4
    BY <2>2, AutoTilesAssumption DEF CameraEntry
  <2> HIDE DEF n
  <2> QED
    BY <1>4, <2>1, <2>3, SplitGood DEF Rows
<1>5. k = h \/ \E d \in Rows(h.cameras) : Divided(h, k, d)
  <2> DEFINE t == SplitAt(h, r, n, "Col", TRUE)
  <2>1. k = h \/ (CanSplit(h, r, n, "Col") /\ k = t)
    BY <1>2, <1>3, Zenon
  <2> HIDE DEF t, n
  <2> QED
    BY <1>4, <2>1, Zenon DEF t
<1>6. ASSUME Due(e, h.auto), e \in Rows(h.cameras)
      PROVE  Divided(h, k, e)
  <2>1. PICK q \in DOMAIN h.cameras : h.cameras[q] = e
    BY <1>6 DEF Rows
  <2>2. DOMAIN h.cameras \subseteq Nat
    BY <1>1
  <2>3. r \in rows
    <3>1. rows \in SUBSET Nat /\ rows # {}
      BY <2>1, <2>2
    <3> HIDE DEF rows
    <3> QED
      BY <3>1, MinFacts DEF r
  <2>4. r \in DOMAIN h.cameras /\ h.cameras[r] = e /\ rows # {}
    BY <1>1, <2>1, <2>3 DEF OneEach
  <2>5. n \in 2..4
    <3>1. AutoTiles[e.cameraId] \in 1..4
      BY AutoTilesAssumption DEF CameraEntry
    <3> QED
      BY <1>6, <2>4, <3>1 DEF Due
  <2>6. CanSplit(h, r, n, "Col")
    BY <1>6, <2>4, <2>5 DEF CanSplit, ValidCount, Due
  <2>7. k = SplitAt(h, r, n, "Col", TRUE)
    BY <1>2, <1>3, <1>6, <2>4, <2>6, Zenon DEF Due
  <2> HIDE DEF n
  <2> QED
    BY <1>4, <2>4, <2>6, <2>7
<1> QED
  BY <1>5, <1>6 DEF k

\* What the pass over the rows of g has brought about when the turn of row m is over.
PassInv(h, m, g) ==
  /\ GridOK(h) /\ Follows(g, h)
  /\ \A d \in Rows(h.cameras) : d.splitCount = 1 => d \in Rows(g.cameras)
  /\ \A x \in h.auto : x \in g.auto \/ x >= g.nextSlotId
  /\ \A i \in DOMAIN g.cameras :
       i <= m /\ Due(g.cameras[i], g.auto) => g.cameras[i] \notin Rows(h.cameras)

\* A turn goes on with it.
LEMMA PassTurn ==
  ASSUME NEW g, GridOK(g), NEW m \in Nat, m + 1 \in DOMAIN g.cameras,
         NEW h, PassInv(h, m, g)
  PROVE  PassInv(AutoSplitRow(h, g.cameras[m + 1]), m + 1, g)
<1> DEFINE R == g.cameras
           e == R[m + 1]
           k == AutoSplitRow(h, e)
<1>1. /\ R \in Seq(CameraEntry) /\ g.nextSlotId \in Nat /\ DOMAIN R \subseteq Nat
      /\ \A d \in Rows(R) : d.slotId < g.nextSlotId /\ d \in CameraEntry
  <2>1. /\ R \in Seq(CameraEntry) /\ g.nextSlotId \in Nat
        /\ \A d \in Rows(R) : d.slotId < g.nextSlotId
    BY GridFacts
  <2>2. \A d \in Rows(R) : d \in CameraEntry
    BY <2>1, Entries DEF Rows
  <2> QED
    BY <2>1, <2>2
<1>2. e \in Rows(R) /\ e \in CameraEntry /\ m + 1 \in DOMAIN R
  BY <1>1 DEF Rows
<1>3. /\ GridOK(h) /\ Follows(g, h)
      /\ \A d \in Rows(h.cameras) : d.splitCount = 1 => d \in Rows(R)
      /\ \A x \in h.auto : x \in g.auto \/ x >= g.nextSlotId
      /\ \A i \in DOMAIN R : i <= m /\ Due(R[i], g.auto) => R[i] \notin Rows(h.cameras)
  BY Zenon DEF PassInv
<1> HIDE DEF R, e
<1>4. GridOK(k) /\ Follows(g, k)
  <2>1. k = h \/ k = AutoSplitSlot(h, e.slotId)
    BY Zenon DEF AutoSplitRow
  <2> HIDE DEF k
  <2>2. GridOK(k) /\ Follows(h, k)
    BY <1>3, <2>1, AutoSplitGood, FollowsFacts
  <2> QED
    BY <1>3, <2>2, FollowsFacts
<1>5. /\ k = h \/ \E d \in Rows(h.cameras) : Divided(h, k, d)
      /\ Due(e, h.auto) /\ e \in Rows(h.cameras) => Divided(h, k, e)
  BY <1>2, <1>3, AutoSplitTurn
<1> HIDE DEF k
<1>6. /\ \A d \in Rows(k.cameras) : d \in Rows(h.cameras) \/ d.splitCount > 1
      /\ \A x \in k.auto : x \in h.auto \/ x >= h.nextSlotId
  BY <1>5 DEF Divided
<1>7. \A d \in Rows(k.cameras) : d.splitCount = 1 => d \in Rows(h.cameras)
  BY <1>6
<1>8. \A d \in Rows(k.cameras) : d.splitCount = 1 => d \in Rows(R)
  BY <1>3, <1>7
<1>9. \A x \in k.auto : x \in g.auto \/ x >= g.nextSlotId
  <2>1. h.nextSlotId \in Nat /\ h.nextSlotId >= g.nextSlotId
    BY <1>3, GridFacts DEF Follows
  <2>2. \A x \in k.auto : x \in Nat
    BY <1>4 DEF GridOK, GridValue
  <2> QED
    BY <1>1, <1>3, <1>6, <2>1, <2>2
<1>10. ASSUME NEW i \in DOMAIN R, i <= m + 1, Due(R[i], g.auto)
       PROVE  R[i] \notin Rows(k.cameras)
  <2>1. R[i].splitCount = 1
    BY <1>10 DEF Due
  <2>2. CASE i <= m
    BY <1>3, <1>7, <1>10, <2>1, <2>2
  <2>3. CASE i = m + 1
    <3>1. R[i] = e
      BY <2>3 DEF e
    <3>2. e.slotId \notin h.auto
      <4>1. e.slotId \in Nat /\ e.slotId < g.nextSlotId
        BY <1>1, <1>2 DEF CameraEntry
      <4>2. e.slotId \notin g.auto
        BY <1>10, <3>1 DEF Due
      <4> QED
        BY <1>1, <1>3, <4>1, <4>2
    <3>3. Due(e, h.auto)
      BY <1>10, <3>1, <3>2 DEF Due
    <3>4. CASE e \in Rows(h.cameras)
      <4>1. Divided(h, k, e)
        BY <1>5, <3>3, <3>4
      <4>2. ~(e.splitCount > 1)
        BY <2>1, <3>1
      <4> QED
        BY <3>1, <4>1, <4>2 DEF Divided
    <3>5. CASE e \notin Rows(h.cameras)
      BY <1>7, <2>1, <3>1, <3>5
    <3> QED
      BY <3>4, <3>5
  <2> QED
    BY <1>1, <1>10, <2>2, <2>3
<1>11. PassInv(k, m + 1, g)
  BY <1>4, <1>8, <1>9, <1>10 DEF PassInv, R
<1> QED
  BY <1>11 DEF k, e, R

\* The pass leaves no row that is due.
LEMMA PassComplete ==
  ASSUME NEW g, GridOK(g)
  PROVE  \A d \in Rows(AutoSplitRows(g, g.cameras).cameras) : ~Due(d, g.auto)
<1> DEFINE R == g.cameras
           N == Len(R)
           G == {h \in GridValue : GridOK(h)}
<1>1. R \in Seq(CameraEntry)
  BY GridFacts
<1>2. g \in G
  BY DEF GridOK
<1>3. PICK f : Turns(f, g, R) /\ AutoSplitRows(g, R) = f[N]
  <2>1. ASSUME NEW h \in G, NEW e \in CameraEntry PROVE AutoSplitRow(h, e) \in G
    <3>1. AutoSplitRow(h, e) = h \/ AutoSplitRow(h, e) = AutoSplitSlot(h, e.slotId)
      BY Zenon DEF AutoSplitRow
    <3>2. GridOK(AutoSplitRow(h, e))
      BY <3>1, AutoSplitGood
    <3> QED
      BY <3>2 DEF GridOK
  <2>2. Closed(G, CameraEntry)
    BY <2>1 DEF Closed
  <2> HIDE DEF G
  <2> QED
    BY <1>1, <1>2, <2>2, AutoSplitLoop
<1>4. N \in Nat /\ DOMAIN R = 1..N
  BY <1>1
<1> DEFINE P == {m \in 0..N : PassInv(f[m], m, g)}
<1>5. 0 \in P
  <2>1. f[0] = g /\ Follows(g, g)
    BY <1>3, FollowsFacts DEF Turns
  <2>2. \A i \in DOMAIN R : ~(i <= 0)
    BY <1>4
  <2>3. PassInv(g, 0, g)
    BY <2>1, <2>2 DEF PassInv
  <2> QED
    BY <1>4, <2>1, <2>3
<1>6. ASSUME NEW m \in 0..(N - 1), m \in P PROVE m + 1 \in P
  <2> HIDE DEF N
  <2>1. m \in Nat /\ m + 1 \in 0..N /\ m + 1 \in 1..N /\ (m + 1) - 1 = m
    BY <1>4
  <2>2. f[m + 1] = AutoSplitRow(f[m], R[m + 1])
    BY <1>3, <2>1 DEF Turns, N
  <2>3. PassInv(f[m], m, g)
    BY <1>6
  <2>4. PassInv(AutoSplitRow(f[m], R[m + 1]), m + 1, g)
    BY <1>4, <2>1, <2>3, PassTurn
  <2> QED
    BY <2>1, <2>2, <2>4
<1> HIDE DEF P
<1>7. \A m \in 0..N : m \in P
  BY <1>4, <1>5, <1>6, SetInduction
<1> DEFINE h == f[N]
<1>8. PassInv(h, N, g)
  BY <1>4, <1>7 DEF P
<1> HIDE DEF h
<1>9. /\ \A d \in Rows(h.cameras) : d.splitCount = 1 => d \in Rows(R)
      /\ \A i \in DOMAIN R : i <= N /\ Due(R[i], g.auto) => R[i] \notin Rows(h.cameras)
  BY <1>8, Zenon DEF PassInv
<1>10. \A d \in Rows(h.cameras) : ~Due(d, g.auto)
  <2> SUFFICES ASSUME NEW d \in Rows(h.cameras), Due(d, g.auto) PROVE FALSE
    OBVIOUS
  <2>1. d \in Rows(R)
    BY <1>9 DEF Due
  <2>2. PICK i \in DOMAIN R : R[i] = d
    BY <2>1 DEF Rows
  <2>3. i <= N
    BY <1>4, <2>2
  <2> QED
    BY <1>9, <2>2, <2>3
<1> QED
  BY <1>3, <1>10 DEF h

\* No other handler brings a camera online.
LEMMA NothingNew ==
  ASSUME FromRows(cameras, cameras')
  PROVE  ~\E cid \in Cameras : ComesOnline(cid)
<1> SUFFICES ASSUME NEW cid \in Cameras, ComesOnline(cid) PROVE FALSE
  OBVIOUS
<1>1. PICK p \in DOMAIN cameras' : cameras'[p].cameraId = cid /\ cameras'[p].isOnline
  BY DEF ComesOnline
<1>2. cameras'[p] \in Rows(cameras')
  BY DEF Rows
<1>3. PICK e \in Rows(cameras) : /\ cameras'[p].cameraId = e.cameraId
                                 /\ cameras'[p].isOnline = e.isOnline
  BY <1>2 DEF FromRows
<1>4. PICK r \in DOMAIN cameras : cameras[r] = e
  BY DEF Rows
<1> QED
  BY <1>1, <1>3, <1>4 DEF ComesOnline, RowsOf

NoneIsMissed ==
  (\E cid \in Cameras : ComesOnline(cid)) =>
      \A r \in DOMAIN cameras' :
          /\ cameras'[r].isOnline
          /\ cameras'[r].splitCount = 1
          /\ AutoTiles[cameras'[r].cameraId] > 1
          => cameras'[r].slotId \in autoSplitAppliedSlotIds

\* A snapshot that brings cameras online splits every online camera that the
\* deployment wants split and whose place is not marked: the candidates are
\* looked up by slotId, so the splits of the pass move no row out of its reach.
THEOREM NoRowIsMissed == Spec => AutoSplitIsComplete
<1>1. GridInv /\ Next => NoneIsMissed
  <2> SUFFICES ASSUME GridInv, Next PROVE NoneIsMissed
    OBVIOUS
  <2>1. GridOK(Grid)
    BY DEF GridInv
  <2>2. CASE FromRows(cameras, cameras')
    BY <2>2, NothingNew DEF NoneIsMissed
  <2>3. ASSUME NEW a \in DOMAIN cameras, NEW b \in DOMAIN cameras, swapSlots(a, b)
        PROVE  FromRows(cameras, cameras')
    <3> DEFINE R == Grid.cameras
               Q == [R EXCEPT ![a] = Swapped(R[a], R[b]), ![b] = Swapped(R[b], R[a])]
    <3>1. a # b /\ Become([Grid EXCEPT !.cameras = Q])
      BY <2>3, GridMembers, Zenon DEF swapSlots
    <3>2. a \in DOMAIN R /\ b \in DOMAIN R
      BY GridMembers
    <3>3. FromRows(R, Q)
      <4> HIDE DEF Grid
      <4> QED
        BY <2>1, <3>1, <3>2, SwapGood, Zenon
    <3> HIDE DEF Q
    <3>4. cameras' = Q
      BY <3>1 DEF Become, Grid
    <3> QED
      BY <3>3, <3>4, GridMembers
  <2>4. ASSUME NEW r \in DOMAIN cameras, NEW n \in 2..4, NEW d \in Directions, splitSlot(r, n, d)
        PROVE  FromRows(cameras, cameras')
    <3> DEFINE h == SplitAt(Grid, r, n, d, FALSE)
    <3>1. CanSplit(Grid, r, n, d) /\ cameras' = h.cameras
      BY <2>4 DEF splitSlot, Become
    <3>2. n \in 1..4
      OBVIOUS
    <3>3. Divided(Grid, h, Grid.cameras[r])
      <4> HIDE DEF Grid
      <4> QED
        BY <2>1, <3>1, <3>2, SplitGood
    <3> HIDE DEF h
    <3>4. /\ cameras[r] \in Rows(cameras)
          /\ \A e \in Rows(h.cameras) :
               \/ e \in Rows(cameras)
               \/ e.cameraId = cameras[r].cameraId /\ e.isOnline = cameras[r].isOnline
      <4>1. cameras[r] \in Rows(cameras)
        BY DEF Rows
      <4> QED
        BY <3>3, <4>1, GridMembers DEF Divided
    <3> QED
      BY <3>1, <3>4 DEF FromRows
  <2>5. ASSUME NEW r \in DOMAIN cameras, mergeSlots(r)
        PROVE  FromRows(cameras, cameras')
    <3>1. CanMerge(Grid, r) /\ cameras' = MergeAt(Grid, r).cameras
      BY <2>5 DEF mergeSlots, Become
    <3>2. FromRows(Grid.cameras, MergeAt(Grid, r).cameras)
      <4> HIDE DEF Grid
      <4> QED
        BY <2>1, <3>1, MergeGood
    <3> QED
      BY <3>1, <3>2, GridMembers
  <2>6. ASSUME NEW snapshot \in Snapshots, onStoreUpdated(snapshot)
        PROVE  NoneIsMissed
    <3>1. PICK order \in SetToSeqs(NewCameras(snapshot)) :
                 Become(AutoSplitRows(AppendNew(snapshot, order), AppendNew(snapshot, order).cameras))
      BY <2>6, Zenon DEF onStoreUpdated
    <3> DEFINE k == AppendNew(snapshot, order)
               h == AutoSplitRows(k, k.cameras)
    <3>2. GridOK(k) /\ k.auto = autoSplitAppliedSlotIds
      BY <2>1, AppendNewGood DEF AppendNew, Grid
    <3>3. cameras' = h.cameras
      BY <3>1 DEF Become
    <3> HIDE DEF k
    <3>4. \A d \in Rows(h.cameras) : ~Due(d, k.auto)
      BY <3>2, PassComplete
    <3> HIDE DEF h
    <3>5. ASSUME NEW r \in DOMAIN cameras' PROVE ~Due(cameras'[r], autoSplitAppliedSlotIds)
      BY <3>2, <3>3, <3>4 DEF Rows
    <3> QED
      BY <3>5 DEF NoneIsMissed, Due
  <2>7. ASSUME clearAll PROVE FromRows(cameras, cameras')
    BY <2>7 DEF clearAll, FromRows, Rows
  <2> QED
    BY <2>2, <2>3, <2>4, <2>5, <2>6, <2>7, SensorGood DEF Next, UserStep, ServerStep
<1>2. GridInv /\ [Next]_vars => [NoneIsMissed]_vars
  BY <1>1
<1> QED
  BY <1>2, GridInvariant, PTL DEF Spec, AutoSplitIsComplete, NoneIsMissed

=============================================================================
