---------------------------- MODULE DataPathProofs ----------------------------
(***************************************************************************)
(* Proofs about the way of a packet through the stores to the models.      *)
(***************************************************************************)
EXTENDS DataPath, SequenceFacts

-------------------------------------------------------------------------------
(* What the queues hold *)

Nums == Numbers \ {0}
Snapshots == Seq(Device)

\* The calls that wait for the GUI thread.
Events ==
  UNION {[type : {"packet", "pending"}, n : Nums, body : Contents],
         [type : {"cameras"}, n : Nums, list : Seq(Items)],
         [type : {"sensor"}, n : Nums, id : Cameras],
         [type : {"devices"}, version : Nat, snapshot : Snapshots],
         [type : {"server"}, n : Nums, server : Numbers],
         [type : {"image"}, n : Nums, id : Cameras, picture : BOOLEAN],
         [type : {"alarm"}, n : Nums]}

\* The tasks: what is left to do is items of the list, cameras found, or a copy of the
\* devices with its version.
ListTasks == [kind : {"camera"}, n : Nums, body : Contents,
              at : {"parse", "table", "lock", "post"}, left : Seq(Items)]
FoundTasks == [kind : {"meta", "count", "image"}, n : Nums, body : Contents,
               at : {"parse", "lock", "info", "post", "moved"}, left : Seq(Cameras)]
DeviceTasks == [kind : {"device", "available"}, n : Nums, body : Contents,
                at : {"parse", "lock"}, left : {<<>>}]
CopyTasks == [kind : {"device", "available"}, n : Nums, body : Contents,
              at : {"post"}, left : Nat \X Snapshots]
PlainTasks == [kind : {"server", "alarm"}, n : Nums, body : Contents,
               at : {"parse", "lock", "post"}, left : {<<>>}]

Tasks == UNION {ListTasks, FoundTasks, DeviceTasks, CopyTasks, PlainTasks}

\* A task belongs to the type of its packet, has something to do at each place where
\* it does something, and only what can be parsed is used.
Fits(t) ==
  /\ t.kind \in {"camera", "device"} => t.body.type = "CAMERA"
  /\ t.kind \in {"available", "server"} => t.body.type = "AVAILABLE"
  /\ t.kind = "meta" => t.body.type = "META"
  /\ t.kind = "image" => t.body.type = "IMAGE"
  /\ t.kind \in {"alarm", "count"} => t.body.type = "AI"
  /\ t.at # "parse" => t.body.form = "ok"
  /\ t.kind = "camera" /\ t.at = "table" => t.left # <<>>
  /\ t.kind \in {"meta", "count", "image"} /\ t.at \in {"info", "post", "moved"} => t.left # <<>>

GoodTasks == {t \in Tasks : Fits(t)}
FreshTasks == {t \in GoodTasks : t.at = "parse"}

ControlOK ==
  /\ process \in {"up", "closing", "quitting", "ended", "aborted", "undefined"}
  /\ connected \in BOOLEAN /\ received \in Numbers /\ logouts \in 0..MaxLogouts
  /\ alive \subseteq {"camera", "device", "server"}
  /\ cleared \in BOOLEAN
  /\ lone \in {<<>>} \union (Nums \X Contents \X BOOLEAN)

PoolOK ==
  /\ queue_ \in Seq(FreshTasks)
  /\ running \in SUBSET GoodTasks /\ IsFiniteSet(running) /\ Cardinality(running) <= Threads

StoresOK ==
  /\ table_ \in [Cameras -> [sourceUrl : Urls, deviceInfo : Numbers, aiInfo : Numbers]]
  /\ data_ \in Seq(Items) /\ devices_ \in Snapshots
  /\ status_ \in [devices : Numbers, server : Numbers, history_ : History(MAX_STATUS_HISTORY)]
  /\ version \in Nat /\ reading \in [Ips -> Numbers]

ModelsOK ==
  /\ cameras \in [Cameras -> [shown : {"absent", "online", "offline"}, sensor : Numbers]]
  /\ deviceRows \in Snapshots
  /\ server \in [devices : Numbers, server : Numbers, serverHistory_ : History(MAX_SERVER_HISTORY)]
  /\ users \in Numbers
  /\ images \in [Cameras -> BoundedSeq([n : Numbers, picture : BOOLEAN], MAX_EVENTS_PER_CAMERA)]
  /\ alarms_ \in Seq([id : Nat, n : Nums]) /\ Len(alarms_) <= kMaxAlarms /\ clock \in Nat
  /\ shownVersion \in Nat

DataTypes == ControlOK /\ events \in Seq(Events) /\ PoolOK /\ StoresOK /\ ModelsOK

-------------------------------------------------------------------------------
(* Histories *)

\* Sequences of bounded length.
LEMMA Bounded ==
  ASSUME NEW T, NEW max \in Nat, NEW q
  PROVE  q \in BoundedSeq(T, max) <=> q \in Seq(T) /\ Len(q) <= max
<1>1. BoundedSeq(T, max) = UNION {[1..m -> T] : m \in 0..max}
  BY Zenon DEF BoundedSeq, SeqOf
<1>2. ASSUME NEW m \in 0..max, q \in [1..m -> T] PROVE q \in Seq(T) /\ Len(q) <= max
  BY <1>2
<1>3. ASSUME q \in Seq(T), Len(q) <= max PROVE \E m \in 0..max : q \in [1..m -> T]
  <2>1. Len(q) \in 0..max /\ q \in [1..Len(q) -> T]
    BY <1>3
  <2> QED
    BY <2>1
<1> QED
  BY <1>1, <1>2, <1>3

\* A history with one entry more: it ends with the new entry and keeps to its bound.
LEMMA AppendedFacts ==
  ASSUME NEW T, NEW max \in Nat \ {0}, NEW q \in BoundedSeq(T, max), NEW x \in T
  PROVE  /\ Appended(q, x, max) \in BoundedSeq(T, max)
         /\ Appended(q, x, max) # <<>> /\ Last(Appended(q, x, max)) = x
<1> DEFINE l == Append(q, x)
<1>1. q \in Seq(T) /\ Len(q) <= max /\ Len(q) \in Nat
  BY Bounded
<1>2. l \in Seq(T) /\ Len(l) = Len(q) + 1 /\ l[Len(l)] = x
  BY <1>1
<1>3. Appended(q, x, max) = IF Len(l) > max THEN Tail(l) ELSE l
  BY DEF Appended
<1> HIDE DEF l
<1>4. CASE Len(l) > max
  <2>1. l # <<>> /\ Len(l) >= 2
    BY <1>1, <1>2, <1>4
  <2>2. Tail(l) \in Seq(T) /\ Len(Tail(l)) = Len(l) - 1 /\ Tail(l)[Len(l) - 1] = l[(Len(l) - 1) + 1]
    BY <1>2, <2>1
  <2>3. (Len(l) - 1) + 1 = Len(l) /\ Len(l) - 1 <= max /\ Len(l) - 1 >= 1
    BY <1>1, <1>2, <2>1
  <2>4. Last(Tail(l)) = x
    BY <1>2, <2>2, <2>3 DEF Last
  <2>5. Tail(l) # <<>> /\ Len(Tail(l)) <= max
    <3>1. Len(Tail(l)) # 0 /\ Len(Tail(l)) <= max
      BY <1>2, <2>2, <2>3
    <3>2. Len(<<>>) = 0
      OBVIOUS
    <3> QED
      BY <3>1, <3>2, Zenon
  <2>6. Tail(l) \in BoundedSeq(T, max)
    BY <2>2, <2>5, Bounded
  <2> QED
    BY <1>3, <1>4, <2>4, <2>5, <2>6
<1>5. CASE ~(Len(l) > max)
  <2>1. Len(l) <= max /\ l # <<>>
    BY <1>1, <1>2, <1>5
  <2>2. l \in BoundedSeq(T, max)
    BY <1>2, <2>1, Bounded
  <2>3. Last(l) = x
    BY <1>2 DEF Last
  <2> QED
    BY <1>3, <1>5, <2>1, <2>2, <2>3
<1> QED
  BY <1>4, <1>5

-------------------------------------------------------------------------------
(* The loops over rows of devices *)

\* The turns of the loop that keeps the devices which are not in the list.
KeepAll(b, s) == FoldLeft(KeepMissing, b, s)

KeepTurns(f, b, s) ==
  f[0] = b /\ \A n \in 1..Len(s) : f[n] = KeepMissing(f[n - 1], s[n])

KeepClosed(G, T) == \A g \in G, e \in T : KeepMissing(g, e) \in G

\* The loop ends with its last turn.
LEMMA KeepLoop ==
  ASSUME NEW T, NEW s \in Seq(T), NEW G, NEW b \in G, KeepClosed(G, T)
  PROVE  \E f : KeepTurns(f, b, s) /\ KeepAll(b, s) = f[Len(s)]
<1> DEFINE N == Len(s)
           Turn(g, t) == [u \in SUBSET t |-> IF u = {} THEN b
                            ELSE KeepMissing(g[u \ {Max(u)}], s[Max(u)])]
           F == [p \in G \X (1..N) |-> KeepMissing(p[1], s[p[2]])]
           R == KeepAll(b, s)
<1>1. \E h : R = h[DOMAIN s] /\ h = CHOOSE g : g = Turn(g, DOMAIN s)
  BY Zenon DEF KeepAll, FoldLeft, MapThenFoldSet
<1>2. N \in Nat /\ DOMAIN s = 1..N /\ \A n \in 1..N : s[n] \in T
  OBVIOUS
<1> HIDE DEF R
<1>3. F \in [G \X (1..N) -> G]
  BY <1>2 DEF KeepClosed
<1>4. \A g \in G, n \in 1..N : F[<<g, n>>] = KeepMissing(g, s[n])
  BY <1>2
<1>5. PICK h \in [SUBSET (1..N) -> G] : IsFold(h, N, b, F)
  <2>1. N \in Nat /\ b \in G
    BY <1>2
  <2> HIDE DEF F, N
  <2> QED
    BY <1>3, <2>1, FoldExists
<1>6. ASSUME NEW t \in SUBSET (1..N)
      PROVE  h[t] = IF t = {} THEN b ELSE KeepMissing(h[t \ {Max(t)}], s[Max(t)])
  <2>1. ASSUME t # {} PROVE Max(t) \in 1..N /\ h[t \ {Max(t)}] \in G
    <3>1. t \in SUBSET (0..N)
      BY <1>2
    <3>2. Max(t) \in t
      BY <1>2, <2>1, <3>1, MaxIsIn
    <3> QED
      BY <3>2
  <2> HIDE DEF F, N
  <2> QED
    BY <1>4, <1>5, <2>1 DEF IsFold
<1>7. h = Turn(h, 1..N)
  BY <1>6, Zenon
<1>8. PICK g : R = g[DOMAIN s] /\ g = Turn(g, DOMAIN s)
  BY <1>1, <1>2, <1>7, Zenon
<1> DEFINE f == [n \in 0..N |-> g[1..n]]
<1>9. \A t \in SUBSET (1..N) :
        g[t] = IF t = {} THEN b ELSE KeepMissing(g[t \ {Max(t)}], s[Max(t)])
  BY <1>2, <1>8, Zenon
<1>10. f[0] = b
  <2>1. 0 \in 0..N /\ 1..0 = {} /\ 1..0 \in SUBSET (1..N)
    BY <1>2
  <2> QED
    BY <1>9, <2>1, Zenon
<1>11. ASSUME NEW n \in 1..N PROVE f[n] = KeepMissing(f[n - 1], s[n])
  <2>1. /\ n \in 0..N /\ n - 1 \in 0..N /\ 1..n \in SUBSET (1..N) /\ 1..n # {}
        /\ Max(1..n) = n /\ (1..n) \ {n} = 1..(n - 1)
    BY <1>2, Beginnings
  <2> QED
    BY <1>9, <2>1, Zenon
<1>12. f[N] = g[DOMAIN s]
  BY <1>2
<1> HIDE DEF f
<1> QED
  BY <1>8, <1>10, <1>11, <1>12 DEF KeepTurns, R

\* The turns of the loop over the addresses of an AVAILABLE packet.
UpdateAll(b, s, x) == FoldLeft(LAMBDA rows, ip : UpdateDevice(rows, ip, x), b, s)

UpdateTurns(f, b, s, x) ==
  f[0] = b /\ \A n \in 1..Len(s) : f[n] = UpdateDevice(f[n - 1], s[n], x)

UpdateClosed(G, T, x) == \A g \in G, e \in T : UpdateDevice(g, e, x) \in G

\* The loop ends with its last turn.
LEMMA UpdateLoop ==
  ASSUME NEW T, NEW s \in Seq(T), NEW G, NEW b \in G, NEW x, UpdateClosed(G, T, x)
  PROVE  \E f : UpdateTurns(f, b, s, x) /\ UpdateAll(b, s, x) = f[Len(s)]
<1> DEFINE N == Len(s)
           Turn(g, t) == [u \in SUBSET t |-> IF u = {} THEN b
                            ELSE UpdateDevice(g[u \ {Max(u)}], s[Max(u)], x)]
           F == [p \in G \X (1..N) |-> UpdateDevice(p[1], s[p[2]], x)]
           R == UpdateAll(b, s, x)
<1>1. \E h : R = h[DOMAIN s] /\ h = CHOOSE g : g = Turn(g, DOMAIN s)
  BY Zenon DEF UpdateAll, FoldLeft, MapThenFoldSet
<1>2. N \in Nat /\ DOMAIN s = 1..N /\ \A n \in 1..N : s[n] \in T
  OBVIOUS
<1> HIDE DEF R
<1>3. F \in [G \X (1..N) -> G]
  BY <1>2 DEF UpdateClosed
<1>4. \A g \in G, n \in 1..N : F[<<g, n>>] = UpdateDevice(g, s[n], x)
  BY <1>2
<1>5. PICK h \in [SUBSET (1..N) -> G] : IsFold(h, N, b, F)
  <2>1. N \in Nat /\ b \in G
    BY <1>2
  <2> HIDE DEF F, N
  <2> QED
    BY <1>3, <2>1, FoldExists
<1>6. ASSUME NEW t \in SUBSET (1..N)
      PROVE  h[t] = IF t = {} THEN b ELSE UpdateDevice(h[t \ {Max(t)}], s[Max(t)], x)
  <2>1. ASSUME t # {} PROVE Max(t) \in 1..N /\ h[t \ {Max(t)}] \in G
    <3>1. t \in SUBSET (0..N)
      BY <1>2
    <3>2. Max(t) \in t
      BY <1>2, <2>1, <3>1, MaxIsIn
    <3> QED
      BY <3>2
  <2> HIDE DEF F, N
  <2> QED
    BY <1>4, <1>5, <2>1 DEF IsFold
<1>7. h = Turn(h, 1..N)
  BY <1>6, Zenon
<1>8. PICK g : R = g[DOMAIN s] /\ g = Turn(g, DOMAIN s)
  BY <1>1, <1>2, <1>7, Zenon
<1> DEFINE f == [n \in 0..N |-> g[1..n]]
<1>9. \A t \in SUBSET (1..N) :
        g[t] = IF t = {} THEN b ELSE UpdateDevice(g[t \ {Max(t)}], s[Max(t)], x)
  BY <1>2, <1>8, Zenon
<1>10. f[0] = b
  <2>1. 0 \in 0..N /\ 1..0 = {} /\ 1..0 \in SUBSET (1..N)
    BY <1>2
  <2> QED
    BY <1>9, <2>1, Zenon
<1>11. ASSUME NEW n \in 1..N PROVE f[n] = UpdateDevice(f[n - 1], s[n], x)
  <2>1. /\ n \in 0..N /\ n - 1 \in 0..N /\ 1..n \in SUBSET (1..N) /\ 1..n # {}
        /\ Max(1..n) = n /\ (1..n) \ {n} = 1..(n - 1)
    BY <1>2, Beginnings
  <2> QED
    BY <1>9, <2>1, Zenon
<1>12. f[N] = g[DOMAIN s]
  BY <1>2
<1> HIDE DEF f
<1> QED
  BY <1>8, <1>10, <1>11, <1>12 DEF UpdateTurns, R

\* The turns of the loop of DeviceModel::onStoreUpdated.
ShowAll(b, s) == FoldLeft(ShowDevice, b, s)

ShowTurns(f, b, s) ==
  f[0] = b /\ \A n \in 1..Len(s) : f[n] = ShowDevice(f[n - 1], s[n])

ShowClosed(G, T) == \A g \in G, e \in T : ShowDevice(g, e) \in G

\* The loop ends with its last turn.
LEMMA ShowLoop ==
  ASSUME NEW T, NEW s \in Seq(T), NEW G, NEW b \in G, ShowClosed(G, T)
  PROVE  \E f : ShowTurns(f, b, s) /\ ShowAll(b, s) = f[Len(s)]
<1> DEFINE N == Len(s)
           Turn(g, t) == [u \in SUBSET t |-> IF u = {} THEN b
                            ELSE ShowDevice(g[u \ {Max(u)}], s[Max(u)])]
           F == [p \in G \X (1..N) |-> ShowDevice(p[1], s[p[2]])]
           R == ShowAll(b, s)
<1>1. \E h : R = h[DOMAIN s] /\ h = CHOOSE g : g = Turn(g, DOMAIN s)
  BY Zenon DEF ShowAll, FoldLeft, MapThenFoldSet
<1>2. N \in Nat /\ DOMAIN s = 1..N /\ \A n \in 1..N : s[n] \in T
  OBVIOUS
<1> HIDE DEF R
<1>3. F \in [G \X (1..N) -> G]
  BY <1>2 DEF ShowClosed
<1>4. \A g \in G, n \in 1..N : F[<<g, n>>] = ShowDevice(g, s[n])
  BY <1>2
<1>5. PICK h \in [SUBSET (1..N) -> G] : IsFold(h, N, b, F)
  <2>1. N \in Nat /\ b \in G
    BY <1>2
  <2> HIDE DEF F, N
  <2> QED
    BY <1>3, <2>1, FoldExists
<1>6. ASSUME NEW t \in SUBSET (1..N)
      PROVE  h[t] = IF t = {} THEN b ELSE ShowDevice(h[t \ {Max(t)}], s[Max(t)])
  <2>1. ASSUME t # {} PROVE Max(t) \in 1..N /\ h[t \ {Max(t)}] \in G
    <3>1. t \in SUBSET (0..N)
      BY <1>2
    <3>2. Max(t) \in t
      BY <1>2, <2>1, <3>1, MaxIsIn
    <3> QED
      BY <3>2
  <2> HIDE DEF F, N
  <2> QED
    BY <1>4, <1>5, <2>1 DEF IsFold
<1>7. h = Turn(h, 1..N)
  BY <1>6, Zenon
<1>8. PICK g : R = g[DOMAIN s] /\ g = Turn(g, DOMAIN s)
  BY <1>1, <1>2, <1>7, Zenon
<1> DEFINE f == [n \in 0..N |-> g[1..n]]
<1>9. \A t \in SUBSET (1..N) :
        g[t] = IF t = {} THEN b ELSE ShowDevice(g[t \ {Max(t)}], s[Max(t)])
  BY <1>2, <1>8, Zenon
<1>10. f[0] = b
  <2>1. 0 \in 0..N /\ 1..0 = {} /\ 1..0 \in SUBSET (1..N)
    BY <1>2
  <2> QED
    BY <1>9, <2>1, Zenon
<1>11. ASSUME NEW n \in 1..N PROVE f[n] = ShowDevice(f[n - 1], s[n])
  <2>1. /\ n \in 0..N /\ n - 1 \in 0..N /\ 1..n \in SUBSET (1..N) /\ 1..n # {}
        /\ Max(1..n) = n /\ (1..n) \ {n} = 1..(n - 1)
    BY <1>2, Beginnings
  <2> QED
    BY <1>9, <2>1, Zenon
<1>12. f[N] = g[DOMAIN s]
  BY <1>2
<1> HIDE DEF f
<1> QED
  BY <1>8, <1>10, <1>11, <1>12 DEF ShowTurns, R


\* The turns of the loop over the cameras of snapshot().
FindAll(b, s, x) == FoldLeft(LAMBDA found, item : FoundCamera(found, item, x), b, s)

FindTurns(f, b, s, x) ==
  f[0] = b /\ \A n \in 1..Len(s) : f[n] = FoundCamera(f[n - 1], s[n], x)

FindClosed(G, T, x) == \A g \in G, e \in T : FoundCamera(g, e, x) \in G

\* The loop ends with its last turn.
LEMMA FindLoop ==
  ASSUME NEW T, NEW s \in Seq(T), NEW G, NEW b \in G, NEW x, FindClosed(G, T, x)
  PROVE  \E f : FindTurns(f, b, s, x) /\ FindAll(b, s, x) = f[Len(s)]
<1> DEFINE N == Len(s)
           Turn(g, t) == [u \in SUBSET t |-> IF u = {} THEN b
                            ELSE FoundCamera(g[u \ {Max(u)}], s[Max(u)], x)]
           F == [p \in G \X (1..N) |-> FoundCamera(p[1], s[p[2]], x)]
           R == FindAll(b, s, x)
<1>1. \E h : R = h[DOMAIN s] /\ h = CHOOSE g : g = Turn(g, DOMAIN s)
  BY Zenon DEF FindAll, FoldLeft, MapThenFoldSet
<1>2. N \in Nat /\ DOMAIN s = 1..N /\ \A n \in 1..N : s[n] \in T
  OBVIOUS
<1> HIDE DEF R
<1>3. F \in [G \X (1..N) -> G]
  BY <1>2 DEF FindClosed
<1>4. \A g \in G, n \in 1..N : F[<<g, n>>] = FoundCamera(g, s[n], x)
  BY <1>2
<1>5. PICK h \in [SUBSET (1..N) -> G] : IsFold(h, N, b, F)
  <2>1. N \in Nat /\ b \in G
    BY <1>2
  <2> HIDE DEF F, N
  <2> QED
    BY <1>3, <2>1, FoldExists
<1>6. ASSUME NEW t \in SUBSET (1..N)
      PROVE  h[t] = IF t = {} THEN b ELSE FoundCamera(h[t \ {Max(t)}], s[Max(t)], x)
  <2>1. ASSUME t # {} PROVE Max(t) \in 1..N /\ h[t \ {Max(t)}] \in G
    <3>1. t \in SUBSET (0..N)
      BY <1>2
    <3>2. Max(t) \in t
      BY <1>2, <2>1, <3>1, MaxIsIn
    <3> QED
      BY <3>2
  <2> HIDE DEF F, N
  <2> QED
    BY <1>4, <1>5, <2>1 DEF IsFold
<1>7. h = Turn(h, 1..N)
  BY <1>6, Zenon
<1>8. PICK g : R = g[DOMAIN s] /\ g = Turn(g, DOMAIN s)
  BY <1>1, <1>2, <1>7, Zenon
<1> DEFINE f == [n \in 0..N |-> g[1..n]]
<1>9. \A t \in SUBSET (1..N) :
        g[t] = IF t = {} THEN b ELSE FoundCamera(g[t \ {Max(t)}], s[Max(t)], x)
  BY <1>2, <1>8, Zenon
<1>10. f[0] = b
  <2>1. 0 \in 0..N /\ 1..0 = {} /\ 1..0 \in SUBSET (1..N)
    BY <1>2
  <2> QED
    BY <1>9, <2>1, Zenon
<1>11. ASSUME NEW n \in 1..N PROVE f[n] = FoundCamera(f[n - 1], s[n], x)
  <2>1. /\ n \in 0..N /\ n - 1 \in 0..N /\ 1..n \in SUBSET (1..N) /\ 1..n # {}
        /\ Max(1..n) = n /\ (1..n) \ {n} = 1..(n - 1)
    BY <1>2, Beginnings
  <2> QED
    BY <1>9, <2>1, Zenon
<1>12. f[N] = g[DOMAIN s]
  BY <1>2
<1> HIDE DEF f
<1> QED
  BY <1>8, <1>10, <1>11, <1>12 DEF FindTurns, R

-------------------------------------------------------------------------------
(* What the operators of the stores and the models return *)

\* The id of an item is that of a camera, of the item's address.
LEMMA CameraIds ==
  ASSUME NEW i \in Items
  PROVE  CameraId(i) \in Cameras /\ i.ip \in Ips /\ i.online \in BOOLEAN
BY DataAssumption DEF Items, Cameras, CameraId

\* snapshot() filtered by an address is a list of cameras.
LEMMA MatchingType ==
  ASSUME data_ \in Seq(Items), NEW ip
  PROVE  Matching(ip) \in Seq(Cameras)
<1> DEFINE G == Seq(Cameras)
<1>1. FindClosed(G, Items, ip)
  BY CameraIds DEF FindClosed, FoundCamera
<1>2. PICK f : FindTurns(f, <<>>, data_, ip) /\ Matching(ip) = f[Len(data_)]
  <2>1. <<>> \in G
    OBVIOUS
  <2> HIDE DEF G
  <2>2. \E f : FindTurns(f, <<>>, data_, ip) /\ FindAll(<<>>, data_, ip) = f[Len(data_)]
    BY <1>1, <2>1, FindLoop
  <2>3. Matching(ip) = FindAll(<<>>, data_, ip)
    BY Zenon DEF Matching, FindAll
  <2> QED
    BY <2>2, <2>3
<1>3. Len(data_) \in Nat /\ \A n \in 1..Len(data_) : data_[n] \in Items
  OBVIOUS
<1>4. f[0] \in G /\ \A n \in 1..Len(data_) : f[n - 1] \in G => f[n] \in G
  <2>1. <<>> \in G
    OBVIOUS
  <2> HIDE DEF G
  <2> QED
    BY <1>1, <1>2, <1>3, <2>1 DEF FindTurns, FindClosed
<1> HIDE DEF G
<1>5. \A n \in 0..Len(data_) : f[n] \in G
  BY <1>3, <1>4, LoopInvariant
<1>6. f[Len(data_)] \in G
  BY <1>3, <1>5
<1> QED
  BY <1>2, <1>6 DEF G

\* The ids an image goes to are those of cameras, and there is one.
LEMMA MatchedType ==
  ASSUME data_ \in Seq(Items), NEW ip \in Ips
  PROVE  matchedIds(ip) \in Seq(Cameras) /\ Len(matchedIds(ip)) \in Nat \ {0}
<1> DEFINE M == Matching(ip)
<1>1. M \in Seq(Cameras) /\ <<ip, 0>> \in Cameras
  BY MatchingType, DataAssumption DEF Cameras
<1>2. matchedIds(ip) = IF M = <<>> THEN << <<ip, 0>> >> ELSE M
  BY DEF matchedIds
<1> HIDE DEF M
<1>3. M # <<>> => Len(M) \in Nat \ {0}
  BY <1>1
<1> QED
  BY <1>1, <1>2, <1>3

\* The rows of an address: numbers, and the least and the greatest are among them.
LEMMA RowFacts ==
  ASSUME NEW rows \in Snapshots, NEW ip
  PROVE  /\ Rows(rows, ip) \in SUBSET (1..Len(rows)) /\ Len(rows) \in Nat
         /\ \A i \in Rows(rows, ip) : rows[i].ip = ip /\ rows[i] \in Device
         /\ Rows(rows, ip) # {} =>
              /\ Min(Rows(rows, ip)) \in Rows(rows, ip)
              /\ \A i \in Rows(rows, ip) : Min(Rows(rows, ip)) <= i
              /\ Max(Rows(rows, ip)) \in Rows(rows, ip)
              /\ \A i \in Rows(rows, ip) : Max(Rows(rows, ip)) >= i
<1>1. /\ Rows(rows, ip) \in SUBSET (1..Len(rows)) /\ Len(rows) \in Nat
      /\ \A i \in Rows(rows, ip) : rows[i].ip = ip /\ rows[i] \in Device
  BY DEF Rows, Snapshots
<1>2. Rows(rows, ip) \in SUBSET Nat /\ Rows(rows, ip) \in SUBSET (0..Len(rows))
  BY <1>1
<1> QED
  BY <1>1, <1>2, MinFacts, MaxIsIn

\* What is known of a device is a device of its address.
LEMMA KnownType ==
  ASSUME devices_ \in Snapshots, NEW ip \in Ips
  PROVE  Known(ip) \in Device /\ Known(ip).ip = ip
<1>1. <<>> \in History(MAX_HISTORY)
  <2>1. MAX_HISTORY \in Nat /\ 0 <= MAX_HISTORY
    BY DataAssumption
  <2>2. <<>> \in Seq(Numbers \ {0}) /\ Len(<<>>) = 0
    OBVIOUS
  <2> QED
    BY <2>1, <2>2, Bounded DEF History
<1>2. NewDevice(ip) \in Device /\ NewDevice(ip).ip = ip
  BY <1>1, DataAssumption DEF NewDevice, Device, Numbers
<1>3. CASE Rows(devices_, ip) = {}
  BY <1>2, <1>3 DEF Known
<1>4. CASE Rows(devices_, ip) # {}
  BY <1>4, RowFacts DEF Known, findIndexByIp
<1> QED
  BY <1>3, <1>4

\* A new reading of a device.
LEMMA SnapshotType ==
  ASSUME NEW d \in Device, NEW n \in Nums
  PROVE  /\ AddSnapshot(d, n) \in Device /\ AddSnapshot(d, n).ip = d.ip
         /\ AddSnapshot(d, n).cpu = n /\ Last(AddSnapshot(d, n).history) = n
<1> DEFINE h == Appended(d.history, n, MAX_HISTORY)
<1>1. d.history \in History(MAX_HISTORY) /\ MAX_HISTORY \in Nat \ {0}
  BY DataAssumption DEF Device
<1>2. h \in History(MAX_HISTORY) /\ Last(h) = n
  BY <1>1, AppendedFacts DEF History, Nums
<1>3. AddSnapshot(d, n) = [d EXCEPT !.cpu = n, !.history = h]
  BY DEF AddSnapshot
<1> HIDE DEF h
<1> QED
  BY <1>2, <1>3 DEF Device, Nums

\* A row for every item of a list.
LEMMA ListedType ==
  ASSUME devices_ \in Snapshots, NEW list \in Seq(Items)
  PROVE  /\ ListedRows(list) \in Snapshots /\ Len(ListedRows(list)) = Len(list)
         /\ \A i \in 1..Len(list) :
              LET d == ListedRows(list)[i] IN
              /\ d.ip = list[i].ip /\ list[i].ip \in Ips
              /\ d.cpu = Known(list[i].ip).cpu /\ d.history = Known(list[i].ip).history
              /\ d.isOnline = list[i].online /\ d.cameraId = CameraId(list[i])
<1> DEFINE Row(i) == [Known(list[i].ip) EXCEPT !.cameraId = CameraId(list[i]),
                                               !.isOnline = list[i].online]
<1>1. Len(list) \in Nat /\ DOMAIN list = 1..Len(list) /\ \A i \in 1..Len(list) : list[i] \in Items
  OBVIOUS
<1>2. ASSUME NEW i \in 1..Len(list)
      PROVE  /\ Row(i) \in Device /\ Row(i).ip = list[i].ip /\ list[i].ip \in Ips
             /\ Row(i).cpu = Known(list[i].ip).cpu /\ Row(i).history = Known(list[i].ip).history
             /\ Row(i).isOnline = list[i].online /\ Row(i).cameraId = CameraId(list[i])
  <2>1. list[i].ip \in Ips /\ CameraId(list[i]) \in Cameras /\ list[i].online \in BOOLEAN
    BY <1>1, CameraIds
  <2>2. Known(list[i].ip) \in Device /\ Known(list[i].ip).ip = list[i].ip
    BY <2>1, KnownType
  <2> QED
    BY <2>1, <2>2 DEF Device
<1>3. ListedRows(list) = [i \in 1..Len(list) |-> Row(i)]
  BY <1>1 DEF ListedRows
<1> HIDE DEF Row
<1>4. ListedRows(list) \in [1..Len(list) -> Device]
  BY <1>2, <1>3
<1>5. ListedRows(list) \in Snapshots /\ Len(ListedRows(list)) = Len(list)
  BY <1>1, <1>4 DEF Snapshots
<1> QED
  BY <1>2, <1>3, <1>5

\* The turns of updateFromCameraJson end with its result.
LEMMA MergeTurns ==
  ASSUME devices_ \in Snapshots, NEW list \in Seq(Items)
  PROVE  \E f : /\ KeepTurns(f, ListedRows(list), devices_)
                /\ CameraMerge(list) = f[Len(devices_)]
                /\ \A n \in 0..Len(devices_) : f[n] \in Snapshots
<1>1. KeepClosed(Snapshots, Device)
  <2>1. \A d \in Device : [d EXCEPT !.isOnline = FALSE] \in Device
    BY DEF Device
  <2>2. ASSUME NEW g \in Seq(Device), NEW e \in Device PROVE KeepMissing(g, e) \in Seq(Device)
    <3>1. [e EXCEPT !.isOnline = FALSE] \in Device
      BY <2>1
    <3>2. Append(g, [e EXCEPT !.isOnline = FALSE]) \in Seq(Device)
      BY <3>1
    <3> QED
      BY <3>2, Zenon DEF KeepMissing
  <2> QED
    BY <2>2 DEF KeepClosed, Snapshots
<1>2. devices_ \in Seq(Device) /\ ListedRows(list) \in Snapshots
  BY ListedType DEF Snapshots
<1>3. \E f : KeepTurns(f, ListedRows(list), devices_)
             /\ KeepAll(ListedRows(list), devices_) = f[Len(devices_)]
  BY <1>1, <1>2, KeepLoop
<1>4. CameraMerge(list) = KeepAll(ListedRows(list), devices_)
  BY Zenon DEF CameraMerge, KeepAll
<1>5. PICK f : KeepTurns(f, ListedRows(list), devices_) /\ CameraMerge(list) = f[Len(devices_)]
  BY <1>3, <1>4
<1>6. Len(devices_) \in Nat /\ \A n \in 1..Len(devices_) : devices_[n] \in Device
  BY <1>2
<1>7. f[0] \in Snapshots /\ \A n \in 1..Len(devices_) : f[n - 1] \in Snapshots => f[n] \in Snapshots
  BY <1>1, <1>2, <1>5, <1>6 DEF KeepTurns, KeepClosed
<1>8. \A n \in 0..Len(devices_) : f[n] \in Snapshots
  BY <1>6, <1>7, LoopInvariant
<1> QED
  BY <1>5, <1>8

\* An AVAILABLE packet's data for one address: the address has a row, which is its
\* first, with the data; the first rows of the other addresses stay what they were.
LEMMA UpdateFacts ==
  ASSUME NEW rows \in Snapshots, NEW ip \in Ips, NEW n \in Nums
  PROVE  LET new == UpdateDevice(rows, ip, n) IN
         /\ new \in Snapshots
         /\ Rows(new, ip) # {} /\ (Rows(rows, ip) # {} => Rows(new, ip) = Rows(rows, ip))
         /\ new[Min(Rows(new, ip))].cpu = n /\ Last(new[Min(Rows(new, ip))].history) = n
         /\ \A o \in Ips \ {ip} : Rows(new, o) = Rows(rows, o) /\ \A i \in Rows(rows, o) : new[i] = rows[i]
<1> DEFINE new == UpdateDevice(rows, ip, n)
           m == Min(Rows(rows, ip))
           e == AddSnapshot(NewDevice(ip), n)
           u == AddSnapshot(rows[m], n)
           N == Len(rows)
<1>1. rows \in Seq(Device) /\ N \in Nat /\ DOMAIN rows = 1..N
  BY DEF Snapshots
<1>2. CASE Rows(rows, ip) = {}
  <2>1. NewDevice(ip) \in Device /\ NewDevice(ip).ip = ip
    <3>1. MAX_HISTORY \in Nat /\ 0 <= MAX_HISTORY
      BY DataAssumption
    <3>2. <<>> \in Seq(Numbers \ {0}) /\ Len(<<>>) = 0
      OBVIOUS
    <3>3. <<>> \in History(MAX_HISTORY)
      BY <3>1, <3>2, Bounded DEF History
    <3> QED
      BY <3>3, DataAssumption DEF NewDevice, Device, Numbers
  <2>2. e \in Device /\ e.ip = ip /\ e.cpu = n /\ Last(e.history) = n
    BY <2>1, SnapshotType
  <2>3. new = Append(rows, e)
    BY <1>2 DEF UpdateDevice
  <2> HIDE DEF new, e, N
  <2>4. /\ new \in Seq(Device) /\ DOMAIN new = 1..(N + 1) /\ new[N + 1] = e
        /\ \A i \in 1..N : new[i] = rows[i]
    BY <1>1, <2>2, <2>3 DEF N
  <2>5. Rows(new, ip) = {N + 1}
    <3>1. \A i \in 1..N : rows[i].ip # ip
      BY <1>1, <1>2 DEF Rows
    <3>2. \A i \in 1..(N + 1) : i \in 1..N \/ i = N + 1
      BY <1>1
    <3> QED
      BY <1>1, <2>2, <2>4, <3>1, <3>2 DEF Rows
  <2>6. Min(Rows(new, ip)) = N + 1
    <3>1. Rows(new, ip) \in SUBSET Nat /\ Rows(new, ip) # {}
      BY <1>1, <2>5
    <3> QED
      BY <2>5, <3>1, MinFacts
  <2>7. ASSUME NEW o \in Ips \ {ip}
        PROVE  Rows(new, o) = Rows(rows, o) /\ \A i \in Rows(rows, o) : new[i] = rows[i]
    <3>1. \A i \in 1..(N + 1) : i \in 1..N \/ i = N + 1
      BY <1>1
    <3>2. 1..N \subseteq 1..(N + 1)
      BY <1>1
    <3> QED
      BY <1>1, <2>2, <2>4, <3>1, <3>2 DEF Rows
  <2> QED
    BY <1>2, <2>2, <2>4, <2>5, <2>6, <2>7 DEF new, Snapshots
<1>3. CASE Rows(rows, ip) # {}
  <2>1. m \in Rows(rows, ip) /\ rows[m] \in Device /\ rows[m].ip = ip /\ m \in 1..N
    BY <1>3, RowFacts
  <2>2. u \in Device /\ u.ip = ip /\ u.cpu = n /\ Last(u.history) = n
    BY <2>1, SnapshotType
  <2>3. new = [rows EXCEPT ![m] = u]
    BY <1>3 DEF UpdateDevice
  <2> HIDE DEF new, u, N, m
  <2>4. /\ new \in Seq(Device) /\ DOMAIN new = 1..N /\ new[m] = u
        /\ \A i \in 1..N : i # m => new[i] = rows[i]
    BY <1>1, <2>1, <2>2, <2>3 DEF N
  <2>5. \A o \in Ips : Rows(new, o) = Rows(rows, o)
    BY <1>1, <2>1, <2>2, <2>4 DEF Rows
  <2>6. Min(Rows(new, ip)) = m
    BY <2>5 DEF m
  <2>7. ASSUME NEW o \in Ips \ {ip}, NEW i \in Rows(rows, o) PROVE new[i] = rows[i]
    BY <1>1, <2>1, <2>4 DEF Rows
  <2> QED
    BY <1>3, <2>2, <2>4, <2>5, <2>6, <2>7 DEF new, Snapshots
<1> QED
  BY <1>2, <1>3

-------------------------------------------------------------------------------
(* What the merges keep *)

\* The first row of an address has the data of packet k and ends its history with it.
Carries(rows, ip, k) ==
  /\ Rows(rows, ip) # {}
  /\ rows[Min(Rows(rows, ip))].cpu = k /\ Last(rows[Min(Rows(rows, ip))].history) = k

\* What the rows merged so far have to do with those of before: each has what is known
\* of its address, and none of the first m rows of before is without one.
Merged(rows, m) ==
  /\ \A i \in DOMAIN rows : /\ rows[i].cpu = Known(rows[i].ip).cpu
                            /\ rows[i].history = Known(rows[i].ip).history
  /\ \A n \in 1..m : Rows(rows, devices_[n].ip) # {}

\* The device that updateFromCameraJson comes to next, when it has no row yet, is the
\* first of its address.
LEMMA MergedTurn ==
  ASSUME devices_ \in Snapshots, NEW rows \in Snapshots, NEW n \in 1..Len(devices_),
         Merged(rows, n - 1)
  PROVE  Merged(KeepMissing(rows, devices_[n]), n)
<1> DEFINE old == devices_[n]
           e == [old EXCEPT !.isOnline = FALSE]
           new == KeepMissing(rows, old)
           N == Len(rows)
<1>1. /\ rows \in Seq(Device) /\ N \in Nat /\ DOMAIN rows = 1..N
      /\ Len(devices_) \in Nat /\ DOMAIN devices_ = 1..Len(devices_) /\ old \in Device
  BY DEF Snapshots
<1>2. \A k \in 1..n : k \in 1..(n - 1) \/ k = n
  BY <1>1
<1>3. CASE Rows(rows, old.ip) # {}
  <2>1. new = rows
    BY <1>3 DEF KeepMissing
  <2> QED
    BY <1>2, <1>3, <2>1 DEF Merged
<1>4. CASE Rows(rows, old.ip) = {}
  <2>1. new = Append(rows, e)
    BY <1>4, Zenon DEF KeepMissing
  <2>2. e \in Device /\ e.ip = old.ip /\ e.cpu = old.cpu /\ e.history = old.history
    BY <1>1 DEF Device
  <2>3. \A k \in 1..(n - 1) : devices_[k].ip # old.ip
    BY <1>4 DEF Merged
  <2>4. n \in Rows(devices_, old.ip) /\ \A k \in Rows(devices_, old.ip) : k \in Nat /\ ~(k < n)
    BY <1>1, <2>3 DEF Rows
  <2>5. Min(Rows(devices_, old.ip)) = n
    <3> DEFINE S == Rows(devices_, old.ip)
               m == Min(S)
    <3>1. S \in SUBSET Nat /\ S # {}
      BY <2>4
    <3>2. m \in S /\ \A y \in S : m <= y
      BY <3>1, MinFacts
    <3>3. m <= n /\ ~(m < n) /\ m \in Nat /\ n \in Nat
      BY <2>4, <3>2
    <3> HIDE DEF m, S
    <3>4. m = n
      BY <3>3
    <3> QED
      BY <3>4 DEF m, S
  <2>6. Known(old.ip) = old
    BY <2>4, <2>5 DEF Known, findIndexByIp
  <2> HIDE DEF new, e, N, old
  <2>7. /\ DOMAIN new = 1..(N + 1) /\ new[N + 1] = e
        /\ \A i \in 1..N : new[i] = rows[i]
    BY <1>1, <2>1, <2>2 DEF N
  <2>8. \A i \in 1..(N + 1) : i \in 1..N \/ i = N + 1
    BY <1>1
  <2>9. ASSUME NEW i \in DOMAIN new
        PROVE  new[i].cpu = Known(new[i].ip).cpu /\ new[i].history = Known(new[i].ip).history
    <3>1. CASE i \in 1..N
      BY <1>1, <2>7, <3>1 DEF Merged
    <3>2. CASE i = N + 1
      BY <2>2, <2>6, <2>7, <3>2
    <3> QED
      BY <2>7, <2>8, <3>1, <3>2
  <2>10. ASSUME NEW k \in 1..n PROVE Rows(new, devices_[k].ip) # {}
    <3>1. CASE k \in 1..(n - 1)
      <4>1. PICK i \in 1..N : rows[i].ip = devices_[k].ip
        BY <1>1, <3>1 DEF Merged, Rows
      <4>2. i \in 1..(N + 1) /\ new[i].ip = devices_[k].ip
        BY <1>1, <2>7, <4>1
      <4> QED
        BY <2>7, <4>2 DEF Rows
    <3>2. CASE k = n
      <4>1. N + 1 \in DOMAIN new /\ new[N + 1].ip = devices_[k].ip
        BY <1>1, <2>2, <2>7, <3>2 DEF old
      <4> QED
        BY <4>1 DEF Rows
    <3> QED
      BY <1>2, <3>1, <3>2
  <2> QED
    BY <2>9, <2>10 DEF Merged, new, old
<1> QED
  BY <1>3, <1>4

\* "Keep dynamic AVAILABLE info": a camera list leaves the data of every address alone,
\* and no address loses its rows.
LEMMA CameraMergeFacts ==
  ASSUME devices_ \in Snapshots, NEW list \in Seq(Items)
  PROVE  /\ CameraMerge(list) \in Snapshots
         /\ \A ip \in Ips, k \in Nums : Carries(devices_, ip, k) => Carries(CameraMerge(list), ip, k)
         /\ \A ip \in Ips : Rows(devices_, ip) # {} => Rows(CameraMerge(list), ip) # {}
<1> DEFINE N == Len(devices_)
<1>1. PICK f : /\ KeepTurns(f, ListedRows(list), devices_)
               /\ CameraMerge(list) = f[N]
               /\ \A n \in 0..N : f[n] \in Snapshots
  BY MergeTurns
<1>2. N \in Nat /\ DOMAIN devices_ = 1..N /\ \A n \in 1..N : n - 1 \in 0..N
  BY DEF Snapshots
<1> DEFINE P == {n \in 0..N : Merged(f[n], n)}
<1>3. 0 \in P
  <2>1. f[0] = ListedRows(list) /\ 0 \in 0..N /\ 1..0 = {}
    BY <1>1, <1>2 DEF KeepTurns
  <2>2. DOMAIN ListedRows(list) = 1..Len(list)
    BY ListedType DEF Snapshots
  <2>3. Merged(ListedRows(list), 0)
    BY <2>1, <2>2, ListedType DEF Merged
  <2> QED
    BY <2>1, <2>3
<1>4. ASSUME NEW n \in 0..(N - 1), n \in P PROVE n + 1 \in P
  <2>1. n + 1 \in 1..N /\ (n + 1) - 1 = n /\ n + 1 \in 0..N /\ n \in 0..N
    BY <1>2
  <2>2. f[n + 1] = KeepMissing(f[n], devices_[n + 1]) /\ f[n] \in Snapshots /\ Merged(f[n], n)
    BY <1>1, <1>4, <2>1 DEF KeepTurns
  <2>3. Merged(f[n + 1], n + 1)
    BY <2>1, <2>2, MergedTurn
  <2> QED
    BY <2>1, <2>3
<1> HIDE DEF P
<1>5. N \in P
  <2>1. \A n \in 0..N : n \in P
    BY <1>2, <1>3, <1>4, SetInduction
  <2> QED
    BY <1>2, <2>1
<1> DEFINE new == f[N]
<1>6. Merged(new, N) /\ new \in Snapshots
  BY <1>1, <1>2, <1>5 DEF P
<1> HIDE DEF new
<1>7. ASSUME NEW ip \in Ips, NEW k \in Nums, Carries(devices_, ip, k)
      PROVE  Carries(new, ip, k)
  <2> DEFINE m == Min(Rows(devices_, ip))
             i == Min(Rows(new, ip))
  <2>1. m \in Rows(devices_, ip) /\ devices_[m].ip = ip /\ m \in 1..N
    BY <1>7, RowFacts DEF Carries
  <2>2. Known(ip) = devices_[m] /\ Known(ip).cpu = k /\ Last(Known(ip).history) = k
    BY <1>7 DEF Carries, Known, findIndexByIp
  <2>3. Rows(new, ip) # {}
    BY <1>6, <2>1 DEF Merged
  <2>4. i \in Rows(new, ip) /\ new[i].ip = ip
    BY <1>6, <2>3, RowFacts
  <2>5. i \in DOMAIN new
    BY <2>4 DEF Rows
  <2>6. new[i].cpu = Known(ip).cpu /\ new[i].history = Known(ip).history
    BY <1>6, <2>4, <2>5 DEF Merged
  <2> QED
    BY <2>2, <2>3, <2>6 DEF Carries
<1>8. ASSUME NEW ip \in Ips, Rows(devices_, ip) # {} PROVE Rows(new, ip) # {}
  <2>1. PICK m \in 1..N : devices_[m].ip = ip
    BY <1>2, <1>8 DEF Rows
  <2> QED
    BY <1>6, <2>1 DEF Merged
<1> QED
  BY <1>1, <1>6, <1>7, <1>8 DEF new

\* After the first m addresses of an AVAILABLE packet: they have its data, the others
\* have what they had, and no address that had rows has other ones.
Updated(rows, ips, m, n) ==
  /\ \A i \in 1..m : Carries(rows, ips[i], n)
  /\ \A ip \in Ips, k \in Nums :
       (\A i \in 1..m : ips[i] # ip) /\ Carries(devices_, ip, k) => Carries(rows, ip, k)
  /\ \A ip \in Ips : Rows(devices_, ip) # {} => Rows(rows, ip) = Rows(devices_, ip)

\* The data for the next address.
LEMMA UpdatedTurn ==
  ASSUME NEW ips \in Seq(Ips), NEW n \in Nums, NEW rows \in Snapshots, NEW m \in 1..Len(ips),
         Updated(rows, ips, m - 1, n)
  PROVE  Updated(UpdateDevice(rows, ips[m], n), ips, m, n)
<1> DEFINE new == UpdateDevice(rows, ips[m], n)
<1>1. ips[m] \in Ips /\ Len(ips) \in Nat /\ DOMAIN ips = 1..Len(ips)
  OBVIOUS
<1>2. /\ Rows(new, ips[m]) # {} /\ (Rows(rows, ips[m]) # {} => Rows(new, ips[m]) = Rows(rows, ips[m]))
      /\ new[Min(Rows(new, ips[m]))].cpu = n /\ Last(new[Min(Rows(new, ips[m]))].history) = n
      /\ \A o \in Ips \ {ips[m]} :
           Rows(new, o) = Rows(rows, o) /\ \A i \in Rows(rows, o) : new[i] = rows[i]
  BY <1>1, UpdateFacts
<1> HIDE DEF new
<1>3. Carries(new, ips[m], n)
  BY <1>2 DEF Carries
<1>4. ASSUME NEW o \in Ips \ {ips[m]}, NEW k \in Nums, Carries(rows, o, k) PROVE Carries(new, o, k)
  <2>1. Min(Rows(rows, o)) \in Rows(rows, o)
    BY <1>4, RowFacts DEF Carries
  <2> QED
    BY <1>2, <1>4, <2>1 DEF Carries
<1>5. \A i \in 1..m : i \in 1..(m - 1) \/ i = m
  BY <1>1
<1>6. ASSUME NEW i \in 1..m PROVE Carries(new, ips[i], n)
  <2>1. CASE ips[i] = ips[m]
    BY <1>3, <2>1
  <2>2. CASE ips[i] # ips[m]
    <3>1. i \in 1..(m - 1) /\ ips[i] \in Ips
      BY <1>1, <1>5, <2>2
    <3>2. Carries(rows, ips[i], n)
      BY <3>1 DEF Updated
    <3> QED
      BY <1>4, <2>2, <3>1, <3>2
  <2> QED
    BY <2>1, <2>2
<1>7. ASSUME NEW ip \in Ips, NEW k \in Nums, \A i \in 1..m : ips[i] # ip, Carries(devices_, ip, k)
      PROVE  Carries(new, ip, k)
  <2>1. m \in 1..m /\ 1..(m - 1) \subseteq 1..m
    BY <1>1
  <2>2. Carries(rows, ip, k)
    BY <1>7, <2>1 DEF Updated
  <2> QED
    BY <1>4, <1>7, <2>1, <2>2
<1>8. ASSUME NEW ip \in Ips, Rows(devices_, ip) # {} PROVE Rows(new, ip) = Rows(devices_, ip)
  <2>1. Rows(rows, ip) = Rows(devices_, ip)
    BY <1>8 DEF Updated
  <2> QED
    BY <1>2, <1>8, <2>1
<1> QED
  BY <1>6, <1>7, <1>8 DEF Updated, new

\* The addresses of an AVAILABLE packet get its data, the others keep theirs.
LEMMA AvailableMergeFacts ==
  ASSUME devices_ \in Snapshots, NEW ips \in Seq(Ips), NEW n \in Nums
  PROVE  /\ AvailableMerge(ips, n) \in Snapshots
         /\ Updated(AvailableMerge(ips, n), ips, Len(ips), n)
<1> DEFINE N == Len(ips)
<1>1. UpdateClosed(Snapshots, Ips, n)
  BY UpdateFacts DEF UpdateClosed
<1>2. \E f : UpdateTurns(f, devices_, ips, n) /\ UpdateAll(devices_, ips, n) = f[N]
  BY <1>1, UpdateLoop
<1>3. AvailableMerge(ips, n) = UpdateAll(devices_, ips, n)
  BY Zenon DEF AvailableMerge, UpdateAll
<1>4. PICK f : UpdateTurns(f, devices_, ips, n) /\ AvailableMerge(ips, n) = f[N]
  BY <1>2, <1>3
<1>5. N \in Nat /\ \A m \in 1..N : ips[m] \in Ips
  OBVIOUS
<1> DEFINE P == {m \in 0..N : f[m] \in Snapshots /\ Updated(f[m], ips, m, n)}
<1>6. 0 \in P
  <2>1. f[0] = devices_ /\ 0 \in 0..N /\ 1..0 = {}
    BY <1>4, <1>5 DEF UpdateTurns
  <2>2. Updated(devices_, ips, 0, n)
    BY <2>1 DEF Updated
  <2> QED
    BY <2>1, <2>2
<1>7. ASSUME NEW m \in 0..(N - 1), m \in P PROVE m + 1 \in P
  <2>1. m + 1 \in 1..N /\ (m + 1) - 1 = m /\ m + 1 \in 0..N
    BY <1>5
  <2>2. f[m + 1] = UpdateDevice(f[m], ips[m + 1], n) /\ f[m] \in Snapshots /\ Updated(f[m], ips, m, n)
    BY <1>4, <1>7, <2>1 DEF UpdateTurns
  <2>3. Updated(f[m + 1], ips, m + 1, n)
    BY <2>1, <2>2, UpdatedTurn
  <2>4. f[m + 1] \in Snapshots
    BY <1>1, <1>5, <2>1, <2>2 DEF UpdateClosed
  <2> QED
    BY <2>1, <2>3, <2>4
<1> HIDE DEF P
<1>8. N \in P
  <2>1. \A m \in 0..N : m \in P
    BY <1>5, <1>6, <1>7, SetInduction
  <2> QED
    BY <1>5, <2>1
<1> QED
  BY <1>4, <1>8 DEF P

-------------------------------------------------------------------------------
(* What DeviceModel shows *)

\* DeviceModel adds rows at the end and never changes the address of a row.
Aligned(rows) ==
  /\ rows \in Snapshots /\ Len(deviceRows) <= Len(rows)
  /\ \A i \in 1..Len(deviceRows) : rows[i].ip = deviceRows[i].ip

\* One device of a snapshot: its address has a row of before that gets the device, or
\* there is a new row; the rows of other addresses stay.
LEMMA ShowFacts ==
  ASSUME deviceRows \in Snapshots, NEW rows, Aligned(rows), NEW d \in Device
  PROVE  LET new == ShowDevice(rows, d)
             old == Rows(deviceRows, d.ip)
         IN  /\ Aligned(new)
             /\ \A o \in Ips \ {d.ip} : Rows(new, o) = Rows(rows, o) /\ \A i \in Rows(rows, o) : new[i] = rows[i]
             /\ old # {} => Rows(new, d.ip) = Rows(rows, d.ip) /\ new[Max(old)] = d
             /\ old = {} => /\ Rows(new, d.ip) = Rows(rows, d.ip) \cup {Len(rows) + 1}
                            /\ Len(rows) + 1 \in DOMAIN new /\ new[Len(rows) + 1] = d
<1> DEFINE new == ShowDevice(rows, d)
           old == Rows(deviceRows, d.ip)
           m == Max(old)
           N == Len(rows)
           D == Len(deviceRows)
<1>1. /\ rows \in Seq(Device) /\ N \in Nat /\ DOMAIN rows = 1..N
      /\ D \in Nat /\ DOMAIN deviceRows = 1..D /\ D <= N
      /\ \A i \in 1..D : rows[i].ip = deviceRows[i].ip
  BY DEF Snapshots, Aligned
<1>2. CASE old = {}
  <2>1. new = Append(rows, d)
    BY <1>2 DEF ShowDevice
  <2> HIDE DEF new, N, D
  <2>2. /\ new \in Seq(Device) /\ Len(new) = N + 1 /\ DOMAIN new = 1..(N + 1) /\ new[N + 1] = d
        /\ \A i \in 1..N : new[i] = rows[i]
    BY <1>1, <2>1 DEF N
  <2>3. /\ \A i \in 1..(N + 1) : i \in 1..N \/ i = N + 1
        /\ 1..N \subseteq 1..(N + 1) /\ 1..D \subseteq 1..N /\ D <= N + 1 /\ N + 1 \in 1..(N + 1)
    BY <1>1
  <2>4. Aligned(new)
    BY <1>1, <2>2, <2>3 DEF Aligned, Snapshots, D
  <2>5. \A o \in Ips \ {d.ip} : Rows(new, o) = Rows(rows, o) /\ \A i \in Rows(rows, o) : new[i] = rows[i]
    BY <1>1, <2>2, <2>3 DEF Rows
  <2>6. Rows(new, d.ip) = Rows(rows, d.ip) \cup {N + 1}
    BY <1>1, <2>2, <2>3 DEF Rows
  <2> QED
    BY <1>2, <2>2, <2>3, <2>4, <2>5, <2>6 DEF new, N
<1>3. CASE old # {}
  <2>1. m \in old /\ m \in 1..D /\ deviceRows[m].ip = d.ip
    BY <1>3, RowFacts
  <2>2. new = [rows EXCEPT ![m] = d]
    BY <1>3 DEF ShowDevice, byIp_
  <2>3. m \in 1..N /\ rows[m].ip = d.ip
    BY <1>1, <2>1
  <2> HIDE DEF new, N, D, m
  <2>4. /\ new \in Seq(Device) /\ Len(new) = N /\ DOMAIN new = 1..N /\ new[m] = d
        /\ \A i \in 1..N : i # m => new[i] = rows[i]
    BY <1>1, <2>2, <2>3 DEF N
  <2>5. \A i \in 1..N : new[i].ip = rows[i].ip
    BY <2>3, <2>4
  <2>6. \A o : Rows(new, o) = Rows(rows, o)
    BY <1>1, <2>4, <2>5 DEF Rows
  <2>7. 1..D \subseteq 1..N
    BY <1>1
  <2>8. Aligned(new)
    BY <1>1, <2>4, <2>5, <2>7 DEF Aligned, Snapshots, D
  <2>9. ASSUME NEW o \in Ips \ {d.ip}, NEW i \in Rows(rows, o) PROVE new[i] = rows[i]
    BY <1>1, <2>3, <2>4 DEF Rows
  <2> QED
    BY <1>3, <2>4, <2>6, <2>8, <2>9 DEF new, m
<1> QED
  BY <1>2, <1>3

\* Row k is the last of its address among the first m rows.
LastRow(s, ip, k, m) == k \in 1..m /\ s[k].ip = ip /\ \A j \in 1..m : s[j].ip = ip => j <= k

\* DeviceModel's rows of an address after the first m devices of a snapshot: its old rows
\* are still its rows, and the one that is looked up has the last device of the address
\* that has come; without old rows it gets new ones.
Showing(rows, s, ip, m) ==
  LET old == Rows(deviceRows, ip)
  IN  /\ old # {} => Rows(rows, ip) = old
      /\ (\A j \in 1..m : s[j].ip # ip) => Rows(rows, ip) = old
      /\ \A k \in 1..m : LastRow(s, ip, k, m) =>
           Rows(rows, ip) # {} /\ rows[Max(Rows(rows, ip))] = s[k]

\* The next device of the snapshot.
LEMMA ShowingTurn ==
  ASSUME deviceRows \in Snapshots, NEW s \in Snapshots, NEW rows, Aligned(rows),
         NEW ip \in Ips, NEW m \in 1..Len(s), Showing(rows, s, ip, m - 1)
  PROVE  Showing(ShowDevice(rows, s[m]), s, ip, m)
<1> DEFINE new == ShowDevice(rows, s[m])
           old == Rows(deviceRows, ip)
           d == s[m]
<1>1. Len(s) \in Nat /\ DOMAIN s = 1..Len(s) /\ d \in Device /\ d.ip \in Ips
  <2>1. Len(s) \in Nat /\ DOMAIN s = 1..Len(s) /\ d \in Device
    BY DEF Snapshots
  <2>2. \A x \in Device : x.ip \in Ips
    BY DEF Device
  <2> QED
    BY <2>1, <2>2
<1>2. /\ Aligned(new)
      /\ \A o \in Ips \ {d.ip} : Rows(new, o) = Rows(rows, o) /\ \A i \in Rows(rows, o) : new[i] = rows[i]
      /\ Rows(deviceRows, d.ip) # {} => Rows(new, d.ip) = Rows(rows, d.ip) /\ new[Max(Rows(deviceRows, d.ip))] = d
      /\ Rows(deviceRows, d.ip) = {} => /\ Rows(new, d.ip) = Rows(rows, d.ip) \cup {Len(rows) + 1}
                     /\ Len(rows) + 1 \in DOMAIN new /\ new[Len(rows) + 1] = d
  BY <1>1, ShowFacts
<1>3. /\ m \in Nat /\ m \in 1..m /\ 1..(m - 1) \subseteq 1..m
      /\ \A k \in 1..m : (k = m \/ k \in 1..(m - 1)) /\ (m <= k => k = m)
  BY <1>1
<1> HIDE DEF new
<1>4. CASE d.ip = ip
  <2>1. ASSUME NEW k \in 1..m, LastRow(s, ip, k, m) PROVE k = m
    BY <1>3, <1>4, <2>1 DEF LastRow
  <2>2. CASE old # {}
    <3>1. Rows(new, ip) = old /\ new[Max(old)] = d
      BY <1>2, <1>4, <2>2 DEF Showing
    <3> QED
      BY <1>3, <1>4, <2>1, <2>2, <3>1 DEF Showing, new
  <2>3. CASE old = {}
    <3> DEFINE N == Len(rows)
    <3>1. Rows(new, ip) = Rows(rows, ip) \cup {N + 1} /\ new[N + 1] = d
      BY <1>2, <1>4, <2>3
    <3>2. Rows(rows, ip) \in SUBSET (1..N) /\ N \in Nat
      BY RowFacts DEF Aligned
    <3>3. Rows(new, ip) \in SUBSET (0..(N + 1)) /\ N + 1 \in Rows(new, ip) /\ N + 1 \in Nat
      BY <3>1, <3>2
    <3> HIDE DEF N
    <3>4. Max(Rows(new, ip)) = N + 1
      BY <3>3, MaxFacts
    <3> QED
      BY <1>3, <1>4, <2>1, <2>3, <3>1, <3>3, <3>4 DEF Showing, new
  <2> QED
    BY <2>2, <2>3
<1>5. CASE d.ip # ip
  <2>1. Rows(new, ip) = Rows(rows, ip) /\ \A i \in Rows(rows, ip) : new[i] = rows[i]
    BY <1>2, <1>5
  <2>2. ASSUME NEW k \in 1..m, LastRow(s, ip, k, m)
        PROVE  Rows(new, ip) # {} /\ new[Max(Rows(new, ip))] = s[k]
    <3>1. k \in 1..(m - 1) /\ LastRow(s, ip, k, m - 1)
      BY <1>3, <1>5, <2>2 DEF LastRow
    <3>2. Rows(rows, ip) # {} /\ rows[Max(Rows(rows, ip))] = s[k]
      BY <3>1 DEF Showing
    <3>3. Max(Rows(rows, ip)) \in Rows(rows, ip)
      BY <3>2, RowFacts DEF Aligned
    <3> QED
      BY <2>1, <3>2, <3>3
  <2>3. /\ old # {} => Rows(new, ip) = old
        /\ (\A j \in 1..m : s[j].ip # ip) => Rows(new, ip) = old
    BY <1>3, <2>1 DEF Showing
  <2> QED
    BY <2>2, <2>3 DEF Showing, new
<1> QED
  BY <1>4, <1>5

\* DeviceModel's rows after a snapshot: the row it looks up for an address is the last
\* row that the snapshot has of it, if it has any.
LEMMA ShowsFacts ==
  ASSUME deviceRows \in Snapshots, NEW s \in Snapshots
  PROVE  /\ ShowsDevices(s) \in Snapshots
         /\ \A ip \in Ips :
              /\ Rows(s, ip) = {} => Rows(ShowsDevices(s), ip) = Rows(deviceRows, ip)
              /\ Rows(s, ip) # {} =>
                   /\ Rows(ShowsDevices(s), ip) # {}
                   /\ ShowsDevices(s)[Max(Rows(ShowsDevices(s), ip))] = s[Max(Rows(s, ip))]
<1> DEFINE G == {rows \in Snapshots : Aligned(rows)}
           N == Len(s)
           new == ShowsDevices(s)
<1>1. ShowClosed(G, Device)
  <2>1. ASSUME NEW g \in G, NEW e \in Device PROVE ShowDevice(g, e) \in G
    <3>1. Aligned(ShowDevice(g, e))
      BY ShowFacts
    <3> QED
      BY <3>1 DEF Aligned
  <2> HIDE DEF G
  <2> QED
    BY <2>1 DEF ShowClosed
<1>2. deviceRows \in G
  <2>1. Len(deviceRows) <= Len(deviceRows)
    BY DEF Snapshots
  <2> QED
    BY <2>1 DEF Aligned
<1>3. s \in Seq(Device) /\ N \in Nat /\ \A n \in 1..N : s[n] \in Device
  BY DEF Snapshots
<1> HIDE DEF G
<1>4. PICK f : ShowTurns(f, deviceRows, s) /\ new = f[N]
  <2>1. \E f : ShowTurns(f, deviceRows, s) /\ ShowAll(deviceRows, s) = f[N]
    BY <1>1, <1>2, <1>3, ShowLoop
  <2>2. new = ShowAll(deviceRows, s)
    BY Zenon DEF ShowsDevices, ShowAll
  <2> QED
    BY <2>1, <2>2
<1> HIDE DEF new, N
<1>5. f[0] = deviceRows /\ \A n \in 1..N : f[n] = ShowDevice(f[n - 1], s[n])
  BY <1>4 DEF ShowTurns, N
<1>6. \A n \in 0..N : f[n] \in G
  <2>1. f[0] \in G /\ \A n \in 1..N : f[n - 1] \in G => f[n] \in G
    BY <1>1, <1>2, <1>3, <1>5 DEF ShowClosed
  <2> QED
    BY <1>3, <2>1, LoopInvariant
<1>7. ASSUME NEW ip \in Ips
      PROVE  /\ Rows(s, ip) = {} => Rows(new, ip) = Rows(deviceRows, ip)
             /\ Rows(s, ip) # {} => Rows(new, ip) # {} /\ new[Max(Rows(new, ip))] = s[Max(Rows(s, ip))]
  <2> DEFINE P == {m \in 0..N : Showing(f[m], s, ip, m)}
  <2>1. 0 \in P
    <3>1. f[0] = deviceRows /\ 0 \in 0..N /\ 1..0 = {}
      BY <1>3, <1>5
    <3>2. Showing(deviceRows, s, ip, 0)
      BY <3>1 DEF Showing
    <3> QED
      BY <3>1, <3>2
  <2>2. ASSUME NEW m \in 0..(N - 1), m \in P PROVE m + 1 \in P
    <3>1. m + 1 \in 1..N /\ (m + 1) - 1 = m /\ m + 1 \in 0..N /\ m \in 0..N
      BY <1>3
    <3>2. f[m + 1] = ShowDevice(f[m], s[m + 1]) /\ f[m] \in G /\ Showing(f[m], s, ip, m)
      BY <1>5, <1>6, <2>2, <3>1
    <3>3. Aligned(f[m])
      BY <3>2 DEF G
    <3>4. Showing(f[m + 1], s, ip, m + 1)
      BY <3>1, <3>2, <3>3, ShowingTurn DEF N
    <3> QED
      BY <3>1, <3>4
  <2> HIDE DEF P
  <2>3. \A m \in 0..N : m \in P
    BY <1>3, <2>1, <2>2, SetInduction
  <2>4. N \in P
    BY <1>3, <2>3
  <2>5. Showing(new, s, ip, N)
    BY <1>4, <2>4 DEF P
  <2>6. Rows(s, ip) = {j \in 1..N : s[j].ip = ip}
    BY <1>3 DEF Rows, N
  <2>7. CASE Rows(s, ip) = {}
    BY <2>5, <2>6, <2>7 DEF Showing
  <2>8. CASE Rows(s, ip) # {}
    <3> DEFINE k == Max(Rows(s, ip))
    <3>1. k \in Rows(s, ip) /\ \A j \in Rows(s, ip) : k >= j
      BY <2>8, RowFacts
    <3> HIDE DEF k
    <3>2. k \in 1..N /\ LastRow(s, ip, k, N)
      BY <1>3, <2>6, <3>1 DEF LastRow
    <3> QED
      BY <2>5, <2>8, <3>2 DEF Showing, k
  <2> QED
    BY <2>7, <2>8
<1>8. new \in Snapshots
  BY <1>3, <1>4, <1>6 DEF G
<1> QED
  BY <1>7, <1>8 DEF N, new

-------------------------------------------------------------------------------
(* Events and tasks *)

\* What the packets that can be parsed hold.
LEMMA PacketFacts ==
  ASSUME NEW p \in Contents, p.form = "ok"
  PROVE  /\ p.type = "CAMERA" => p.list \in Seq(Items)
         /\ p.type = "AVAILABLE" => p.ips \in Seq(Ips) /\ p.server \in BOOLEAN
         /\ p.type \in {"AI", "META", "IMAGE"} => p.ip \in Ips
<1>1. p.type = "CAMERA" => p.list \in Seq(Items)
  BY PacketsAssumption
<1>2. p.type = "AVAILABLE" => p.ips \in Seq(Ips) /\ p.server \in BOOLEAN
  BY PacketsAssumption
<1>3. p.type \in {"AI", "META", "IMAGE"} => p.ip \in Ips
  BY PacketsAssumption
<1> QED
  BY <1>1, <1>2, <1>3

\* What an event carries, by its type.
LEMMA EventFacts ==
  ASSUME NEW e \in Events
  PROVE  /\ e.type \in {"packet", "pending"} =>
              e \in [type : {"packet", "pending"}, n : Nums, body : Contents]
         /\ e.type = "cameras" => e.list \in Seq(Items)
         /\ e.type = "sensor" => e.n \in Nums /\ e.id \in Cameras
         /\ e.type = "devices" => e.version \in Nat /\ e.snapshot \in Snapshots
         /\ e.type = "server" => e.n \in Nums /\ e.server \in Numbers
         /\ e.type = "image" => e.n \in Nums /\ e.id \in Cameras /\ e.picture \in BOOLEAN
         /\ e.type = "alarm" => e.n \in Nums
BY DEF Events

\* The head of the event queue and what is left of it.
LEMMA HandlingFacts ==
  ASSUME events \in Seq(Events), NEW type, Handling(type)
  PROVE  /\ Head(events) \in Events /\ Head(events).type = type
         /\ Tail(events) \in Seq(Events) /\ process = "up"
BY DEF Handling

\* A call is posted.
LEMMA PostType ==
  ASSUME events \in Seq(Events), NEW e \in Events, Post(e)
  PROVE  events' \in Seq(Events)
BY DEF Post

\* A running task by its kind.
LEMMA TaskFacts ==
  ASSUME NEW t \in GoodTasks
  PROVE  /\ Fits(t) /\ t.n \in Nums /\ t.body \in Contents
         /\ t.kind = "camera" => t \in ListTasks
         /\ t.kind \in {"meta", "count", "image"} => t \in FoundTasks
         /\ t.kind \in {"device", "available"} => t \in DeviceTasks \cup CopyTasks
         /\ t.kind \in {"device", "available"} /\ t.at = "post" => t \in CopyTasks
         /\ t.kind \in {"server", "alarm"} => t \in PlainTasks
         /\ t.kind \in {"camera", "meta", "count", "image", "device", "available", "server", "alarm"}
BY DEF GoodTasks, Tasks, ListTasks, FoundTasks, DeviceTasks, CopyTasks, PlainTasks

\* The step that a task of a camera list takes.
LEMMA ListAdvance ==
  ASSUME NEW t \in GoodTasks, t.kind = "camera", t.body.form = "ok",
         NEW left \in Seq(Items), NEW at \in {"table", "lock", "post"}, at = "table" => left # <<>>
  PROVE  [t EXCEPT !.at = at, !.left = left] \in GoodTasks
<1> DEFINE u == [t EXCEPT !.at = at, !.left = left]
<1>1. t \in ListTasks /\ Fits(t)
  BY TaskFacts
<1>2. u \in ListTasks
  BY <1>1 DEF ListTasks
<1>3. u.kind = t.kind /\ u.body = t.body /\ u.at = at /\ u.left = left
  BY <1>1 DEF ListTasks
<1> HIDE DEF u
<1>4. Fits(u)
  BY <1>1, <1>3 DEF Fits
<1>5. u \in Tasks
  BY <1>2 DEF Tasks
<1> QED
  BY <1>4, <1>5 DEF GoodTasks, u

\* The step that a task takes which has looked for cameras.
LEMMA FoundAdvance ==
  ASSUME NEW t \in GoodTasks, t.kind \in {"meta", "count", "image"}, t.body.form = "ok",
         NEW left \in Seq(Cameras), NEW at \in {"lock", "info", "post", "moved"},
         at # "lock" => left # <<>>
  PROVE  [t EXCEPT !.at = at, !.left = left] \in GoodTasks
<1> DEFINE u == [t EXCEPT !.at = at, !.left = left]
<1>1. t \in FoundTasks /\ Fits(t)
  BY TaskFacts
<1>2. u \in FoundTasks
  BY <1>1 DEF FoundTasks
<1>3. u.kind = t.kind /\ u.body = t.body /\ u.at = at /\ u.left = left
  BY <1>1 DEF FoundTasks
<1> HIDE DEF u
<1>4. Fits(u)
  BY <1>1, <1>3 DEF Fits
<1>5. u \in Tasks
  BY <1>2 DEF Tasks
<1> QED
  BY <1>4, <1>5 DEF GoodTasks, u

\* The steps of a task of DeviceStore.
LEMMA DeviceAdvance ==
  ASSUME NEW t \in GoodTasks, t.kind \in {"device", "available"}, t.body.form = "ok", NEW copy \in Nat \X Snapshots
  PROVE  /\ [t EXCEPT !.at = "lock", !.left = <<>>] \in GoodTasks
         /\ [t EXCEPT !.at = "post", !.left = copy] \in GoodTasks
<1> DEFINE u == [t EXCEPT !.at = "lock", !.left = <<>>]
           v == [t EXCEPT !.at = "post", !.left = copy]
<1>1. t \in DeviceTasks \cup CopyTasks /\ Fits(t)
  BY TaskFacts
<1>2. u \in DeviceTasks /\ v \in CopyTasks
  BY <1>1 DEF DeviceTasks, CopyTasks
<1>3. u.kind = t.kind /\ u.body = t.body /\ v.kind = t.kind /\ v.body = t.body
  BY <1>1 DEF DeviceTasks, CopyTasks
<1> HIDE DEF u, v
<1>4. Fits(u) /\ Fits(v)
  BY <1>1, <1>3 DEF Fits
<1>5. u \in Tasks /\ v \in Tasks
  BY <1>2 DEF Tasks
<1> QED
  BY <1>4, <1>5 DEF GoodTasks, u, v

\* The step of a task of ServerStatusStore or AlarmDispatcher.
LEMMA PlainAdvance ==
  ASSUME NEW t \in GoodTasks, t.kind \in {"server", "alarm"}, t.body.form = "ok", NEW at \in {"lock", "post"}
  PROVE  [t EXCEPT !.at = at, !.left = <<>>] \in GoodTasks
<1> DEFINE u == [t EXCEPT !.at = at, !.left = <<>>]
<1>1. t \in PlainTasks /\ Fits(t)
  BY TaskFacts
<1>2. u \in PlainTasks
  BY <1>1 DEF PlainTasks
<1>3. u.kind = t.kind /\ u.body = t.body
  BY <1>1 DEF PlainTasks
<1> HIDE DEF u
<1>4. Fits(u)
  BY <1>1, <1>3 DEF Fits
<1>5. u \in Tasks
  BY <1>2 DEF Tasks
<1> QED
  BY <1>4, <1>5 DEF GoodTasks, u

\* A task goes on, or is over.
Advances(t) ==
  \/ Ends(t)
  \/ \E at, left : Goes(t, at, left) /\ [t EXCEPT !.at = at, !.left = left] \in GoodTasks

\* The workers are as many when a task takes a step, and fewer when it ends.
LEMMA PoolKept ==
  ASSUME PoolOK, NEW t \in running, queue_' = queue_, Advances(t)
  PROVE  PoolOK'
<1>1. running \in SUBSET GoodTasks /\ IsFiniteSet(running) /\ Cardinality(running) <= Threads /\ Threads \in Nat
  BY DataAssumption DEF PoolOK
<1>2. /\ IsFiniteSet(running \ {t}) /\ Cardinality(running \ {t}) = Cardinality(running) - 1
      /\ Cardinality(running) \in Nat
  BY <1>1, FS_RemoveElement, FS_CardinalityType
<1>3. CASE Ends(t)
  BY <1>1, <1>2, <1>3 DEF Ends, PoolOK
<1>4. CASE \E at, left : Goes(t, at, left) /\ [t EXCEPT !.at = at, !.left = left] \in GoodTasks
  <2>1. PICK at, left : Goes(t, at, left) /\ [t EXCEPT !.at = at, !.left = left] \in GoodTasks
    BY <1>4, Zenon
  <2> DEFINE u == [t EXCEPT !.at = at, !.left = left]
             R == running \ {t}
             S == R \cup {u}
  <2>2. u \in GoodTasks /\ running' = S
    BY <2>1, Zenon DEF Goes
  <2>3. IsFiniteSet(R) /\ Cardinality(R) = Cardinality(running) - 1
    BY <1>2
  <2>4. R \in SUBSET GoodTasks
    BY <1>1
  <2> HIDE DEF R, u
  <2>5. /\ IsFiniteSet(S) /\ Cardinality(S) \in Nat
        /\ Cardinality(S) = Cardinality(R) \/ Cardinality(S) = Cardinality(R) + 1
    <3>1. IsFiniteSet(S) /\ (u \in R => Cardinality(S) = Cardinality(R))
          /\ (u \notin R => Cardinality(S) = Cardinality(R) + 1)
      BY <2>3, FS_AddElement
    <3> QED
      BY <3>1, FS_CardinalityType
  <2>6. S \in SUBSET GoodTasks
    BY <2>2, <2>4
  <2> HIDE DEF S
  <2>7. Cardinality(S) <= Threads
    BY <1>1, <1>2, <2>3, <2>5
  <2> QED
    BY <2>2, <2>5, <2>6, <2>7 DEF PoolOK
<1> QED
  BY <1>3, <1>4, Zenon DEF Advances

\* The kinds of task that a type of packet is wired to.
Wired(type) ==
  CASE type = "CAMERA"    -> {"camera", "device"}
    [] type = "AVAILABLE" -> {"available", "server"}
    [] type = "META"      -> {"meta"}
    [] type = "AI"        -> {"alarm", "count"}
    [] type = "IMAGE"     -> {"image"}
    [] OTHER              -> {}

PacketEvents == [type : {"packet", "pending"}, n : Nums, body : Contents]

\* A task that is submitted for a packet.
LEMMA TaskType ==
  ASSUME NEW e \in PacketEvents, NEW kind \in Wired(e.body.type)
  PROVE  Task(kind, e) \in FreshTasks
<1> DEFINE t == Task(kind, e)
<1>1. /\ e.n \in Nums /\ e.body \in Contents
      /\ t = [kind |-> kind, n |-> e.n, body |-> e.body, at |-> "parse", left |-> <<>>]
  BY DEF PacketEvents, Task
<1>2. t.kind = kind /\ t.body = e.body /\ t.at = "parse"
  BY <1>1
<1>3. /\ kind \in {"camera", "device", "available", "server", "meta", "alarm", "count", "image"}
      /\ kind \in {"camera", "device"} => e.body.type = "CAMERA"
      /\ kind \in {"available", "server"} => e.body.type = "AVAILABLE"
      /\ kind = "meta" => e.body.type = "META"
      /\ kind \in {"alarm", "count"} => e.body.type = "AI"
      /\ kind = "image" => e.body.type = "IMAGE"
  BY DEF Wired
<1>4. Fits(t)
  BY <1>2, <1>3 DEF Fits
<1>5. t \in Tasks
  <2>1. <<>> \in Seq(Items) /\ <<>> \in Seq(Cameras) /\ <<>> \in {<<>>}
    OBVIOUS
  <2>2. t \in ListTasks \/ t \in FoundTasks \/ t \in DeviceTasks \/ t \in PlainTasks
    BY <1>1, <1>3, <2>1 DEF ListTasks, FoundTasks, DeviceTasks, PlainTasks
  <2> QED
    BY <2>2 DEF Tasks
<1> HIDE DEF t
<1> QED
  BY <1>2, <1>4, <1>5 DEF FreshTasks, GoodTasks, t

\* What packetReceived submits.
LEMMA SubmittedType ==
  ASSUME NEW e \in PacketEvents
  PROVE  Submitted(e) \in Seq(FreshTasks)
<1> DEFINE ty == e.body.type
           S(kind) == Task(kind, e)
<1>1. \A kind \in Wired(ty) : S(kind) \in FreshTasks
  BY TaskType
<1> HIDE DEF S
<1>2. CASE ty = "CAMERA"
  <2>1. S("camera") \in FreshTasks /\ S("device") \in FreshTasks
    BY <1>1, <1>2 DEF Wired
  <2>2. Submitted(e) = <<S("camera"), S("device")>>
    BY <1>2 DEF Submitted, S
  <2> QED
    BY <2>1, <2>2
<1>3. CASE ty = "AVAILABLE"
  <2>1. S("available") \in FreshTasks /\ S("server") \in FreshTasks
    BY <1>1, <1>3 DEF Wired
  <2>2. Submitted(e) = <<S("available"), S("server")>>
    BY <1>3 DEF Submitted, S
  <2> QED
    BY <2>1, <2>2
<1>4. CASE ty = "META"
  <2>1. S("meta") \in FreshTasks
    BY <1>1, <1>4 DEF Wired
  <2>2. Submitted(e) = <<S("meta")>>
    BY <1>4 DEF Submitted, S
  <2> QED
    BY <2>1, <2>2
<1>5. CASE ty = "AI"
  <2>1. S("alarm") \in FreshTasks /\ S("count") \in FreshTasks
    BY <1>1, <1>5 DEF Wired
  <2>2. Submitted(e) = <<S("alarm"), S("count")>>
    BY <1>5 DEF Submitted, S
  <2> QED
    BY <2>1, <2>2
<1>6. CASE ty = "IMAGE"
  <2>1. S("image") \in FreshTasks
    BY <1>1, <1>6 DEF Wired
  <2>2. Submitted(e) = <<S("image")>>
    BY <1>6 DEF Submitted, S
  <2> QED
    BY <2>1, <2>2
<1>7. CASE ty \notin {"CAMERA", "AVAILABLE", "META", "AI", "IMAGE"}
  <2>1. Submitted(e) = <<>>
    BY <1>7 DEF Submitted
  <2> QED
    BY <2>1
<1> QED
  BY <1>2, <1>3, <1>4, <1>5, <1>6, <1>7

-------------------------------------------------------------------------------
(* The types are kept *)

\* What is left alone keeps its type.
LEMMA SameTypes ==
  ASSUME DataTypes
  PROVE  /\ UNCHANGED control => ControlOK'
         /\ UNCHANGED events => (events \in Seq(Events))'
         /\ UNCHANGED <<queue_, running>> => PoolOK'
         /\ UNCHANGED stores => StoresOK'
         /\ UNCHANGED models => ModelsOK'
<1>1. UNCHANGED control => ControlOK'
  BY DEF DataTypes, ControlOK, control
<1>2. UNCHANGED events => (events \in Seq(Events))'
  BY DEF DataTypes
<1>3. UNCHANGED <<queue_, running>> => PoolOK'
  BY DEF DataTypes, PoolOK
<1>4. UNCHANGED stores => StoresOK'
  BY DEF DataTypes, StoresOK, stores
<1>5. UNCHANGED models => ModelsOK'
  BY DEF DataTypes, ModelsOK, models
<1> QED
  BY <1>1, <1>2, <1>3, <1>4, <1>5

\* The handlers of the GUI thread.
LEMMA GuiTypes ==
  ASSUME DataTypes, GuiStep
  PROVE  DataTypes'
<1> DEFINE e == Head(events)
           rest == Tail(events)
<1>1. events \in Seq(Events) /\ PoolOK /\ ModelsOK
  BY DEF DataTypes
<1>2. CASE packetReceived
  <2>1. /\ UNCHANGED <<control, running, stores, models>> /\ Handling("packet")
        /\ queue_' = queue_ \o Submitted(e)
        /\ events' = IF e.body.type = "ASSIGN" THEN Append(rest, [e EXCEPT !.type = "pending"]) ELSE rest
    BY <1>2 DEF packetReceived
  <2>2. e \in Events /\ e.type = "packet" /\ rest \in Seq(Events)
    BY <1>1, <2>1, HandlingFacts
  <2> HIDE DEF e, rest
  <2>3. e \in PacketEvents
    BY <2>2, EventFacts DEF PacketEvents
  <2>4. [e EXCEPT !.type = "pending"] \in PacketEvents
    BY <2>3 DEF PacketEvents
  <2>5. PacketEvents \subseteq Events
    BY DEF PacketEvents, Events
  <2>6. events' \in Seq(Events)
    BY <2>1, <2>2, <2>4, <2>5
  <2>7. queue_' \in Seq(FreshTasks)
    <3>1. queue_ \in Seq(FreshTasks) /\ Submitted(e) \in Seq(FreshTasks)
      BY <1>1, <2>3, SubmittedType DEF PoolOK
    <3> QED
      BY <2>1, <3>1
  <2>8. PoolOK'
    BY <1>1, <2>1, <2>7 DEF PoolOK
  <2>9. ControlOK' /\ StoresOK' /\ ModelsOK'
    BY <2>1, SameTypes
  <2> QED
    BY <2>6, <2>8, <2>9 DEF DataTypes
<1>3. ASSUME NEW type, Handling(type), events' = rest, UNCHANGED <<control, queue_, running, stores>>, ModelsOK'
      PROVE  DataTypes'
  <2>1. rest \in Seq(Events)
    BY <1>1, <1>3, HandlingFacts
  <2>2. ControlOK' /\ PoolOK' /\ StoresOK'
    BY <1>3, SameTypes
  <2> QED
    BY <1>3, <2>1, <2>2 DEF DataTypes
<1> HIDE DEF rest
<1>4. \A type : Handling(type) => e \in Events /\ e.type = type
  BY <1>1, HandlingFacts
<1> HIDE DEF e
<1>5. CASE camerasUpdated
  <2>1. cameras' = ShowsCameras(e.list)
    BY <1>5 DEF camerasUpdated, e
  <2>2. cameras' \in [Cameras -> [shown : {"absent", "online", "offline"}, sensor : Numbers]]
    BY <1>1, <2>1 DEF ShowsCameras, ModelsOK, Absent
  <2>3. ModelsOK'
    BY <1>1, <1>5, <2>2 DEF ModelsOK, camerasUpdated
  <2> QED
    BY <1>3, <1>5, <2>3 DEF camerasUpdated, rest
<1>6. CASE updateSensorInfo
  <2>1. /\ Handling("sensor")
        /\ cameras' = IF cameras[e.id] = Absent THEN cameras ELSE [cameras EXCEPT ![e.id].sensor = e.n]
    BY <1>6 DEF updateSensorInfo, e
  <2>2. e.n \in Nums
    BY <1>4, <2>1, EventFacts
  <2>3. cameras' \in [Cameras -> [shown : {"absent", "online", "offline"}, sensor : Numbers]]
    BY <1>1, <2>1, <2>2 DEF ModelsOK, Nums
  <2>4. ModelsOK'
    BY <1>1, <1>6, <2>3 DEF ModelsOK, updateSensorInfo
  <2> QED
    BY <1>3, <1>6, <2>4 DEF updateSensorInfo, rest
<1>7. CASE devicesUpdated
  <2>1. Handling("devices") /\ deviceRows' = ShowsDevices(e.snapshot) /\ shownVersion' = e.version
    BY <1>7 DEF devicesUpdated, e
  <2>2. e.version \in Nat /\ e.snapshot \in Snapshots
    BY <1>4, <2>1, EventFacts
  <2>3. deviceRows' \in Snapshots
    BY <1>1, <2>1, <2>2, ShowsFacts DEF ModelsOK
  <2>4. ModelsOK'
    BY <1>1, <1>7, <2>1, <2>2, <2>3 DEF ModelsOK, devicesUpdated
  <2> QED
    BY <1>3, <1>7, <2>4 DEF devicesUpdated, rest
<1>8. CASE serverUpdated
  <2> DEFINE h == server.serverHistory_
             a == Appended(h, e.n, MAX_SERVER_HISTORY)
  <2>1. /\ Handling("server")
        /\ server' = [devices |-> e.n, server |-> e.server,
                      serverHistory_ |-> IF e.server # 0 THEN a ELSE h]
    BY <1>8 DEF serverUpdated, e
  <2>2. e.n \in Nums /\ e.server \in Numbers
    BY <1>4, <2>1, EventFacts
  <2>3. h \in History(MAX_SERVER_HISTORY) /\ MAX_SERVER_HISTORY \in Nat \ {0}
    BY <1>1, DataAssumption DEF ModelsOK
  <2>4. a \in History(MAX_SERVER_HISTORY)
    BY <2>2, <2>3, AppendedFacts DEF History, Nums
  <2> HIDE DEF a, h
  <2>5. server' \in [devices : Numbers, server : Numbers, serverHistory_ : History(MAX_SERVER_HISTORY)]
    BY <2>1, <2>2, <2>3, <2>4 DEF Nums
  <2>6. ModelsOK'
    BY <1>1, <1>8, <2>5 DEF ModelsOK, serverUpdated
  <2> QED
    BY <1>3, <1>8, <2>6 DEF serverUpdated, rest
<1>9. CASE onPendingListReceived
  <2>1. Handling("pending") /\ users' = IF e.body.ok THEN e.n ELSE users
    BY <1>9 DEF onPendingListReceived, e
  <2>2. e.n \in Nums
    BY <1>4, <2>1, EventFacts
  <2>3. users' \in Numbers
    BY <1>1, <2>1, <2>2 DEF ModelsOK, Nums
  <2>4. ModelsOK'
    BY <1>1, <1>9, <2>3 DEF ModelsOK, onPendingListReceived
  <2> QED
    BY <1>3, <1>9, <2>4 DEF onPendingListReceived, rest
<1>10. CASE onImageReceivedBase64
  <2> DEFINE T == [n : Numbers, picture : BOOLEAN]
             x == [n |-> e.n, picture |-> e.picture]
             B == BoundedSeq(T, MAX_EVENTS_PER_CAMERA)
             a == Appended(images[e.id], x, MAX_EVENTS_PER_CAMERA)
  <2>1. Handling("image") /\ images' = [images EXCEPT ![e.id] = a]
    BY <1>10 DEF onImageReceivedBase64, e
  <2>2. e.n \in Nums /\ e.picture \in BOOLEAN /\ e.id \in Cameras
    BY <1>4, <2>1, EventFacts
  <2>3. images \in [Cameras -> B] /\ MAX_EVENTS_PER_CAMERA \in Nat \ {0}
    BY <1>1, DataAssumption DEF ModelsOK
  <2>4. x \in T
    BY <2>2 DEF Nums
  <2>5. a \in B
    <3>1. images[e.id] \in B
      BY <2>2, <2>3
    <3> HIDE DEF x, T
    <3> QED
      BY <2>3, <2>4, <3>1, AppendedFacts
  <2> HIDE DEF a, B
  <2>6. images' \in [Cameras -> B]
    BY <2>1, <2>3, <2>5
  <2>7. ModelsOK'
    BY <1>1, <1>10, <2>6 DEF ModelsOK, onImageReceivedBase64, B
  <2> QED
    BY <1>3, <1>10, <2>7 DEF onImageReceivedBase64, rest
<1>11. CASE onAlarm
  <2> DEFINE T == [id : Nat, n : Nums]
             x == [id |-> clock', n |-> e.n]
             q == IF Len(alarms_) >= kMaxAlarms THEN Tail(alarms_) ELSE alarms_
  <2>1. Handling("alarm") /\ alarms_' = Append(q, x) /\ \E tick \in {0, 1} : clock' = clock + tick
    BY <1>11 DEF onAlarm, e
  <2>2. e.n \in Nums /\ clock' \in Nat
    BY <1>1, <1>4, <2>1, EventFacts DEF ModelsOK
  <2>3. x \in T
    BY <2>2
  <2>4. alarms_ \in Seq(T) /\ Len(alarms_) <= kMaxAlarms /\ kMaxAlarms \in Nat \ {0} /\ Len(alarms_) \in Nat
    BY <1>1, DataAssumption DEF ModelsOK
  <2> HIDE DEF T, x
  <2>5. q \in Seq(T) /\ Len(q) < kMaxAlarms
    <3>1. CASE Len(alarms_) >= kMaxAlarms
      <4>1. alarms_ # <<>> /\ Len(alarms_) = kMaxAlarms
        BY <2>4, <3>1
      <4>2. Tail(alarms_) \in Seq(T) /\ Len(Tail(alarms_)) = Len(alarms_) - 1
        BY <2>4, <4>1
      <4> QED
        BY <2>4, <3>1, <4>1, <4>2
    <3>2. CASE ~(Len(alarms_) >= kMaxAlarms)
      BY <2>4, <3>2
    <3> QED
      BY <3>1, <3>2
  <2> HIDE DEF q
  <2>6. alarms_' \in Seq(T) /\ Len(alarms_') <= kMaxAlarms
    BY <2>1, <2>3, <2>4, <2>5
  <2>7. ModelsOK'
    BY <1>1, <1>11, <2>2, <2>6 DEF ModelsOK, onAlarm, T
  <2> QED
    BY <1>3, <1>11, <2>7 DEF onAlarm, rest
<1> QED
  BY <1>2, <1>5, <1>6, <1>7, <1>8, <1>9, <1>10, <1>11 DEF GuiStep

\* An alarm is removed from the list.
LEMMA RemoveType ==
  ASSUME NEW T, NEW q \in Seq(T), NEW i \in 1..Len(q)
  PROVE  RemoveAt(q, i) \in Seq(T) /\ Len(RemoveAt(q, i)) <= Len(q)
<1> DEFINE A == SubSeq(q, 1, i - 1)
           B == SubSeq(q, i + 1, Len(q))
<1>1. Len(q) \in Nat /\ i \in DOMAIN q
  OBVIOUS
<1>2. A \in Seq(T) /\ Len(A) = i - 1
  BY <1>1
<1>3. B \in Seq(T) /\ Len(B) = Len(q) - i
  BY <1>1, EntriesBehind
<1>4. RemoveAt(q, i) = A \o B
  BY DEF RemoveAt
<1> HIDE DEF A, B
<1>5. A \o B \in Seq(T) /\ Len(A \o B) = Len(A) + Len(B)
  BY <1>2, <1>3, Concat
<1> QED
  BY <1>1, <1>2, <1>3, <1>4, <1>5

\* The user, and the packets that come.
LEMMA UserTypes ==
  ASSUME DataTypes, User \/ (\E p \in Contents : Receive(p))
  PROVE  DataTypes'
<1>1. ControlOK /\ events \in Seq(Events) /\ ModelsOK
  BY DEF DataTypes
<1>2. CASE Login
  <2>1. ControlOK'
    BY <1>1, <1>2 DEF Login, ControlOK
  <2> QED
    BY <1>2, <2>1, SameTypes DEF Login, DataTypes
<1>3. CASE logoutRequested
  <2>1. ControlOK'
    <3>1. logouts' \in 0..MaxLogouts
      <4>1. logouts \in 0..MaxLogouts /\ logouts < MaxLogouts /\ logouts' = logouts + 1 /\ MaxLogouts \in Nat
        BY <1>1, <1>3, DataAssumption DEF logoutRequested, ControlOK
      <4> QED
        BY <4>1
    <3>2. connected' = FALSE /\ lone' = <<>> /\ cleared' \in BOOLEAN /\ UNCHANGED <<process, received, alive>>
      BY <1>3, Zenon DEF logoutRequested, Idle
    <3> QED
      BY <1>1, <3>1, <3>2 DEF ControlOK
  <2>2. ASSUME NEW T, NEW max \in Nat PROVE <<>> \in BoundedSeq(T, max)
    <3>1. Len(<<>>) = 0 /\ <<>> \in Seq(T) /\ 0 <= max
      OBVIOUS
    <3> QED
      BY <3>1, Bounded
  <2>3. images' \in [Cameras -> BoundedSeq([n : Numbers, picture : BOOLEAN], MAX_EVENTS_PER_CAMERA)]
    <3> DEFINE B == BoundedSeq([n : Numbers, picture : BOOLEAN], MAX_EVENTS_PER_CAMERA)
    <3>1. <<>> \in B
      <4>1. MAX_EVENTS_PER_CAMERA \in Nat
        BY DataAssumption
      <4> QED
        BY <2>2, <4>1
    <3> HIDE DEF B
    <3>2. images' \in [Cameras -> B]
      BY <1>3, <3>1 DEF logoutRequested
    <3> QED
      BY <3>2 DEF B
  <2>4. cameras' \in [Cameras -> [shown : {"absent", "online", "offline"}, sensor : Numbers]]
    BY <1>3, DataAssumption DEF logoutRequested, Absent, Numbers
  <2>5. /\ deviceRows' \in Snapshots /\ users' \in Numbers /\ shownVersion' \in Nat
        /\ alarms_' \in Seq([id : Nat, n : Nums]) /\ Len(alarms_') <= kMaxAlarms
    <3>1. <<>> \in Snapshots /\ <<>> \in Seq([id : Nat, n : Nums]) /\ Len(<<>>) = 0
      BY DEF Snapshots
    <3>2. 0 \in Numbers /\ 0 <= kMaxAlarms
      BY DataAssumption DEF Numbers
    <3> QED
      BY <1>3, <3>1, <3>2 DEF logoutRequested
  <2>6. server' = server /\ clock' = clock
    BY <1>3 DEF logoutRequested
  <2>7. ModelsOK'
    BY <1>1, <2>3, <2>4, <2>5, <2>6 DEF ModelsOK
  <2> QED
    BY <1>3, <2>1, <2>7, SameTypes DEF logoutRequested, DataTypes
<1>4. ASSUME NEW i \in DOMAIN alarms_, dismiss(i) PROVE DataTypes'
  <2> DEFINE T == [id : Nat, n : Nums]
             S == {k \in DOMAIN alarms_ : alarms_[k].id = alarms_[i].id}
  <2>1. alarms_ \in Seq(T) /\ Len(alarms_) <= kMaxAlarms /\ kMaxAlarms \in Nat
    BY <1>1, DataAssumption DEF ModelsOK
  <2> HIDE DEF T
  <2>2. S \in SUBSET Nat /\ S # {} /\ S \subseteq 1..Len(alarms_) /\ Len(alarms_) \in Nat
    BY <2>1
  <2>3. alarms_' = RemoveAt(alarms_, Min(S))
    BY <1>4 DEF dismiss
  <2> HIDE DEF S
  <2>4. Min(S) \in 1..Len(alarms_)
    BY <2>2, MinFacts
  <2>5. alarms_' \in Seq(T) /\ Len(alarms_') <= Len(alarms_)
    BY <2>1, <2>3, <2>4, RemoveType
  <2>6. Len(alarms_') <= kMaxAlarms
    <3>1. Len(alarms_') \in Nat
      BY <2>5
    <3> QED
      BY <2>1, <2>2, <2>5, <3>1
  <2>7. ModelsOK'
    BY <1>1, <1>4, <2>5, <2>6 DEF dismiss, ModelsOK, T
  <2>8. ControlOK'
    BY <1>1, <1>4 DEF dismiss, ControlOK
  <2> QED
    BY <1>4, <2>7, <2>8, SameTypes DEF dismiss, DataTypes
<1>5. CASE Quit
  <2>1. ControlOK'
    BY <1>1, <1>5 DEF Quit, ControlOK
  <2>2. events' \in Seq(Events)
    BY <1>5 DEF Quit
  <2> QED
    BY <1>5, <2>1, <2>2, SameTypes DEF Quit, DataTypes
<1>6. ASSUME NEW p \in Contents, Receive(p) PROVE DataTypes'
  <2> DEFINE k == received + 1
             x == [type |-> "packet", n |-> k, body |-> p]
  <2>1. /\ received' = k /\ events' = Append(events, x)
        /\ lone' = (IF Idle THEN <<k, p, cleared>> ELSE <<>>) /\ cleared' = FALSE
    BY <1>6 DEF Receive
  <2>2. k \in Nums /\ k \in Numbers
    <3>1. received \in 0..MaxPackets /\ received < MaxPackets /\ MaxPackets \in Nat
      BY <1>1, <1>6, DataAssumption DEF Receive, ControlOK, Numbers
    <3> QED
      BY <3>1 DEF Nums, Numbers
  <2> HIDE DEF k
  <2>3. x \in Events
    BY <2>2 DEF Events
  <2> HIDE DEF x
  <2>4. events' \in Seq(Events)
    BY <1>1, <2>1, <2>3
  <2>5. <<k, p, cleared>> \in Nums \X Contents \X BOOLEAN
    BY <1>1, <2>2 DEF ControlOK
  <2>6. lone' \in {<<>>} \union (Nums \X Contents \X BOOLEAN)
    BY <2>1, <2>5
  <2>7. ControlOK'
    BY <1>1, <1>6, <2>1, <2>2, <2>6 DEF Receive, ControlOK
  <2> QED
    BY <1>6, <2>4, <2>7, SameTypes DEF Receive, DataTypes
<1> QED
  BY <1>2, <1>3, <1>4, <1>5, <1>6 DEF User

\* Shutdown, and a worker that takes a task.
LEMMA PoolTypes ==
  ASSUME DataTypes, StartTask \/ ShutdownStep \/ Gone
  PROVE  DataTypes'
<1>1. ControlOK /\ PoolOK
  BY DEF DataTypes
<1>2. CASE StartTask
  <2> DEFINE h == Head(queue_)
             R == running \cup {h}
  <2>1. queue_ # <<>> /\ Cardinality(running) < Threads /\ running' = R /\ queue_' = Tail(queue_)
    BY <1>2 DEF StartTask
  <2>2. h \in FreshTasks /\ Tail(queue_) \in Seq(FreshTasks)
    BY <1>1, <2>1 DEF PoolOK
  <2>3. IsFiniteSet(running) /\ running \in SUBSET GoodTasks /\ Threads \in Nat
    BY <1>1, DataAssumption DEF PoolOK
  <2>4. h \in GoodTasks
    BY <2>2 DEF FreshTasks
  <2> HIDE DEF h
  <2>5. /\ IsFiniteSet(R)
        /\ Cardinality(R) = IF h \in running THEN Cardinality(running) ELSE Cardinality(running) + 1
        /\ Cardinality(running) \in Nat
    BY <2>3, FS_AddElement, FS_CardinalityType
  <2>6. R \in SUBSET GoodTasks
    BY <2>3, <2>4
  <2> HIDE DEF R
  <2>7. Cardinality(R) <= Threads
    BY <2>1, <2>3, <2>5
  <2>8. PoolOK'
    BY <2>1, <2>2, <2>5, <2>6, <2>7 DEF PoolOK
  <2> QED
    BY <1>2, <2>8, SameTypes DEF StartTask, DataTypes
<1>3. ASSUME NEW s \in alive, ResetStore(s) PROVE DataTypes'
  <2>1. ControlOK'
    BY <1>1, <1>3 DEF ResetStore, ControlOK
  <2> QED
    BY <1>3, <2>1, SameTypes DEF ResetStore, DataTypes
<1>4. CASE PoolJoined
  <2>1. ControlOK'
    BY <1>1, <1>4 DEF PoolJoined, ControlOK
  <2> QED
    BY <1>4, <2>1, SameTypes DEF PoolJoined, DataTypes
<1>5. CASE Disconnected
  <2>1. ControlOK'
    BY <1>1, <1>5 DEF Disconnected, ControlOK
  <2> QED
    BY <1>5, <2>1, SameTypes DEF Disconnected, DataTypes
<1>6. CASE Gone
  BY <1>6, SameTypes DEF Gone, DataTypes, vars
<1> QED
  BY <1>2, <1>3, <1>4, <1>5, <1>6 DEF ShutdownStep

\* A task is parsed.
LEMMA ParseTypes ==
  ASSUME DataTypes, NEW t \in running, Parse(t)
  PROVE  DataTypes'
<1>1. ControlOK /\ PoolOK /\ t \in GoodTasks /\ queue_' = queue_
  BY DEF DataTypes, PoolOK, Parse
<1>2. /\ Fits(t) /\ t.body \in Contents
      /\ t.kind \in {"camera", "meta", "count", "image", "device", "available", "server", "alarm"}
  BY <1>1, TaskFacts
<1>3. Advances(t)
  <2>1. CASE Ends(t)
    BY <2>1 DEF Advances
  <2>2. ASSUME ~ParseFails(t), FirstStep(t) PROVE Advances(t)
    <3>1. t.body.form = "ok"
      BY <2>2 DEF ParseFails
    <3>2. CASE t.kind = "camera" /\ t.body.list # <<>>
      <4>1. t.body.list \in Seq(Items)
        BY <1>2, <3>1, <3>2, PacketFacts DEF Fits
      <4>2. Goes(t, "table", t.body.list)
        BY <2>2, <3>2 DEF FirstStep
      <4>3. [t EXCEPT !.at = "table", !.left = t.body.list] \in GoodTasks
        BY <1>1, <3>1, <3>2, <4>1, ListAdvance
      <4> QED
        BY <4>2, <4>3, Zenon DEF Advances
    <3>3. CASE t.kind = "camera" /\ t.body.list = <<>>
      <4>1. Goes(t, "lock", <<>>)
        BY <2>2, <3>3 DEF FirstStep
      <4>2. <<>> \in Seq(Items)
        OBVIOUS
      <4>3. [t EXCEPT !.at = "lock", !.left = <<>>] \in GoodTasks
        BY <1>1, <3>1, <3>3, <4>2, ListAdvance
      <4> QED
        BY <4>1, <4>3, Zenon DEF Advances
    <3>4. CASE t.kind = "alarm"
      <4>1. Goes(t, "post", <<>>)
        BY <2>2, <3>4 DEF FirstStep
      <4>2. [t EXCEPT !.at = "post", !.left = <<>>] \in GoodTasks
        BY <1>1, <3>1, <3>4, PlainAdvance
      <4> QED
        BY <4>1, <4>2, Zenon DEF Advances
    <3>5. CASE t.kind \in {"meta", "count", "image"}
      <4>1. Goes(t, "lock", <<>>)
        BY <2>2, <3>5 DEF FirstStep
      <4>2. <<>> \in Seq(Cameras)
        OBVIOUS
      <4>3. [t EXCEPT !.at = "lock", !.left = <<>>] \in GoodTasks
        BY <1>1, <3>1, <3>5, <4>2, FoundAdvance
      <4> QED
        BY <4>1, <4>3, Zenon DEF Advances
    <3>6. CASE t.kind \in {"device", "available"}
      <4>1. Goes(t, "lock", <<>>)
        BY <2>2, <3>6 DEF FirstStep
      <4>2. <<0, devices_>> \in Nat \X Snapshots
        BY DEF DataTypes, StoresOK
      <4>3. [t EXCEPT !.at = "lock", !.left = <<>>] \in GoodTasks
        BY <1>1, <3>1, <3>6, <4>2, DeviceAdvance
      <4> QED
        BY <4>1, <4>3, Zenon DEF Advances
    <3>7. CASE t.kind = "server"
      <4>1. Goes(t, "lock", <<>>)
        BY <2>2, <3>7 DEF FirstStep
      <4>2. [t EXCEPT !.at = "lock", !.left = <<>>] \in GoodTasks
        BY <1>1, <3>1, <3>7, PlainAdvance
      <4> QED
        BY <4>1, <4>2, Zenon DEF Advances
    <3> QED
      BY <1>2, <3>2, <3>3, <3>4, <3>5, <3>6, <3>7
  <2>3. IF ParseFails(t) THEN Ends(t) ELSE FirstStep(t)
    BY DEF Parse
  <2> QED
    BY <2>1, <2>2, <2>3
<1>4. PoolOK'
  BY <1>1, <1>3, PoolKept
<1>5. ControlOK'
  BY <1>1 DEF Parse, ControlOK
<1> QED
  BY <1>4, <1>5, SameTypes DEF Parse, DataTypes

\* A task that locks or posts, or finds its store gone.
LEMMA TaskTypes ==
  ASSUME DataTypes, NEW t \in running, TaskStep(t)
  PROVE  DataTypes'
<1>1. ControlOK /\ PoolOK /\ StoresOK /\ t \in GoodTasks /\ events \in Seq(Events)
  BY DEF DataTypes, PoolOK
<1>2. Fits(t) /\ t.body \in Contents /\ t.n \in Nums /\ t.n \in Numbers
  BY <1>1, TaskFacts DEF Nums
<1>3. CASE Parse(t)
  BY <1>3, ParseTypes
<1>4. CASE UsesDestroyedStore(t)
  <2>1. ControlOK'
    BY <1>1, <1>4 DEF UsesDestroyedStore, ControlOK
  <2> QED
    BY <1>4, <2>1, SameTypes DEF UsesDestroyedStore, DataTypes
\* Steps that leave everything but the task and one part alone.
<1>5. ASSUME UNCHANGED <<control, events, queue_, models>>, Advances(t), StoresOK' PROVE DataTypes'
  <2>1. PoolOK'
    BY <1>1, <1>5, PoolKept
  <2> QED
    BY <1>5, <2>1, SameTypes DEF DataTypes
<1>6. ASSUME UNCHANGED <<control, queue_, stores, models>>, Advances(t), NEW e \in Events, Post(e) PROVE DataTypes'
  <2>1. PoolOK'
    BY <1>1, <1>6, PoolKept
  <2>2. events' \in Seq(Events)
    BY <1>1, <1>6, PostType
  <2> QED
    BY <1>6, <2>1, <2>2, SameTypes DEF DataTypes
<1>7. CASE StoreUrl(t)
  <2>1. t.kind = "camera" /\ t.at = "table" /\ t \in ListTasks /\ t.body.form = "ok" /\ t.left # <<>>
    BY <1>1, <1>2, <1>7, TaskFacts DEF StoreUrl, Locks, At, Fits
  <2>2. t.left \in Seq(Items) /\ Tail(t.left) \in Seq(Items) /\ <<>> \in Seq(Items)
    BY <2>1 DEF ListTasks
  <2>3. Len(t.left) # 1 => Tail(t.left) # <<>>
    <3>1. Len(t.left) # 1 => Len(Tail(t.left)) # 0
      BY <2>1, <2>2
    <3>2. Len(<<>>) = 0
      OBVIOUS
    <3> QED
      BY <3>1, <3>2, Zenon
  <2>4. Advances(t)
    <3>1. CASE Goes(t, "lock", <<>>)
      <4>1. [t EXCEPT !.at = "lock", !.left = <<>>] \in GoodTasks
        BY <1>1, <2>1, <2>2, ListAdvance
      <4> QED
        BY <3>1, <4>1, Zenon DEF Advances
    <3>2. CASE Len(t.left) # 1 /\ Goes(t, "table", Tail(t.left))
      <4>1. [t EXCEPT !.at = "table", !.left = Tail(t.left)] \in GoodTasks
        BY <1>1, <2>1, <2>2, <2>3, <3>2, ListAdvance
      <4> QED
        BY <3>2, <4>1, Zenon DEF Advances
    <3> QED
      BY <1>7, <3>1, <3>2 DEF StoreUrl
  <2>5. StoresOK'
    <3> DEFINE url == Url(Head(t.left), t.n)
    <3>1. table_' = [table_ EXCEPT ![CameraId(Head(t.left))].sourceUrl = url]
      BY <1>7 DEF StoreUrl
    <3>2. url \in Urls
      BY <1>2 DEF Url, Urls, Nums
    <3> HIDE DEF url
    <3> QED
      BY <1>1, <1>2, <1>7, <3>1, <3>2 DEF StoreUrl, StoresOK
  <2> QED
    BY <1>5, <1>7, <2>4, <2>5 DEF StoreUrl
<1>8. CASE StoreCameras(t)
  <2>1. t.kind = "camera" /\ t.body.form = "ok" /\ t.body.type = "CAMERA"
    BY <1>2, <1>8 DEF StoreCameras, Locks, At, Fits
  <2>2. t.body.list \in Seq(Items) /\ <<>> \in Seq(Items)
    BY <1>2, <2>1, PacketFacts
  <2>3. [t EXCEPT !.at = "post", !.left = <<>>] \in GoodTasks
    BY <1>1, <2>1, <2>2, ListAdvance
  <2>4. Advances(t)
    BY <1>8, <2>3, Zenon DEF StoreCameras, Advances
  <2>5. StoresOK'
    BY <1>1, <1>8, <2>2 DEF StoreCameras, StoresOK
  <2> QED
    BY <1>5, <1>8, <2>4, <2>5 DEF StoreCameras
<1>9. CASE PostCameras(t)
  <2>1. t.kind = "camera" /\ t.body.form = "ok" /\ t.body.type = "CAMERA"
    BY <1>2, <1>9 DEF PostCameras, At, Fits
  <2>2. t.body.list \in Seq(Items)
    BY <1>2, <2>1, PacketFacts
  <2>3. [type |-> "cameras", n |-> t.n, list |-> t.body.list] \in Events
    BY <1>2, <2>2 DEF Events
  <2>4. Advances(t)
    BY <1>9 DEF PostCameras, Advances
  <2> QED
    BY <1>6, <1>9, <2>3, <2>4 DEF PostCameras
\* META, AI with a count and IMAGE look for the cameras of an address.
<1>10. ASSUME t.kind \in {"meta", "count", "image"}, t.at # "parse"
       PROVE  /\ t \in FoundTasks /\ t.left \in Seq(Cameras) /\ t.body.form = "ok" /\ t.body.ip \in Ips
              /\ Matching(t.body.ip) \in Seq(Cameras)
              /\ t.at # "lock" => t.left # <<>> /\ Tail(t.left) \in Seq(Cameras) /\ Head(t.left) \in Cameras
              /\ t.at # "lock" /\ Len(t.left) # 1 => Tail(t.left) # <<>>
  <2>1. t \in FoundTasks
    BY <1>1, <1>10, TaskFacts
  <2>2. t.left \in Seq(Cameras) /\ t.at \in {"lock", "info", "post", "moved"}
    BY <1>10, <2>1 DEF FoundTasks
  <2>3. t.body.form = "ok" /\ t.body.type \in {"AI", "META", "IMAGE"} /\ (t.at # "lock" => t.left # <<>>)
    BY <1>2, <1>10, <2>2 DEF Fits
  <2>4. t.body.ip \in Ips
    BY <1>2, <2>3, PacketFacts
  <2>5. Matching(t.body.ip) \in Seq(Cameras)
    BY <1>1, MatchingType DEF StoresOK
  <2>6. t.at # "lock" => Tail(t.left) \in Seq(Cameras) /\ Head(t.left) \in Cameras
    BY <2>2, <2>3
  <2>7. t.at # "lock" /\ Len(t.left) # 1 => Tail(t.left) # <<>>
    <3>1. t.at # "lock" /\ Len(t.left) # 1 => Len(Tail(t.left)) # 0
      BY <2>2, <2>3
    <3>2. Len(<<>>) = 0
      OBVIOUS
    <3> QED
      BY <3>1, <3>2, Zenon
  <2> QED
    BY <2>1, <2>2, <2>3, <2>4, <2>5, <2>6, <2>7
<1>11. ASSUME t.kind \in {"meta", "count", "image"}, t.at # "parse",
              NEW at \in {"info", "post", "moved"}, NEW left \in Seq(Cameras), left # <<>>, Goes(t, at, left)
       PROVE  Advances(t)
  <2>1. [t EXCEPT !.at = at, !.left = left] \in GoodTasks
    BY <1>1, <1>10, <1>11, FoundAdvance
  <2> QED
    BY <1>11, <2>1, Zenon DEF Advances
<1>12. CASE FindSensorCameras(t) \/ FindCountCameras(t)
  <2>1. t.kind \in {"meta", "count", "image"} /\ t.at # "parse" /\ UNCHANGED <<control, events, queue_, stores, models>>
    BY <1>12 DEF FindSensorCameras, FindCountCameras, Locks, At
  <2>2. ASSUME Ends(t) PROVE Advances(t)
    BY <2>2 DEF Advances
  <2>3. ASSUME Matching(t.body.ip) # <<>> /\ Goes(t, "info", Matching(t.body.ip))
        PROVE  Advances(t)
    BY <1>10, <1>11, <2>1, <2>3
  <2>4. Advances(t)
    BY <1>12, <2>2, <2>3 DEF FindSensorCameras, FindCountCameras
  <2>5. StoresOK'
    BY <2>1, SameTypes
  <2> QED
    BY <1>5, <2>1, <2>4, <2>5
<1>13. CASE updateDeviceInfo(t)
  <2>1. t.kind \in {"meta", "count", "image"} /\ t.at \notin {"parse", "lock"} /\ Goes(t, "post", t.left)
    BY <1>13 DEF updateDeviceInfo, Locks, At
  <2>2. Advances(t)
    BY <1>10, <1>11, <2>1
  <2>3. StoresOK'
    <3>1. table_' = [table_ EXCEPT ![Head(t.left)].deviceInfo = t.n]
      BY <1>13 DEF updateDeviceInfo
    <3> QED
      BY <1>1, <1>2, <1>13, <3>1 DEF updateDeviceInfo, StoresOK
  <2> QED
    BY <1>5, <1>13, <2>2, <2>3 DEF updateDeviceInfo
<1>14. CASE updateAiInfo(t)
  <2>1. t.kind \in {"meta", "count", "image"} /\ t.at \notin {"parse", "lock"}
    BY <1>14 DEF updateAiInfo, Locks, At
  <2>2. ASSUME Ends(t) PROVE Advances(t)
    BY <2>2 DEF Advances
  <2>3. ASSUME Len(t.left) # 1 /\ Goes(t, "info", Tail(t.left))
        PROVE  Advances(t)
    BY <1>10, <1>11, <2>1, <2>3
  <2>4. Advances(t)
    BY <1>14, <2>2, <2>3 DEF updateAiInfo
  <2>5. StoresOK'
    <3>1. table_' = [table_ EXCEPT ![Head(t.left)].aiInfo = t.n]
      BY <1>14 DEF updateAiInfo
    <3> QED
      BY <1>1, <1>2, <1>14, <3>1 DEF updateAiInfo, StoresOK
  <2> QED
    BY <1>5, <1>14, <2>4, <2>5 DEF updateAiInfo
<1>15. CASE PostSensor(t)
  <2>1. t.kind \in {"meta", "count", "image"} /\ t.at \notin {"parse", "lock"}
    BY <1>15 DEF PostSensor, At
  <2>2. ASSUME Ends(t) PROVE Advances(t)
    BY <2>2 DEF Advances
  <2>3. ASSUME Len(t.left) # 1 /\ Goes(t, "info", Tail(t.left))
        PROVE  Advances(t)
    BY <1>10, <1>11, <2>1, <2>3
  <2>4. Advances(t)
    BY <1>15, <2>2, <2>3 DEF PostSensor
  <2>5. Head(t.left) \in Cameras
    BY <1>10, <2>1
  <2>6. [type |-> "sensor", n |-> t.n, id |-> Head(t.left)] \in Events
    BY <1>2, <2>5 DEF Events
  <2> QED
    BY <1>6, <1>15, <2>4, <2>6 DEF PostSensor
<1>16. CASE FindImageCameras(t)
  <2> DEFINE L == matchedIds(t.body.ip)
  <2>1. t.kind \in {"meta", "count", "image"} /\ t.at # "parse" /\ Goes(t, "post", L)
    BY <1>16 DEF FindImageCameras, Locks, At
  <2>2. t.body.ip \in Ips /\ data_ \in Seq(Items)
    BY <1>10, <2>1 DEF DataTypes, StoresOK
  <2>3. L \in Seq(Cameras) /\ Len(L) # 0
    BY <2>2, MatchedType
  <2> HIDE DEF L
  <2>4. L # <<>>
    BY <2>3
  <2>5. Advances(t)
    BY <1>11, <2>1, <2>3, <2>4
  <2>6. StoresOK'
    BY <1>16, SameTypes DEF FindImageCameras
  <2> QED
    BY <1>5, <1>16, <2>5, <2>6 DEF FindImageCameras
<1>17. ASSUME NEW at \in {"post", "moved"}, PostImage(t, at) PROVE DataTypes'
  <2> DEFINE x == [type |-> "image", n |-> t.n, id |-> Head(t.left), picture |-> at = "post"]
  <2>1. t.kind \in {"meta", "count", "image"} /\ t.at \notin {"parse", "lock"} /\ Post(x)
    BY <1>17 DEF PostImage, At
  <2>2. ASSUME Ends(t) PROVE Advances(t)
    BY <2>2 DEF Advances
  <2>3. ASSUME Len(t.left) # 1 /\ Goes(t, "moved", Tail(t.left))
        PROVE  Advances(t)
    BY <1>10, <1>11, <2>1, <2>3
  <2>4. Advances(t)
    BY <1>17, <2>2, <2>3 DEF PostImage
  <2>5. Head(t.left) \in Cameras
    BY <1>10, <2>1
  <2>6. x \in Events
    BY <1>2, <2>5 DEF Events
  <2> HIDE DEF x
  <2> QED
    BY <1>6, <1>17, <2>1, <2>4, <2>6 DEF PostImage
<1>18. CASE StoreDevices(t)
  <2>1. t.kind \in {"device", "available"} /\ t.at = "lock" /\ t.body.form = "ok"
    BY <1>2, <1>18 DEF StoreDevices, Locks, At, Fits
  <2>2. devices_' = IF t.kind = "device" THEN CameraMerge(t.body.list) ELSE AvailableMerge(t.body.ips, t.n)
    BY <1>18 DEF StoreDevices
  <2>3. devices_ \in Snapshots
    BY <1>1 DEF StoresOK
  <2>4. devices_' \in Snapshots
    <3>1. CASE t.kind = "device"
      <4>1. t.body.list \in Seq(Items)
        BY <1>2, <2>1, <3>1, PacketFacts DEF Fits
      <4> QED
        BY <2>2, <2>3, <3>1, <4>1, CameraMergeFacts
    <3>2. CASE t.kind = "available"
      <4>1. t.body.ips \in Seq(Ips)
        BY <1>2, <2>1, <3>2, PacketFacts DEF Fits
      <4> QED
        BY <1>2, <2>2, <2>3, <3>2, <4>1, AvailableMergeFacts
    <3> QED
      BY <2>1, <3>1, <3>2
  <2>5. version' = version + 1 /\ version' \in Nat
    BY <1>1, <1>18 DEF StoreDevices, StoresOK
  <2>6. reading' \in [Ips -> Numbers]
    BY <1>1, <1>2, <1>18 DEF StoreDevices, StoresOK
  <2>7. StoresOK'
    BY <1>1, <1>18, <2>4, <2>5, <2>6 DEF StoreDevices, StoresOK
  <2>8. Advances(t)
    <3> DEFINE copy == <<version', devices_'>>
    <3>1. copy \in Nat \X Snapshots /\ Goes(t, "post", copy)
      BY <1>18, <2>4, <2>5 DEF StoreDevices
    <3> HIDE DEF copy
    <3>2. [t EXCEPT !.at = "post", !.left = copy] \in GoodTasks
      BY <1>1, <2>1, <3>1, DeviceAdvance
    <3> QED
      BY <3>1, <3>2, Zenon DEF Advances
  <2> QED
    BY <1>5, <1>18, <2>7, <2>8 DEF StoreDevices
<1>19. CASE PostDevices(t)
  <2> DEFINE x == [type |-> "devices", version |-> t.left[1], snapshot |-> t.left[2]]
  <2>1. t.kind \in {"device", "available"} /\ t.at = "post" /\ Post(x)
    BY <1>19 DEF PostDevices, At
  <2>2. t \in CopyTasks
    BY <1>1, <2>1, TaskFacts
  <2>3. t.left \in Nat \X Snapshots
    BY <2>2 DEF CopyTasks
  <2>4. x \in Events
    BY <2>3 DEF Events
  <2> HIDE DEF x
  <2>5. Advances(t)
    BY <1>19 DEF PostDevices, Advances
  <2> QED
    BY <1>6, <1>19, <2>1, <2>4, <2>5 DEF PostDevices
<1>20. ASSUME t.kind = "server", t.at # "parse" PROVE t.body.form = "ok" /\ t.body.server \in BOOLEAN /\ ServerPart(t) \in Numbers
  <2>1. t.body.form = "ok" /\ t.body.type = "AVAILABLE"
    BY <1>2, <1>20 DEF Fits
  <2>2. t.body.server \in BOOLEAN
    BY <1>2, <2>1, PacketFacts
  <2>3. 0 \in Numbers
    BY DataAssumption DEF Numbers
  <2> QED
    BY <1>2, <2>1, <2>2, <2>3 DEF ServerPart
<1>21. CASE StoreServer(t)
  <2> DEFINE h == status_.history_
             a == Appended(h, t.n, MAX_STATUS_HISTORY)
  <2>1. /\ t.kind = "server" /\ t.at = "lock" /\ Goes(t, "post", <<>>)
        /\ status_' = [devices |-> t.n, server |-> ServerPart(t), history_ |-> IF t.body.server THEN a ELSE h]
    BY <1>21 DEF StoreServer, Locks, At
  <2>2. h \in History(MAX_STATUS_HISTORY) /\ MAX_STATUS_HISTORY \in Nat \ {0}
    BY <1>1, DataAssumption DEF StoresOK
  <2>3. a \in History(MAX_STATUS_HISTORY)
    BY <1>2, <2>2, AppendedFacts DEF History, Nums
  <2>4. t.body.form = "ok" /\ ServerPart(t) \in Numbers
    BY <1>20, <2>1
  <2> HIDE DEF a, h
  <2>5. status_' \in [devices : Numbers, server : Numbers, history_ : History(MAX_STATUS_HISTORY)]
    BY <1>2, <2>1, <2>2, <2>3, <2>4
  <2>6. StoresOK'
    BY <1>1, <1>21, <2>5 DEF StoreServer, StoresOK
  <2>7. [t EXCEPT !.at = "post", !.left = <<>>] \in GoodTasks
    BY <1>1, <2>1, <2>4, PlainAdvance
  <2>8. Advances(t)
    BY <2>1, <2>7, Zenon DEF Advances
  <2> QED
    BY <1>5, <1>21, <2>6, <2>8 DEF StoreServer
<1>22. CASE PostServer(t)
  <2> DEFINE x == [type |-> "server", n |-> t.n, server |-> ServerPart(t)]
  <2>1. t.kind = "server" /\ t.at = "post" /\ Post(x)
    BY <1>22 DEF PostServer, At
  <2>2. ServerPart(t) \in Numbers
    BY <1>20, <2>1
  <2>3. x \in Events
    BY <1>2, <2>2 DEF Events
  <2> HIDE DEF x
  <2>4. Advances(t)
    BY <1>22 DEF PostServer, Advances
  <2> QED
    BY <1>6, <1>22, <2>1, <2>3, <2>4 DEF PostServer
<1>23. CASE PostAlarm(t)
  <2> DEFINE x == [type |-> "alarm", n |-> t.n]
  <2>1. x \in Events
    BY <1>2 DEF Events
  <2>2. Post(x)
    BY <1>23 DEF PostAlarm
  <2> HIDE DEF x
  <2>3. Advances(t)
    BY <1>23 DEF PostAlarm, Advances
  <2> QED
    BY <1>6, <1>23, <2>1, <2>2, <2>3 DEF PostAlarm
<1> QED
  BY <1>3, <1>4, <1>7, <1>8, <1>9, <1>12, <1>13, <1>14, <1>15, <1>16, <1>17, <1>18, <1>19,
     <1>21, <1>22, <1>23 DEF TaskStep

\* Nothing has come yet.
LEMMA DataInit == Init => DataTypes
<1> SUFFICES ASSUME Init PROVE DataTypes
  OBVIOUS
<1>1. 0 \in Numbers /\ 0 \in 0..MaxLogouts /\ {MAX_STATUS_HISTORY, MAX_SERVER_HISTORY, MAX_EVENTS_PER_CAMERA} \subseteq Nat
      /\ 0 <= Threads /\ 0 <= kMaxAlarms
  BY DataAssumption DEF Numbers
<1>2. ASSUME NEW T, NEW max \in Nat PROVE <<>> \in BoundedSeq(T, max)
  <2>1. Len(<<>>) = 0 /\ <<>> \in Seq(T) /\ 0 <= max
    OBVIOUS
  <2> QED
    BY <2>1, Bounded
<1>3. ControlOK
  BY <1>1 DEF Init, ControlOK
<1>4. events \in Seq(Events)
  BY DEF Init
<1>5. PoolOK
  <2>1. queue_ = <<>> /\ running = {}
    BY DEF Init
  <2>2. IsFiniteSet({}) /\ Cardinality({}) = 0
    BY FS_EmptySet
  <2> QED
    BY <1>1, <2>1, <2>2 DEF PoolOK
<1>6. StoresOK
  <2>1. table_ \in [Cameras -> [sourceUrl : Urls, deviceInfo : Numbers, aiInfo : Numbers]]
    BY <1>1 DEF Init, Urls
  <2>2. <<>> \in History(MAX_STATUS_HISTORY)
    BY <1>1, <1>2 DEF History
  <2>3. status_ \in [devices : Numbers, server : Numbers, history_ : History(MAX_STATUS_HISTORY)]
    BY <1>1, <2>2 DEF Init
  <2>4. data_ \in Seq(Items) /\ devices_ \in Snapshots
    BY DEF Init, Snapshots
  <2> QED
    BY <1>1, <2>1, <2>3, <2>4 DEF Init, StoresOK
<1>7. ModelsOK
  <2>1. cameras \in [Cameras -> [shown : {"absent", "online", "offline"}, sensor : Numbers]]
    BY <1>1 DEF Init, Absent
  <2>2. <<>> \in History(MAX_SERVER_HISTORY)
    BY <1>1, <1>2 DEF History
  <2>3. server \in [devices : Numbers, server : Numbers, serverHistory_ : History(MAX_SERVER_HISTORY)]
    BY <1>1, <2>2 DEF Init
  <2>4. deviceRows \in Snapshots /\ alarms_ \in Seq([id : Nat, n : Nums]) /\ Len(alarms_) = 0
    BY DEF Init, Snapshots
  <2>5. images \in [Cameras -> BoundedSeq([n : Numbers, picture : BOOLEAN], MAX_EVENTS_PER_CAMERA)]
    <3> DEFINE B == BoundedSeq([n : Numbers, picture : BOOLEAN], MAX_EVENTS_PER_CAMERA)
    <3>1. <<>> \in B
      BY <1>1, <1>2
    <3> HIDE DEF B
    <3>2. images \in [Cameras -> B]
      BY <3>1 DEF Init
    <3> QED
      BY <3>2 DEF B
  <2> QED
    BY <1>1, <2>1, <2>3, <2>4, <2>5 DEF Init, ModelsOK
<1> QED
  BY <1>3, <1>4, <1>5, <1>6, <1>7 DEF DataTypes

\* Every step keeps the types.
LEMMA DataStep == DataTypes /\ [Next]_vars => DataTypes'
<1> SUFFICES ASSUME DataTypes, [Next]_vars PROVE DataTypes'
  OBVIOUS
<1>1. CASE UNCHANGED vars
  BY <1>1, SameTypes DEF DataTypes, vars
<1>2. CASE Next
  BY <1>2, GuiTypes, UserTypes, PoolTypes, TaskTypes DEF Next, PoolStep
<1> QED
  BY <1>1, <1>2

\* The types hold in every behaviour.
LEMMA TypesInvariant == Spec => []DataTypes
<1> QED
  BY DataInit, DataStep, PTL DEF Spec

\* What the pool, the stores and the models hold has its type and keeps to its bound:
\* at most Threads tasks run, and no history, image list or alarm list outgrows its
\* maximum, whatever mix of packets, logouts and shutdown it has been through.
THEOREM DataTypeCorrect == Spec => []TypeOK
<1>1. DataTypes => TypeOK
  <2> SUFFICES ASSUME DataTypes PROVE TypeOK
    OBVIOUS
  <2>1. ControlOK /\ PoolOK /\ StoresOK /\ ModelsOK
    BY DEF DataTypes
  <2>2. ASSUME NEW q \in Snapshots, NEW d \in Range(q) PROVE d \in Device
    BY DEF Range, Snapshots
  <2>3. \A d \in Range(devices_) \union Range(deviceRows) : d \in Device
    BY <2>1, <2>2 DEF StoresOK, ModelsOK
  <2>4. \A c \in Cameras : images[c] \in BoundedSeq([n : Numbers, picture : BOOLEAN], MAX_EVENTS_PER_CAMERA)
    BY <2>1 DEF ModelsOK
  <2>5. status_.history_ \in History(MAX_STATUS_HISTORY) /\ server.serverHistory_ \in History(MAX_SERVER_HISTORY)
    BY <2>1 DEF StoresOK, ModelsOK
  <2>6. lone \in {<<>>} \union ((Numbers \ {0}) \X Contents \X BOOLEAN)
    BY <2>1 DEF ControlOK, Nums
  <2> QED
    BY <2>1, <2>3, <2>4, <2>5, <2>6 DEF TypeOK, ControlOK, PoolOK, StoresOK, ModelsOK
<1> QED
  BY <1>1, TypesInvariant, PTL

-------------------------------------------------------------------------------
(* Where events and tasks come from *)

CamerasCall(t) == [type |-> "cameras", n |-> t.n, list |-> t.body.list]
DevicesCall(t) == [type |-> "devices", version |-> t.left[1], snapshot |-> t.left[2]]

\* What waits for the GUI thread was there before or is what x stands for.
OldOrNew(x) == \A i \in DOMAIN events' : events'[i] = x \/ \E k \in DOMAIN events : events'[i] = events[k]

\* The queue without its head, and the queue with a call posted.
LEMMA QueueSteps ==
  ASSUME events \in Seq(Events), NEW x \in Events
  PROVE  /\ events' = events => OldOrNew(x)
         /\ events' = <<>> => OldOrNew(x)
         /\ events # <<>> /\ events' = Tail(events) => OldOrNew(x)
         /\ events # <<>> /\ events' = Append(Tail(events), x) => OldOrNew(x)
         /\ events' = Append(events, x) => OldOrNew(x)
         /\ Post(x) => OldOrNew(x)
<1>1. events' = events => OldOrNew(x)
  BY DEF OldOrNew
<1>2. events' = <<>> => OldOrNew(x)
  BY DEF OldOrNew
<1>3. ASSUME events # <<>>
      PROVE  /\ \A i \in DOMAIN Tail(events) : \E k \in DOMAIN events : Tail(events)[i] = events[k]
             /\ Tail(events) \in Seq(Events)
  <2>1. /\ Len(events) \in Nat /\ DOMAIN events = 1..Len(events) /\ DOMAIN Tail(events) = 1..(Len(events) - 1)
        /\ \A n \in DOMAIN Tail(events) : Tail(events)[n] = events[n + 1]
    BY <1>3, QueueFacts
  <2>2. \A n \in DOMAIN Tail(events) : n + 1 \in DOMAIN events
    BY <2>1
  <2>3. Tail(events) \in Seq(Events)
    BY <1>3
  <2> QED
    BY <2>1, <2>2, <2>3
<1>4. ASSUME NEW q \in Seq(Events) PROVE \A i \in DOMAIN Append(q, x) : Append(q, x)[i] = x \/ (i \in DOMAIN q /\ Append(q, x)[i] = q[i])
  <2>1. /\ Len(q) \in Nat /\ DOMAIN q = 1..Len(q) /\ DOMAIN Append(q, x) = 1..(Len(q) + 1)
        /\ Append(q, x)[Len(q) + 1] = x /\ \A n \in DOMAIN q : Append(q, x)[n] = q[n]
    BY QueueFacts
  <2>2. \A i \in 1..(Len(q) + 1) : i \in 1..Len(q) \/ i = Len(q) + 1
    BY <2>1
  <2> QED
    BY <2>1, <2>2
<1>5. events # <<>> /\ events' = Tail(events) => OldOrNew(x)
  BY <1>3 DEF OldOrNew
<1>6. events' = Append(events, x) => OldOrNew(x)
  BY <1>4 DEF OldOrNew
<1>7. events # <<>> /\ events' = Append(Tail(events), x) => OldOrNew(x)
  <2> SUFFICES ASSUME events # <<>>, events' = Append(Tail(events), x), NEW i \in DOMAIN events'
               PROVE  events'[i] = x \/ \E k \in DOMAIN events : events'[i] = events[k]
    BY DEF OldOrNew
  <2>1. events'[i] = x \/ (i \in DOMAIN Tail(events) /\ events'[i] = Tail(events)[i])
    BY <1>3, <1>4
  <2> QED
    BY <1>3, <2>1
<1>8. Post(x) => OldOrNew(x)
  BY <1>1, <1>6 DEF Post
<1> QED
  BY <1>1, <1>2, <1>5, <1>6, <1>7, <1>8

\* A call about the cameras or the devices is posted by a task that is ready to.
Posts(i) ==
  \/ events'[i].type \notin {"cameras", "devices"}
  \/ \E k \in DOMAIN events : events'[i] = events[k]
  \/ \E t \in running : PostCameras(t) /\ events'[i] = CamerasCall(t)
  \/ \E t \in running : PostDevices(t) /\ events'[i] = DevicesCall(t)

\* No step adds another.
LEMMA Posted ==
  ASSUME DataTypes, [Next]_vars, NEW i \in DOMAIN events'
  PROVE  Posts(i)
<1>1. events \in Seq(Events) /\ PoolOK
  BY DEF DataTypes
<1>2. ASSUME NEW x \in Events, OldOrNew(x), x.type \notin {"cameras", "devices"} PROVE Posts(i)
  BY <1>2 DEF OldOrNew, Posts
<1>4. CASE events' = events
  BY <1>4 DEF Posts
<1>5. CASE events' = <<>>
  BY <1>5
<1>6. CASE events # <<>> /\ events' = Tail(events)
  <2>1. /\ DOMAIN events = 1..Len(events) /\ DOMAIN Tail(events) = 1..(Len(events) - 1) /\ Len(events) \in Nat
        /\ \A n \in DOMAIN Tail(events) : Tail(events)[n] = events[n + 1]
    BY <1>1, <1>6, QueueFacts
  <2>2. i + 1 \in DOMAIN events /\ events'[i] = events[i + 1]
    BY <1>6, <2>1
  <2> QED
    BY <2>2 DEF Posts
<1>7. CASE packetReceived
  <2> DEFINE e == Head(events)
             x == [e EXCEPT !.type = "pending"]
  <2>1. e \in Events /\ e.type = "packet" /\ events # <<>>
    BY <1>1, <1>7, HandlingFacts DEF packetReceived, Handling
  <2>2. events' = Append(Tail(events), x) \/ events' = Tail(events)
    BY <1>7 DEF packetReceived
  <2> HIDE DEF e
  <2>3. e \in PacketEvents
    BY <2>1, EventFacts DEF PacketEvents
  <2>4. x \in PacketEvents /\ x.type = "pending"
    BY <2>3 DEF PacketEvents
  <2>5. x \in Events
    BY <2>4 DEF PacketEvents, Events
  <2> HIDE DEF x
  <2>6. OldOrNew(x)
    BY <1>1, <2>1, <2>2, <2>5, QueueSteps
  <2> QED
    BY <1>2, <2>4, <2>5, <2>6
<1>8. CASE GuiStep /\ ~packetReceived
  <2>1. events # <<>> /\ events' = Tail(events)
    BY <1>8 DEF GuiStep, camerasUpdated, updateSensorInfo, devicesUpdated, serverUpdated, onPendingListReceived,
       onImageReceivedBase64, onAlarm, Handling
  <2> QED
    BY <1>6, <2>1
<1>9. ASSUME NEW p \in Contents, Receive(p) PROVE Posts(i)
  <2> DEFINE k == received + 1
             x == [type |-> "packet", n |-> k, body |-> p]
  <2>1. events' = Append(events, x)
    BY <1>9 DEF Receive
  <2>2. k \in Nums
    <3>1. received \in 0..MaxPackets /\ received < MaxPackets /\ MaxPackets \in Nat
      BY <1>9, DataAssumption DEF Receive, DataTypes, ControlOK, Numbers
    <3> QED
      BY <3>1 DEF Nums, Numbers
  <2> HIDE DEF k
  <2>3. x \in Events /\ x.type = "packet"
    BY <2>2 DEF Events
  <2> HIDE DEF x
  <2>4. OldOrNew(x)
    BY <1>1, <2>1, <2>3, QueueSteps
  <2> QED
    BY <1>2, <2>3, <2>4
<1>10. CASE User
  <2>1. events' = events \/ events' = <<>>
    BY <1>10 DEF User, Login, logoutRequested, dismiss, Quit
  <2> QED
    BY <1>4, <1>5, <2>1
<1>11. CASE StartTask \/ ShutdownStep \/ Gone \/ UNCHANGED vars
  <2>1. events' = events
    BY <1>11 DEF StartTask, ShutdownStep, Disconnected, ResetStore, PoolJoined, Gone, vars
  <2> QED
    BY <1>4, <2>1
<1>12. ASSUME NEW t \in running, TaskStep(t) PROVE Posts(i)
  <2>1. t \in GoodTasks
    BY <1>1 DEF PoolOK
  <2>2. t.n \in Nums /\ t.body \in Contents /\ Fits(t)
    BY <2>1, TaskFacts
  <2>3. CASE PostCameras(t)
    <3>1. t.body.form = "ok" /\ t.body.type = "CAMERA"
      BY <2>2, <2>3 DEF PostCameras, At, Fits
    <3>2. t.body.list \in Seq(Items)
      BY <2>2, <3>1, PacketFacts
    <3>3. CamerasCall(t) \in Events
      BY <2>2, <3>2 DEF CamerasCall, Events
    <3>4. Post(CamerasCall(t))
      BY <2>3 DEF PostCameras, CamerasCall
    <3>5. OldOrNew(CamerasCall(t))
      BY <1>1, <3>3, <3>4, QueueSteps
    <3> QED
      BY <2>3, <3>5, Zenon DEF OldOrNew, Posts
  <2>4. CASE PostDevices(t)
    <3>1. t \in CopyTasks
      BY <2>1, <2>4, TaskFacts DEF PostDevices, At
    <3>2. t.left \in Nat \X Snapshots
      BY <3>1 DEF CopyTasks
    <3>3. DevicesCall(t) \in Events
      BY <3>2 DEF DevicesCall, Events
    <3>4. Post(DevicesCall(t))
      BY <2>4 DEF PostDevices, DevicesCall
    <3>5. OldOrNew(DevicesCall(t))
      BY <1>1, <3>3, <3>4, QueueSteps
    <3> QED
      BY <2>4, <3>5, Zenon DEF OldOrNew, Posts
  \* The other calls have other types.
  <2>5. ASSUME NEW x, x.type \notin {"cameras", "devices"}, Post(x) PROVE Posts(i)
    <3>1. CASE events' = events
      BY <1>4, <3>1
    <3>2. CASE events' = Append(events, x)
      <4>1. i = Len(events) + 1 \/ i \in DOMAIN events
        BY <1>1, <3>2
      <4>2. i = Len(events) + 1 => events'[i] = x
        BY <1>1, <3>2
      <4>3. i \in DOMAIN events => events'[i] = events[i]
        BY <1>1, <3>2
      <4> QED
        BY <2>5, <4>1, <4>2, <4>3 DEF Posts
    <3> QED
      BY <2>5, <3>1, <3>2 DEF Post
  <2>6. CASE PostSensor(t)
    <3> DEFINE x == [type |-> "sensor", n |-> t.n, id |-> Head(t.left)]
    <3>1. Post(x) /\ x.type \notin {"cameras", "devices"}
      BY <2>6 DEF PostSensor
    <3> HIDE DEF x
    <3> QED
      BY <2>5, <3>1
  <2>7. ASSUME NEW at, PostImage(t, at) PROVE Posts(i)
    <3> DEFINE x == [type |-> "image", n |-> t.n, id |-> Head(t.left), picture |-> at = "post"]
    <3>1. Post(x) /\ x.type \notin {"cameras", "devices"}
      BY <2>7 DEF PostImage
    <3> HIDE DEF x
    <3> QED
      BY <2>5, <3>1
  <2>8. CASE PostServer(t)
    <3> DEFINE x == [type |-> "server", n |-> t.n, server |-> ServerPart(t)]
    <3>1. Post(x) /\ x.type \notin {"cameras", "devices"}
      BY <2>8 DEF PostServer
    <3> HIDE DEF x
    <3> QED
      BY <2>5, <3>1
  <2>9. CASE PostAlarm(t)
    <3> DEFINE x == [type |-> "alarm", n |-> t.n]
    <3>1. Post(x) /\ x.type \notin {"cameras", "devices"}
      BY <2>9 DEF PostAlarm
    <3> HIDE DEF x
    <3> QED
      BY <2>5, <3>1
  <2>10. CASE \/ Parse(t) \/ UsesDestroyedStore(t) \/ StoreUrl(t) \/ StoreCameras(t) \/ FindSensorCameras(t)
              \/ updateDeviceInfo(t) \/ FindCountCameras(t) \/ updateAiInfo(t) \/ FindImageCameras(t)
              \/ StoreDevices(t) \/ StoreServer(t)
    <3>1. events' = events
      BY <2>10 DEF Parse, UsesDestroyedStore, StoreUrl, StoreCameras, FindSensorCameras, updateDeviceInfo,
         FindCountCameras, updateAiInfo, FindImageCameras, StoreDevices, StoreServer
    <3> QED
      BY <1>4, <3>1
  <2> QED
    BY <1>12, <2>3, <2>4, <2>6, <2>7, <2>8, <2>9, <2>10 DEF TaskStep
<1> QED
  BY <1>7, <1>8, <1>9, <1>10, <1>11, <1>12 DEF Next, PoolStep

-------------------------------------------------------------------------------
(* Every camera shown has a url *)

HasUrl(c) == table_[c].sourceUrl # 0

\* The task of a list has stored the urls of all its items but those that are left,
\* and a list on its way to CameraModel has all of them in table_.
UrlInv ==
  /\ \A c \in Cameras : cameras[c] # Absent => HasUrl(c)
  /\ \A t \in running : t.kind = "camera" /\ t.at # "parse" =>
       \A c \in Listed(t.body.list) : (t.at = "table" /\ c \in Listed(t.left)) \/ HasUrl(c)
  /\ \A i \in DOMAIN events : events[i].type = "cameras" =>
       \A c \in Listed(events[i].list) : HasUrl(c)

\* The cameras of a list.
LEMMA ListedFacts ==
  ASSUME NEW list \in Seq(Items)
  PROVE  /\ Listed(list) \in SUBSET Cameras
         /\ list = <<>> => Listed(list) = {}
         /\ list # <<>> => \A c \in Listed(list) : c = CameraId(Head(list)) \/ c \in Listed(Tail(list))
         /\ Len(list) = 1 => Listed(Tail(list)) = {}
<1>1. Len(list) \in Nat /\ DOMAIN list = 1..Len(list) /\ \A i \in 1..Len(list) : list[i] \in Items
  OBVIOUS
<1>2. ASSUME NEW c \in Listed(list) PROVE \E i \in 1..Len(list) : c = CameraId(list[i])
  BY <1>1 DEF Listed, Range
<1>3. Listed(list) \in SUBSET Cameras
  BY <1>1, <1>2, CameraIds
<1>4. list = <<>> => Listed(list) = {}
  BY DEF Listed, Range
<1>5. ASSUME list # <<>>, NEW c \in Listed(list) PROVE c = CameraId(Head(list)) \/ c \in Listed(Tail(list))
  <2>1. PICK i \in 1..Len(list) : c = CameraId(list[i])
    BY <1>2, <1>5
  <2>2. /\ Head(list) = list[1] /\ DOMAIN Tail(list) = 1..(Len(list) - 1)
        /\ \A n \in DOMAIN Tail(list) : Tail(list)[n] = list[n + 1]
    BY <1>5, QueueFacts
  <2>3. CASE i = 1
    BY <2>1, <2>2, <2>3
  <2>4. CASE i # 1
    <3>1. i - 1 \in DOMAIN Tail(list) /\ (i - 1) + 1 = i
      BY <1>1, <2>2, <2>4
    <3>2. Tail(list)[i - 1] = list[i]
      BY <2>2, <3>1
    <3>3. list[i] \in Range(Tail(list))
      BY <3>1, <3>2 DEF Range
    <3> QED
      BY <2>1, <3>3 DEF Listed
  <2> QED
    BY <2>3, <2>4
<1>6. Len(list) = 1 => Listed(Tail(list)) = {}
  <2> SUFFICES ASSUME Len(list) = 1 PROVE Listed(Tail(list)) = {}
    OBVIOUS
  <2>1. list # <<>>
    OBVIOUS
  <2>2. DOMAIN Tail(list) = 1..(Len(list) - 1)
    BY <2>1, QueueFacts
  <2>3. DOMAIN Tail(list) = {}
    BY <2>2
  <2> QED
    BY <2>3 DEF Listed, Range
<1> QED
  BY <1>3, <1>4, <1>5, <1>6

\* A url is only ever written by the task of a list, for the item it has come to.
LEMMA UrlWritten ==
  ASSUME DataTypes, [Next]_vars, NEW c \in Cameras
  PROVE  \/ table_'[c].sourceUrl = table_[c].sourceUrl
         \/ \E t \in running : /\ StoreUrl(t) /\ c = CameraId(Head(t.left))
                               /\ table_'[c].sourceUrl = Url(Head(t.left), t.n)
<1>1. table_ \in [Cameras -> [sourceUrl : Urls, deviceInfo : Numbers, aiInfo : Numbers]]
  BY DEF DataTypes, StoresOK
<1>2. ASSUME NEW t \in running, StoreUrl(t)
      PROVE  \/ table_'[c].sourceUrl = table_[c].sourceUrl
             \/ c = CameraId(Head(t.left)) /\ table_'[c].sourceUrl = Url(Head(t.left), t.n)
  <2> DEFINE h == CameraId(Head(t.left))
             url == Url(Head(t.left), t.n)
  <2>1. table_' = [table_ EXCEPT ![h].sourceUrl = url]
    BY <1>2 DEF StoreUrl
  <2> HIDE DEF h, url
  <2>2. c \in DOMAIN table_
    BY <1>1
  <2>3. c = h => table_'[c].sourceUrl = url
    BY <1>1, <2>1, <2>2
  <2>4. c # h => table_'[c] = table_[c]
    BY <1>1, <2>1, <2>2
  <2> QED
    BY <2>3, <2>4 DEF h, url
<1>3. ASSUME NEW t \in running, updateDeviceInfo(t) \/ updateAiInfo(t)
      PROVE  table_'[c].sourceUrl = table_[c].sourceUrl
  <2>1. CASE updateDeviceInfo(t)
    <3>1. table_' = [table_ EXCEPT ![Head(t.left)].deviceInfo = t.n]
      BY <2>1 DEF updateDeviceInfo
    <3> QED
      BY <1>1, <3>1
  <2>2. CASE updateAiInfo(t)
    <3>1. table_' = [table_ EXCEPT ![Head(t.left)].aiInfo = t.n]
      BY <2>2 DEF updateAiInfo
    <3> QED
      BY <1>1, <3>1
  <2> QED
    BY <1>3, <2>1, <2>2
<1>4. ASSUME NEW t \in running, TaskStep(t), ~(StoreUrl(t) \/ updateDeviceInfo(t) \/ updateAiInfo(t))
      PROVE  table_' = table_
  BY <1>4 DEF TaskStep, Parse, UsesDestroyedStore, StoreCameras, PostCameras, FindSensorCameras, PostSensor,
     FindCountCameras, FindImageCameras, PostImage, StoreDevices, PostDevices, StoreServer, PostServer, PostAlarm,
     stores
<1>5. GuiStep => table_' = table_
  BY DEF GuiStep, packetReceived, camerasUpdated, updateSensorInfo, devicesUpdated, serverUpdated,
     onPendingListReceived, onImageReceivedBase64, onAlarm, stores
<1>6. User \/ (\E p \in Contents : Receive(p)) \/ StartTask \/ ShutdownStep \/ Gone \/ UNCHANGED vars
        => table_' = table_
  BY DEF User, Login, logoutRequested, dismiss, Quit, Receive, StartTask, ShutdownStep, Disconnected, ResetStore,
     PoolJoined, Gone, vars, stores
<1> QED
  BY <1>2, <1>3, <1>4, <1>5, <1>6 DEF Next, PoolStep

\* Nothing takes an entry away: table_ is only added to.
LEMMA UrlKept ==
  ASSUME DataTypes, [Next]_vars, NEW c \in Cameras, HasUrl(c)
  PROVE  HasUrl(c)'
<1>1. ASSUME NEW t \in running PROVE Url(Head(t.left), t.n) # 0
  <2>1. t \in GoodTasks
    BY DEF DataTypes, PoolOK
  <2>2. t.n \in Nums
    BY <2>1, TaskFacts
  <2> QED
    BY <2>2, DataAssumption DEF Url, Nums, Numbers
<1> QED
  BY <1>1, UrlWritten DEF HasUrl

\* The tasks of the next state: those of before, one taken from the queue, or the one
\* that has made a step.
LEMMA NewTasks ==
  ASSUME DataTypes, [Next]_vars, NEW u \in running'
  PROVE  \/ u \in running \/ (u.at = "parse" /\ u \in Range(queue_))
         \/ \E t \in running : TaskStep(t) /\ u.kind = t.kind /\ u.body = t.body /\ u.n = t.n /\ Goes(t, u.at, u.left)
<1>1. PoolOK
  BY DEF DataTypes
<1>2. CASE running' = running
  BY <1>2
<1>3. CASE StartTask
  <2>1. running' = running \cup {Head(queue_)} /\ queue_ # <<>>
    BY <1>3 DEF StartTask
  <2>2. Head(queue_) \in FreshTasks /\ Head(queue_) \in Range(queue_)
    BY <1>1, <2>1, RangeFacts DEF PoolOK
  <2> QED
    BY <2>1, <2>2 DEF FreshTasks
<1>4. ASSUME NEW t \in running, TaskStep(t), u \notin running
      PROVE  u.kind = t.kind /\ u.body = t.body /\ u.n = t.n /\ Goes(t, u.at, u.left)
  <2>1. t \in GoodTasks
    BY <1>1 DEF PoolOK
  <2>2. ASSUME NEW at, NEW left, Goes(t, at, left)
        PROVE  u.kind = t.kind /\ u.body = t.body /\ u.n = t.n /\ Goes(t, u.at, u.left)
    <3> DEFINE v == [t EXCEPT !.at = at, !.left = left]
    <3>1. u = v
      BY <1>4, <2>2, Zenon DEF Goes
    <3>2. v.kind = t.kind /\ v.body = t.body /\ v.n = t.n /\ v.at = at /\ v.left = left
      <4>1. t \in ListTasks \/ t \in FoundTasks \/ t \in DeviceTasks \/ t \in CopyTasks \/ t \in PlainTasks
        BY <2>1 DEF GoodTasks, Tasks
      <4> QED
        BY <4>1 DEF ListTasks, FoundTasks, DeviceTasks, CopyTasks, PlainTasks
    <3> HIDE DEF v
    <3> QED
      BY <2>2, <3>1, <3>2
  <2>3. (\E at, left : Goes(t, at, left)) \/ Ends(t) \/ running' = running
    <3>1. CASE Parse(t)
      BY <3>1, Zenon DEF Parse, FirstStep
    <3>2. CASE UsesDestroyedStore(t)
      BY <3>2 DEF UsesDestroyedStore
    <3>3. CASE StoreUrl(t) \/ StoreCameras(t) \/ PostCameras(t)
      BY <3>3, Zenon DEF StoreUrl, StoreCameras, PostCameras
    <3>4. CASE FindSensorCameras(t) \/ updateDeviceInfo(t) \/ PostSensor(t) \/ FindCountCameras(t) \/ updateAiInfo(t)
      BY <3>4, Zenon DEF FindSensorCameras, updateDeviceInfo, PostSensor, FindCountCameras, updateAiInfo
    <3>5. CASE FindImageCameras(t) \/ PostImage(t, "post") \/ PostImage(t, "moved")
      BY <3>5, Zenon DEF FindImageCameras, PostImage
    <3>6. CASE StoreDevices(t) \/ PostDevices(t) \/ StoreServer(t) \/ PostServer(t) \/ PostAlarm(t)
      BY <3>6, Zenon DEF StoreDevices, PostDevices, StoreServer, PostServer, PostAlarm
    <3> QED
      BY <1>4, <3>1, <3>2, <3>3, <3>4, <3>5, <3>6 DEF TaskStep
  <2>4. ~Ends(t) /\ running' # running
    BY <1>4 DEF Ends
  <2> QED
    BY <2>2, <2>3, <2>4
<1>5. CASE GuiStep
  <2>1. running' = running
    BY <1>5 DEF GuiStep, packetReceived, camerasUpdated, updateSensorInfo, devicesUpdated, serverUpdated,
       onPendingListReceived, onImageReceivedBase64, onAlarm
  <2> QED
    BY <1>2, <2>1
<1>6. CASE User \/ (\E p \in Contents : Receive(p)) \/ ShutdownStep \/ Gone \/ UNCHANGED vars
  <2>1. running' = running
    BY <1>6 DEF User, Login, logoutRequested, dismiss, Quit, Receive, ShutdownStep, Disconnected, ResetStore,
       PoolJoined, Gone, vars
  <2> QED
    BY <1>2, <2>1
<1> QED
  BY <1>3, <1>4, <1>5, <1>6 DEF Next, PoolStep

\* What a camera task that has made a step has stored.
LEMMA UrlTasks ==
  ASSUME DataTypes, UrlInv, [Next]_vars, NEW u \in running', u.kind = "camera", u.at # "parse",
         NEW c \in Listed(u.body.list)
  PROVE  (u.at = "table" /\ c \in Listed(u.left)) \/ HasUrl(c)'
<1>1. DataTypes'
  BY DataStep
<1>2. u \in GoodTasks /\ Fits(u)
  <2>1. u \in GoodTasks
    BY <1>1 DEF DataTypes, PoolOK
  <2> QED
    BY <2>1, TaskFacts
<1>3. u.body \in Contents /\ u.body.form = "ok" /\ u.body.type = "CAMERA"
  BY <1>2, TaskFacts DEF Fits
<1>4. u.body.list \in Seq(Items)
  BY <1>3, PacketFacts
<1>5. c \in Cameras
  BY <1>4, ListedFacts
<1>6. HasUrl(c) => HasUrl(c)'
  BY <1>5, UrlKept
<1>7. CASE u \in running
  BY <1>6, <1>7 DEF UrlInv
<1>8. ASSUME NEW t \in running, TaskStep(t), u.kind = t.kind, u.body = t.body, Goes(t, u.at, u.left), u \notin running
      PROVE  (u.at = "table" /\ c \in Listed(u.left)) \/ HasUrl(c)'
  <2>1. t \in GoodTasks /\ t.kind = "camera"
    BY <1>8 DEF DataTypes, PoolOK
  <2>2. Fits(t) /\ t \in ListTasks
    BY <2>1, TaskFacts
  <2>3. ASSUME NEW at, NEW left, Goes(t, at, left) PROVE u.at = at /\ u.left = left
    <3> DEFINE v == [t EXCEPT !.at = at, !.left = left]
    <3>1. u = v
      BY <1>8, <2>3, Zenon DEF Goes
    <3>2. v.at = at /\ v.left = left
      BY <2>2 DEF ListTasks
    <3> HIDE DEF v
    <3> QED
      BY <3>1, <3>2
  <2>4. CASE Parse(t)
    <3>1. ~Ends(t)
      BY <1>8 DEF Ends
    <3>2. FirstStep(t)
      BY <2>4, <3>1 DEF Parse
    <3>3. CASE t.body.list # <<>>
      <4>1. Goes(t, "table", t.body.list)
        BY <2>1, <3>2, <3>3 DEF FirstStep
      <4> QED
        BY <1>8, <2>3, <4>1
    <3>4. CASE t.body.list = <<>>
      BY <1>4, <1>8, <3>4, ListedFacts
    <3> QED
      BY <3>3, <3>4
  <2>5. CASE StoreUrl(t)
    <3> DEFINE l == t.left
               h == CameraId(Head(l))
    <3>1. t.at = "table" /\ table_' = [table_ EXCEPT ![h].sourceUrl = Url(Head(l), t.n)]
      BY <2>5 DEF StoreUrl, Locks, At
    <3>2. l \in Seq(Items) /\ l # <<>> /\ Url(Head(l), t.n) # 0
      <4>1. l \in Seq(Items) /\ t.n \in Nums
        BY <2>2 DEF ListTasks
      <4>2. l # <<>>
        BY <2>1, <2>2, <3>1 DEF Fits
      <4>3. Url(Head(l), t.n) # 0
        BY <4>1, DataAssumption DEF Url, Nums, Numbers
      <4> QED
        BY <4>1, <4>2, <4>3
    <3>3. c \in Listed(l) \/ HasUrl(c)
      BY <1>8, <2>1, <3>1 DEF UrlInv
    <3>4. CASE c = h
      <4> DEFINE url == Url(Head(l), t.n)
      <4>1. table_ \in [Cameras -> [sourceUrl : Urls, deviceInfo : Numbers, aiInfo : Numbers]]
        BY DEF DataTypes, StoresOK
      <4>2. c \in DOMAIN table_
        BY <1>5, <4>1
      <4> HIDE DEF h, url
      <4>3. table_'[c].sourceUrl = url
        BY <1>5, <3>1, <3>4, <4>1, <4>2 DEF url
      <4> QED
        BY <3>2, <4>3 DEF HasUrl, url
    <3>5. CASE c # h /\ c \in Listed(l)
      <4>1. c \in Listed(Tail(l))
        BY <3>2, <3>5, ListedFacts
      <4>2. Len(l) # 1
        BY <3>2, <4>1, ListedFacts
      <4>3. Goes(t, "table", Tail(l))
        BY <2>5, <4>2 DEF StoreUrl
      <4> QED
        BY <2>3, <4>1, <4>3
    <3> QED
      BY <1>6, <3>3, <3>4, <3>5
  <2>6. CASE StoreCameras(t)
    <3>1. t.at = "lock"
      BY <2>6 DEF StoreCameras, Locks, At
    <3>2. HasUrl(c)
      BY <1>8, <2>1, <3>1 DEF UrlInv
    <3> QED
      BY <1>6, <3>2
  <2>7. CASE PostCameras(t)
    BY <1>8, <2>7 DEF PostCameras, Ends
  <2>8. CASE UsesDestroyedStore(t)
    BY <1>8, <2>8 DEF UsesDestroyedStore
  <2> QED
    BY <1>8, <2>1, <2>4, <2>5, <2>6, <2>7, <2>8 DEF TaskStep, FindSensorCameras, updateDeviceInfo, PostSensor,
       FindCountCameras, updateAiInfo, FindImageCameras, PostImage, StoreDevices, PostDevices, StoreServer,
       PostServer, PostAlarm, Locks, At
<1> QED
  BY <1>7, <1>8, NewTasks

\* The rows that appear are those of a list that has been stored.
LEMMA UrlRows ==
  ASSUME DataTypes, UrlInv, [Next]_vars, NEW c \in Cameras, cameras'[c] # Absent
  PROVE  HasUrl(c)'
<1>1. cameras \in [Cameras -> [shown : {"absent", "online", "offline"}, sensor : Numbers]] /\ events \in Seq(Events)
  BY DEF DataTypes, ModelsOK
<1>2. HasUrl(c) => HasUrl(c)'
  BY UrlKept
<1>3. cameras[c] # Absent => HasUrl(c)
  BY DEF UrlInv
<1>4. CASE cameras' = cameras
  BY <1>2, <1>3, <1>4
<1>5. CASE camerasUpdated
  <2> DEFINE list == Head(events).list
  <2>1. Handling("cameras") /\ cameras' = ShowsCameras(list)
    BY <1>5 DEF camerasUpdated
  <2>2. c \in Listed(list) \/ cameras[c] # Absent
    BY <2>1 DEF ShowsCameras
  <2>3. c \in Listed(list) => HasUrl(c)
    <3>1. 1 \in DOMAIN events /\ Head(events) = events[1] /\ events[1].type = "cameras"
      BY <1>1, <2>1 DEF Handling
    <3> QED
      BY <3>1 DEF UrlInv
  <2> QED
    BY <1>2, <1>3, <2>2, <2>3
<1>6. CASE updateSensorInfo
  <2> DEFINE id == Head(events).id
  <2>1. cameras' = IF cameras[id] = Absent THEN cameras ELSE [cameras EXCEPT ![id].sensor = Head(events).n]
    BY <1>6 DEF updateSensorInfo
  <2>2. cameras[c] # Absent
    BY <1>1, <2>1
  <2> QED
    BY <1>2, <1>3, <2>2
<1>7. CASE logoutRequested
  BY <1>7 DEF logoutRequested
<1>8. CASE GuiStep /\ ~camerasUpdated /\ ~updateSensorInfo
  <2>1. cameras' = cameras
    BY <1>8 DEF GuiStep, packetReceived, devicesUpdated, serverUpdated,
       onPendingListReceived, onImageReceivedBase64, onAlarm, models
  <2> QED
    BY <1>4, <2>1
<1>9. CASE Login \/ (\E i \in DOMAIN alarms_ : dismiss(i)) \/ Quit \/ (\E p \in Contents : Receive(p)) \/ StartTask \/ ShutdownStep \/ Gone \/ UNCHANGED vars
  <2>1. cameras' = cameras
    BY <1>9 DEF Login, dismiss, Quit, Receive, StartTask, ShutdownStep, Disconnected, ResetStore,
       PoolJoined, Gone, vars, models
  <2> QED
    BY <1>4, <2>1
<1>10. ASSUME NEW t \in running, TaskStep(t) PROVE cameras' = cameras
  BY <1>10 DEF TaskStep, Parse, UsesDestroyedStore, StoreUrl, StoreCameras, PostCameras, FindSensorCameras,
     updateDeviceInfo, PostSensor, FindCountCameras, updateAiInfo, FindImageCameras, PostImage, StoreDevices,
     PostDevices, StoreServer, PostServer, PostAlarm, models
<1> QED
  BY <1>4, <1>5, <1>6, <1>7, <1>8, <1>9, <1>10 DEF Next, PoolStep, User

\* Every step keeps it.
LEMMA UrlStep == DataTypes /\ UrlInv /\ [Next]_vars => UrlInv'
<1> SUFFICES ASSUME DataTypes, UrlInv, [Next]_vars PROVE UrlInv'
  OBVIOUS
<1>1. ASSUME NEW c \in Cameras, cameras'[c] # Absent PROVE HasUrl(c)'
  BY <1>1, UrlRows
<1>2. ASSUME NEW u \in running', u.kind = "camera", u.at # "parse", NEW c \in Listed(u.body.list)
      PROVE  (u.at = "table" /\ c \in Listed(u.left)) \/ HasUrl(c)'
  BY <1>2, UrlTasks
<1>3. ASSUME NEW i \in DOMAIN events', events'[i].type = "cameras", NEW c \in Listed(events'[i].list)
      PROVE  HasUrl(c)'
  <2>1. events' \in Seq(Events)
    BY DataStep DEF DataTypes
  <2>2. events'[i] \in Events
    BY <2>1
  <2>3. c \in Cameras
    <3>1. events'[i].list \in Seq(Items)
      BY <1>3, <2>2, EventFacts
    <3> QED
      BY <3>1, ListedFacts
  <2>4. HasUrl(c)
    <3>1. CASE \E k \in DOMAIN events : events'[i] = events[k]
      BY <1>3, <3>1 DEF UrlInv
    <3>2. ASSUME NEW t \in running, PostCameras(t), events'[i] = CamerasCall(t) PROVE HasUrl(c)
      <4>1. events'[i].list = t.body.list
        BY <3>2 DEF CamerasCall
      <4>2. t.kind = "camera" /\ t.at = "post"
        BY <3>2 DEF PostCameras, At
      <4> QED
        BY <1>3, <4>1, <4>2 DEF UrlInv
    <3>3. ASSUME NEW t \in running, events'[i] = DevicesCall(t) PROVE FALSE
      <4>1. DevicesCall(t).type = "devices"
        BY DEF DevicesCall
      <4> QED
        BY <1>3, <3>3, <4>1
    <3> QED
      BY <1>3, <3>1, <3>2, <3>3, Posted DEF Posts
  <2> QED
    BY <2>3, <2>4, UrlKept
<1> QED
  BY <1>1, <1>2, <1>3 DEF UrlInv, HasUrl

\* An empty url comes from an item without one, and what the task of a list has left
\* are items of its list.
EmptyInv ==
  /\ \A c \in Cameras : table_[c].sourceUrl = NoUrl => NamedWithoutUrl(c)
  /\ \A t \in running : t.kind = "camera" /\ t.at = "table" => Range(t.left) \subseteq Range(t.body.list)

\* What is left of the list, after a step.
LEMMA LeftOfList ==
  ASSUME DataTypes, EmptyInv, [Next]_vars, NEW u \in running', u.kind = "camera", u.at = "table"
  PROVE  Range(u.left) \subseteq Range(u.body.list)
<1>1. CASE u \in running
  BY <1>1 DEF EmptyInv
<1>2. ASSUME NEW t \in running, TaskStep(t), u.kind = t.kind, u.body = t.body, Goes(t, u.at, u.left), u \notin running
      PROVE  Range(u.left) \subseteq Range(u.body.list)
  <2>1. t \in GoodTasks /\ t.kind = "camera"
    BY <1>2 DEF DataTypes, PoolOK
  <2>2. Fits(t) /\ t \in ListTasks
    BY <2>1, TaskFacts
  <2>3. ASSUME NEW at, NEW left, Goes(t, at, left) PROVE u.at = at /\ u.left = left
    <3> DEFINE v == [t EXCEPT !.at = at, !.left = left]
    <3>1. u = v
      BY <1>2, <2>3, Zenon DEF Goes
    <3>2. v.at = at /\ v.left = left
      BY <2>2 DEF ListTasks
    <3> HIDE DEF v
    <3> QED
      BY <3>1, <3>2
  <2>4. CASE Parse(t)
    <3>1. ~Ends(t)
      BY <1>2 DEF Ends
    <3>2. FirstStep(t)
      BY <2>4, <3>1 DEF Parse
    <3>3. Goes(t, "table", t.body.list) \/ Goes(t, "lock", <<>>)
      BY <2>1, <3>2 DEF FirstStep
    <3>4. u.left = t.body.list
      BY <2>3, <3>3
    <3> QED
      BY <1>2, <3>4
  <2>5. CASE StoreUrl(t)
    <3>1. t.at = "table" /\ (Goes(t, "lock", <<>>) \/ Goes(t, "table", Tail(t.left)))
      BY <2>5 DEF StoreUrl, Locks, At
    <3>2. u.left = Tail(t.left)
      BY <2>3, <3>1
    <3>3. t.left \in Seq(Items) /\ t.left # <<>>
      BY <2>1, <2>2, <3>1 DEF ListTasks, Fits
    <3>4. Range(Tail(t.left)) \subseteq Range(t.left)
      BY <3>3, RangeFacts
    <3>5. Range(t.left) \subseteq Range(t.body.list)
      BY <2>1, <3>1 DEF EmptyInv
    <3> QED
      BY <1>2, <3>2, <3>4, <3>5
  <2>6. CASE StoreCameras(t)
    BY <2>3, <2>6 DEF StoreCameras
  <2>7. CASE PostCameras(t)
    BY <1>2, <2>7 DEF PostCameras, Ends
  <2>8. CASE UsesDestroyedStore(t)
    BY <1>2, <2>8 DEF UsesDestroyedStore
  <2> QED
    BY <1>2, <2>1, <2>4, <2>5, <2>6, <2>7, <2>8 DEF TaskStep, FindSensorCameras, updateDeviceInfo, PostSensor,
       FindCountCameras, updateAiInfo, FindImageCameras, PostImage, StoreDevices, PostDevices, StoreServer,
       PostServer, PostAlarm, Locks, At
<1>3. CASE u.at = "parse"
  BY <1>3
<1> QED
  BY <1>1, <1>2, <1>3, NewTasks

\* Every step keeps it.
LEMMA EmptyStep == DataTypes /\ EmptyInv /\ [Next]_vars => EmptyInv'
<1> SUFFICES ASSUME DataTypes, EmptyInv, [Next]_vars PROVE EmptyInv'
  OBVIOUS
<1>1. ASSUME NEW t \in running, StoreUrl(t), Url(Head(t.left), t.n) = NoUrl
      PROVE  NamedWithoutUrl(CameraId(Head(t.left)))
  <2> DEFINE x == Head(t.left)
  <2>1. t \in GoodTasks /\ t.kind = "camera" /\ t.at = "table"
    BY <1>1 DEF DataTypes, PoolOK, StoreUrl, Locks, At
  <2>2. Fits(t) /\ t \in ListTasks /\ t.n \in Nums
    BY <2>1, TaskFacts
  <2>3. t.left \in Seq(Items) /\ t.left # <<>>
    BY <2>1, <2>2 DEF ListTasks, Fits
  <2>4. x \in Range(t.left)
    BY <2>3, RangeFacts
  <2>5. x \in Range(t.body.list)
    BY <2>1, <2>4 DEF EmptyInv
  <2>6. PICK i \in DOMAIN t.body.list : t.body.list[i] = x
    BY <2>5 DEF Range
  <2>7. t.body \in Contents /\ t.body.form = "ok" /\ t.body.type = "CAMERA"
    BY <2>1, <2>2, TaskFacts DEF Fits
  <2>8. x.stream = NoUrl
    BY <1>1, <2>2, DataAssumption DEF Url, Nums
  <2> HIDE DEF x
  <2>9. NamedWithoutUrl(CameraId(x))
    BY <2>6, <2>7, <2>8 DEF NamedWithoutUrl
  <2> QED
    BY <2>9 DEF x
<1>2. ASSUME NEW c \in Cameras, table_'[c].sourceUrl = NoUrl PROVE NamedWithoutUrl(c)
  <2>1. CASE table_'[c].sourceUrl = table_[c].sourceUrl
    BY <1>2, <2>1 DEF EmptyInv
  <2>2. ASSUME NEW t \in running, StoreUrl(t), c = CameraId(Head(t.left)),
               table_'[c].sourceUrl = Url(Head(t.left), t.n)
        PROVE  NamedWithoutUrl(c)
    BY <1>1, <1>2, <2>2
  <2> QED
    BY <2>1, <2>2, UrlWritten
<1>3. ASSUME NEW u \in running', u.kind = "camera", u.at = "table" PROVE Range(u.left) \subseteq Range(u.body.list)
  BY <1>3, LeftOfList
<1> QED
  BY <1>2, <1>3 DEF EmptyInv

\* VideoManager finds an entry for every camera the grid shows: it is written before
\* the list is posted, whatever tasks of other lists run beside, and no step removes
\* it; its url is empty only if a list names the camera without one.
THEOREM ShownCamerasHaveUrl == Spec => []RowsHaveUrl
<1>1. Init => UrlInv /\ EmptyInv
  <2> SUFFICES ASSUME Init PROVE UrlInv /\ EmptyInv
    OBVIOUS
  <2>1. \A c \in Cameras : cameras[c] = Absent /\ table_[c].sourceUrl = 0
    BY DEF Init
  <2>2. 0 # NoUrl
    BY DataAssumption DEF Numbers
  <2>3. running = {} /\ events = <<>>
    BY DEF Init
  <2> QED
    BY <2>1, <2>2, <2>3 DEF UrlInv, EmptyInv
<1>2. UrlInv /\ EmptyInv => RowsHaveUrl
  BY DEF UrlInv, EmptyInv, RowsHaveUrl, HasUrl
<1> QED
  BY <1>1, <1>2, TypesInvariant, UrlStep, EmptyStep, PTL DEF Spec

-------------------------------------------------------------------------------
(* The devices *)

\* Only StoreDevices changes the rows of DeviceStore; it makes a new version of them,
\* which the task carries to DeviceModel.
Stored(t) ==
  /\ StoreDevices(t) /\ t.kind \in {"device", "available"} /\ t \in GoodTasks
  /\ version' = version + 1 /\ Goes(t, "post", <<version', devices_'>>)
  /\ shownVersion' = shownVersion /\ deviceRows' = deviceRows /\ events' = events

\* Every step but that one leaves them alone.
LEMMA DevicesStored ==
  ASSUME DataTypes, [Next]_vars
  PROVE  \/ devices_' = devices_ /\ version' = version /\ reading' = reading
         \/ \E t \in running : Stored(t)
<1>1. ASSUME NEW t \in running, TaskStep(t), ~StoreDevices(t)
      PROVE  devices_' = devices_ /\ version' = version /\ reading' = reading
  BY <1>1 DEF TaskStep, Parse, UsesDestroyedStore, StoreUrl, StoreCameras, PostCameras, FindSensorCameras,
     updateDeviceInfo, PostSensor, FindCountCameras, updateAiInfo, FindImageCameras, PostImage, PostDevices,
     StoreServer, PostServer, PostAlarm, stores
<1>2. ASSUME NEW t \in running, StoreDevices(t) PROVE Stored(t)
  <2>1. t \in GoodTasks
    BY DEF DataTypes, PoolOK
  <2> QED
    BY <1>2, <2>1, Zenon DEF StoreDevices, Stored, models
<1>3. CASE GuiStep
  BY <1>3 DEF GuiStep, packetReceived, camerasUpdated, updateSensorInfo, devicesUpdated, serverUpdated,
     onPendingListReceived, onImageReceivedBase64, onAlarm, stores
<1>4. CASE User \/ (\E p \in Contents : Receive(p)) \/ StartTask \/ ShutdownStep \/ Gone \/ UNCHANGED vars
  BY <1>4 DEF User, Login, logoutRequested, dismiss, Quit, Receive, StartTask, ShutdownStep, Disconnected, ResetStore,
     PoolJoined, Gone, vars, stores
<1> QED
  BY <1>1, <1>2, <1>3, <1>4 DEF Next, PoolStep

\* Every step keeps the readings.
LEMMA ReadingsStep == DataTypes /\ ReadingsKept /\ [Next]_vars => ReadingsKept'
<1> SUFFICES ASSUME DataTypes, ReadingsKept, [Next]_vars PROVE ReadingsKept'
  OBVIOUS
<1>1. devices_ \in Snapshots /\ reading \in [Ips -> Numbers]
  BY DEF DataTypes, StoresOK
<1>2. ASSUME NEW ip \in Ips, reading[ip] # 0 PROVE Carries(devices_, ip, reading[ip]) /\ reading[ip] \in Nums
  BY <1>1, <1>2 DEF ReadingsKept, Carries, findIndexByIp, Nums
<1>3. SUFFICES ASSUME NEW ip \in Ips, reading'[ip] # 0 PROVE Carries(devices_', ip, reading'[ip])
  BY DEF ReadingsKept, Carries, findIndexByIp
<1>4. CASE devices_' = devices_ /\ reading' = reading
  BY <1>2, <1>3, <1>4
<1>5. ASSUME NEW t \in running, Stored(t) PROVE Carries(devices_', ip, reading'[ip])
  <2>1. t \in GoodTasks /\ StoreDevices(t) /\ t.at = "lock" /\ t.kind \in {"device", "available"}
    BY <1>5 DEF Stored, StoreDevices, Locks, At
  <2>2. t.n \in Nums /\ t.body \in Contents /\ t.body.form = "ok" /\ Fits(t)
    BY <2>1, TaskFacts DEF Fits
  <2>3. CASE t.kind = "device"
    <3>1. devices_' = CameraMerge(t.body.list) /\ reading' = reading
      BY <2>1, <2>3 DEF StoreDevices
    <3>2. t.body.list \in Seq(Items)
      BY <2>2, <2>3, PacketFacts DEF Fits
    <3> QED
      BY <1>1, <1>2, <1>3, <3>1, <3>2, CameraMergeFacts
  <2>4. CASE t.kind = "available"
    <3> DEFINE ips == t.body.ips
    <3>1. /\ devices_' = AvailableMerge(ips, t.n)
          /\ reading' = [a \in Ips |-> IF a \in Range(ips) THEN t.n ELSE reading[a]]
      BY <2>1, <2>4 DEF StoreDevices
    <3>2. ips \in Seq(Ips)
      BY <2>2, <2>4, PacketFacts DEF Fits
    <3> HIDE DEF ips
    <3>3. Updated(devices_', ips, Len(ips), t.n)
      BY <1>1, <2>2, <3>1, <3>2, AvailableMergeFacts
    <3>4. DOMAIN ips = 1..Len(ips)
      BY <3>2
    <3>5. CASE ip \in Range(ips)
      <4>1. PICK i \in 1..Len(ips) : ips[i] = ip
        BY <3>4, <3>5 DEF Range
      <4>2. reading'[ip] = t.n
        BY <3>1, <3>5
      <4>3. Carries(devices_', ips[i], t.n)
        BY <3>3 DEF Updated
      <4> QED
        BY <4>1, <4>2, <4>3
    <3>6. CASE ip \notin Range(ips)
      <4>1. \A i \in 1..Len(ips) : ips[i] # ip
        BY <3>4, <3>6 DEF Range
      <4>2. reading'[ip] = reading[ip]
        BY <3>1, <3>6
      <4>3. Carries(devices_, ip, reading[ip]) /\ reading[ip] \in Nums
        BY <1>2, <1>3, <4>2
      <4> QED
        BY <3>3, <4>1, <4>2, <4>3 DEF Updated
    <3> QED
      BY <3>5, <3>6
  <2> QED
    BY <2>1, <2>3, <2>4
<1> QED
  BY <1>4, <1>5, DevicesStored

\* "Keep dynamic AVAILABLE info": the row that DeviceStore looks up for an address has
\* the newest data and history stored for it, whatever lists and updates come, in
\* whatever order their tasks reach the store.
THEOREM ReadingsAreKept == Spec => []ReadingsKept
<1>1. Init => ReadingsKept
  BY DEF Init, ReadingsKept
<1> QED
  BY <1>1, TypesInvariant, ReadingsStep, PTL DEF Spec

-------------------------------------------------------------------------------
(* DeviceModel *)

\* A copy of the rows of DeviceStore, made when they had version v, where last is the
\* version of the present rows.
IsCopy(v, copy, last, present) == v \in 1..last /\ (v = last => copy = present)

\* The copies on their way, in a task or in the event queue, tell which version they
\* are, and none is of a version to come.
VersionInv ==
  /\ shownVersion <= version
  /\ version = 0 => devices_ = <<>>
  /\ \A i \in DOMAIN events : events[i].type = "devices" => IsCopy(events[i].version, events[i].snapshot, version, devices_)
  /\ \A t \in running : t.kind \in {"device", "available"} /\ t.at = "post" => IsCopy(t.left[1], t.left[2], version, devices_)
  /\ DeviceModelShowsStore

\* A task that is ready to post a copy was so before or has just made it.
LEMMA CopyTasksMade ==
  ASSUME DataTypes, [Next]_vars, NEW u \in running', u.kind \in {"device", "available"}, u.at = "post"
  PROVE  u \in running \/ (\E t \in running : Stored(t) /\ u.left = <<version', devices_'>>)
<1> SUFFICES ASSUME u \notin running
             PROVE  \E t \in running : Stored(t) /\ u.left = <<version', devices_'>>
  OBVIOUS
<1>1. PICK t \in running : TaskStep(t) /\ u.kind = t.kind /\ Goes(t, u.at, u.left)
  BY NewTasks
<1>2. t \in GoodTasks /\ t.kind \in {"device", "available"}
  BY <1>1 DEF DataTypes, PoolOK
<1>3. t \in DeviceTasks \cup CopyTasks
  BY <1>2, TaskFacts
<1>4. ASSUME NEW at, NEW left, Goes(t, at, left) PROVE u.at = at /\ u.left = left
  <2> DEFINE v == [t EXCEPT !.at = at, !.left = left]
  <2>1. u = v
    BY <1>4, Zenon DEF Goes
  <2>2. v.at = at /\ v.left = left
    BY <1>3 DEF DeviceTasks, CopyTasks
  <2> HIDE DEF v
  <2> QED
    BY <2>1, <2>2
<1>5. ~Ends(t) /\ running' # running
  BY DEF Ends
<1>6. ~Parse(t)
  <2> SUFFICES ASSUME Parse(t) PROVE FALSE
    OBVIOUS
  <2>1. FirstStep(t)
    BY <1>5 DEF Parse
  <2>2. Goes(t, "lock", <<>>)
    BY <1>2, <2>1 DEF FirstStep
  <2> QED
    BY <1>4, <2>2
<1>7. StoreDevices(t)
  BY <1>1, <1>2, <1>5, <1>6 DEF TaskStep, UsesDestroyedStore, StoreUrl, StoreCameras, PostCameras, FindSensorCameras,
     updateDeviceInfo, PostSensor, FindCountCameras, updateAiInfo, FindImageCameras, PostImage, PostDevices,
     StoreServer, PostServer, PostAlarm, Locks, At
<1>8. Stored(t)
  BY <1>2, <1>7, Zenon DEF StoreDevices, Stored, models
<1> QED
  BY <1>4, <1>8 DEF Stored

\* DeviceModel shows a copy, is emptied, or stays as it is.
LEMMA RowsShown ==
  ASSUME DataTypes, [Next]_vars
  PROVE  \/ deviceRows' = deviceRows /\ shownVersion' = shownVersion
         \/ deviceRows' = <<>> /\ shownVersion' = 0
         \/ devicesUpdated
<1>1. CASE GuiStep /\ ~devicesUpdated
  BY <1>1 DEF GuiStep, packetReceived, camerasUpdated, updateSensorInfo, serverUpdated,
     onPendingListReceived, onImageReceivedBase64, onAlarm, models
<1>2. CASE logoutRequested
  BY <1>2 DEF logoutRequested
<1>3. CASE Login \/ (\E i \in DOMAIN alarms_ : dismiss(i)) \/ Quit \/ (\E p \in Contents : Receive(p)) \/ StartTask
           \/ ShutdownStep \/ Gone \/ UNCHANGED vars
  BY <1>3 DEF Login, dismiss, Quit, Receive, StartTask, ShutdownStep, Disconnected, ResetStore, PoolJoined, Gone, vars, models
<1>4. ASSUME NEW t \in running, TaskStep(t) PROVE deviceRows' = deviceRows /\ shownVersion' = shownVersion
  BY <1>4 DEF TaskStep, Parse, UsesDestroyedStore, StoreUrl, StoreCameras, PostCameras, FindSensorCameras,
     updateDeviceInfo, PostSensor, FindCountCameras, updateAiInfo, FindImageCameras, PostImage, StoreDevices,
     PostDevices, StoreServer, PostServer, PostAlarm, models
<1> QED
  BY <1>1, <1>2, <1>3, <1>4 DEF Next, PoolStep, User

\* A copy of the present rows, when DeviceModel shows it.
LEMMA CopyShown ==
  ASSUME deviceRows \in Snapshots, devices_ \in Snapshots, NEW ip \in Ips, Cardinality(Rows(devices_, ip)) = 1
  PROVE  LET new == ShowsDevices(devices_) IN
         Rows(new, ip) # {} /\ new[byIp_(new, ip)] = devices_[findIndexByIp(ip)]
<1> DEFINE new == ShowsDevices(devices_)
           S == Rows(devices_, ip)
<1>1. S \in SUBSET (1..Len(devices_)) /\ Len(devices_) \in Nat
  BY RowFacts
<1>2. IsFiniteSet(S)
  <2>1. IsFiniteSet(1..Len(devices_))
    BY <1>1, FS_Interval
  <2> QED
    BY <1>1, <2>1, FS_Subset
<1>3. PICK k : S = {k}
  BY <1>2, FS_Singleton
<1>4. findIndexByIp(ip) = k /\ Max(S) = k
  <2>1. Min(S) \in S /\ Max(S) \in S
    BY <1>3, RowFacts
  <2> QED
    BY <1>3, <2>1 DEF findIndexByIp
<1> QED
  BY <1>3, <1>4, ShowsFacts DEF byIp_

\* Every step keeps the versions in order.
LEMMA VersionStep == DataTypes /\ VersionInv /\ [Next]_vars => VersionInv'
<1> SUFFICES ASSUME DataTypes, VersionInv, [Next]_vars PROVE VersionInv'
  OBVIOUS
<1>1. /\ version \in Nat /\ shownVersion \in Nat /\ devices_ \in Snapshots /\ deviceRows \in Snapshots
      /\ events \in Seq(Events)
  BY DEF DataTypes, StoresOK, ModelsOK
<1>2. ASSUME NEW t \in running, Stored(t) PROVE VersionInv'
  <2>1. /\ version' = version + 1 /\ shownVersion' = shownVersion /\ events' = events
        /\ version' # 0 /\ shownVersion' # version' /\ shownVersion' <= version'
    BY <1>1, <1>2 DEF Stored, VersionInv
  <2>2. ASSUME NEW v, NEW copy, IsCopy(v, copy, version, devices_) PROVE IsCopy(v, copy, version', devices_')
    BY <1>1, <2>1, <2>2 DEF IsCopy
  <2>3. ASSUME NEW u \in running', u.kind \in {"device", "available"}, u.at = "post"
        PROVE  IsCopy(u.left[1], u.left[2], version', devices_')
    <3>1. CASE u \in running
      BY <2>2, <2>3, <3>1 DEF VersionInv
    <3>2. CASE u.left = <<version', devices_'>>
      BY <1>1, <2>1, <3>2 DEF IsCopy
    <3> QED
      BY <2>3, <3>1, <3>2, CopyTasksMade
  <2>4. ASSUME NEW i \in DOMAIN events', events'[i].type = "devices"
        PROVE  IsCopy(events'[i].version, events'[i].snapshot, version', devices_')
    BY <2>1, <2>2, <2>4 DEF VersionInv
  <2> QED
    BY <2>1, <2>3, <2>4 DEF VersionInv, DeviceModelShowsStore
<1>3. CASE devices_' = devices_ /\ version' = version
  <2>1. ASSUME NEW v, NEW copy, IsCopy(v, copy, version, devices_) PROVE IsCopy(v, copy, version', devices_')
    BY <1>3, <2>1
  <2>2. ASSUME NEW u \in running', u.kind \in {"device", "available"}, u.at = "post"
        PROVE  IsCopy(u.left[1], u.left[2], version', devices_')
    <3>1. \A t \in running : ~Stored(t)
      BY <1>1, <1>3 DEF Stored
    <3>2. u \in running
      BY <2>2, <3>1, CopyTasksMade
    <3> QED
      BY <2>1, <2>2, <3>2 DEF VersionInv
  <2>3. ASSUME NEW i \in DOMAIN events', events'[i].type = "devices"
        PROVE  IsCopy(events'[i].version, events'[i].snapshot, version', devices_')
    <3>1. CASE \E k \in DOMAIN events : events'[i] = events[k]
      BY <2>1, <2>3, <3>1 DEF VersionInv
    <3>2. ASSUME NEW t \in running, events'[i] = CamerasCall(t) PROVE FALSE
      <4>1. CamerasCall(t).type = "cameras"
        BY DEF CamerasCall
      <4> QED
        BY <2>3, <3>2, <4>1
    <3>3. ASSUME NEW t \in running, PostDevices(t), events'[i] = DevicesCall(t)
          PROVE  IsCopy(events'[i].version, events'[i].snapshot, version', devices_')
      <4>1. t.kind \in {"device", "available"} /\ t.at = "post"
        BY <3>3 DEF PostDevices, At
      <4>2. events'[i].version = t.left[1] /\ events'[i].snapshot = t.left[2]
        BY <3>3 DEF DevicesCall
      <4> QED
        BY <2>1, <4>1, <4>2 DEF VersionInv
    <3> QED
      BY <2>3, <3>1, <3>2, <3>3, Posted DEF Posts
  <2>4. ASSUME devicesUpdated
        PROVE  IsCopy(shownVersion', Head(events).snapshot, version, devices_) /\ deviceRows' = ShowsDevices(Head(events).snapshot)
    <3>1. Handling("devices") /\ shownVersion' = Head(events).version /\ deviceRows' = ShowsDevices(Head(events).snapshot)
      BY <2>4 DEF devicesUpdated
    <3>2. 1 \in DOMAIN events /\ Head(events) = events[1] /\ events[1].type = "devices"
      BY <1>1, <3>1 DEF Handling
    <3> QED
      BY <3>1, <3>2 DEF VersionInv
  <2>5. shownVersion' <= version'
    <3>1. CASE devicesUpdated
      BY <1>1, <1>3, <2>4, <3>1 DEF IsCopy
    <3> QED
      BY <1>1, <1>3, <3>1, RowsShown DEF VersionInv
  <2>6. ASSUME shownVersion' = version', NEW ip \in Ips, Cardinality(Rows(devices_', ip)) = 1
        PROVE  /\ Rows(deviceRows', ip) # {}
               /\ deviceRows'[byIp_(deviceRows', ip)] = devices_[findIndexByIp(ip)]
    <3>1. CASE deviceRows' = deviceRows /\ shownVersion' = shownVersion
      BY <1>3, <2>6, <3>1 DEF VersionInv, DeviceModelShowsStore
    <3>2. CASE shownVersion' = 0
      <4>1. devices_ = <<>>
        BY <1>3, <2>6, <3>2 DEF VersionInv
      <4>2. Rows(devices_, ip) = {}
        BY <4>1 DEF Rows
      <4>3. Cardinality(Rows(devices_, ip)) = 0
        BY <4>2, FS_EmptySet
      <4> QED
        BY <1>3, <2>6, <4>3
    <3>3. CASE devicesUpdated
      <4>1. deviceRows' = ShowsDevices(devices_)
        BY <1>3, <2>4, <2>6, <3>3 DEF IsCopy
      <4> QED
        BY <1>1, <1>3, <2>6, <4>1, CopyShown
    <3> QED
      BY <3>1, <3>2, <3>3, RowsShown
  <2>7. DeviceModelShowsStore'
    <3>1. ASSUME shownVersion' = version', NEW ip \in Ips, Cardinality(Rows(devices_', ip)) = 1
          PROVE  /\ Rows(deviceRows', ip) # {}
                 /\ deviceRows'[byIp_(deviceRows', ip)] = devices_'[Min(Rows(devices_', ip))]
      BY <1>3, <2>6, <3>1 DEF findIndexByIp
    <3> QED
      BY <3>1 DEF DeviceModelShowsStore, findIndexByIp, byIp_
  <2>8. version' = 0 => devices_' = <<>>
    BY <1>3 DEF VersionInv
  <2> QED
    BY <2>2, <2>3, <2>5, <2>7, <2>8 DEF VersionInv
<1> QED
  BY <1>2, <1>3, DevicesStored

\* When the snapshot shown is that of the store's last change, the row DeviceModel
\* looks up for an address is the store's, if the store has one row for it: merging
\* a snapshot by address into rows of any earlier ones, with gaps between them, and
\* posting the snapshots out of order never leaves an older device in that row.
THEOREM LastCopyIsShown == Spec => []DeviceModelShowsStore
<1>1. Init => VersionInv
  <2> SUFFICES ASSUME Init PROVE VersionInv
    OBVIOUS
  <2>1. /\ devices_ = <<>> /\ version = 0 /\ shownVersion = 0 /\ events = <<>> /\ running = {}
    BY DEF Init
  <2>2. \A ip \in Ips : Rows(devices_, ip) = {}
    BY <2>1 DEF Rows
  <2>3. \A ip \in Ips : Cardinality(Rows(devices_, ip)) = 0
    BY <2>2, FS_EmptySet
  <2>4. DeviceModelShowsStore
    BY <2>3 DEF DeviceModelShowsStore
  <2> QED
    BY <2>1, <2>4 DEF VersionInv
<1>2. VersionInv => DeviceModelShowsStore
  BY DEF VersionInv
<1> QED
  BY <1>1, <1>2, TypesInvariant, VersionStep, PTL DEF Spec

-------------------------------------------------------------------------------
(* The work under way *)

\* The tasks that wait or run, and the calls that wait for the GUI thread.
Work == Range(queue_) \cup running
Calls == Range(events)

SensorCall(t) == [type |-> "sensor", n |-> t.n, id |-> Head(t.left)]
ImageCall(t) == [type |-> "image", n |-> t.n, id |-> Head(t.left), picture |-> t.at = "post"]
ServerCall(t) == [type |-> "server", n |-> t.n, server |-> ServerPart(t)]
AlarmCall(t) == [type |-> "alarm", n |-> t.n]
PacketCall(p) == [type |-> "packet", n |-> received + 1, body |-> p]

\* The call that a task posts in a step.
PostsCall(t, e) ==
  \/ PostCameras(t) /\ e = CamerasCall(t)
  \/ PostDevices(t) /\ e = DevicesCall(t)
  \/ PostSensor(t) /\ e = SensorCall(t)
  \/ PostImage(t, t.at) /\ e = ImageCall(t)
  \/ PostServer(t) /\ e = ServerCall(t)
  \/ PostAlarm(t) /\ e = AlarmCall(t)

\* The step of a task posts one call, or none.
LEMMA TaskCalls ==
  ASSUME events \in Seq(Events), NEW t \in running, TaskStep(t)
  PROVE  \/ events' = events /\ \A e : PostsCall(t, e) => process # "up"
         \/ process = "up" /\ \E e : PostsCall(t, e) /\ Calls' = Calls \cup {e}
<1>1. ASSUME NEW e, Post(e) PROVE (process # "up" /\ events' = events) \/ (process = "up" /\ Calls' = Calls \cup {e})
  BY <1>1, RangeFacts DEF Post, Calls
<1>2. ASSUME NEW e, PostsCall(t, e) PROVE Post(e)
  BY <1>2, Zenon DEF PostsCall, PostCameras, PostDevices, PostSensor, PostImage, PostServer, PostAlarm,
     CamerasCall, DevicesCall, SensorCall, ImageCall, ServerCall, AlarmCall
<1>3. CASE \E e : PostsCall(t, e)
  BY <1>1, <1>2, <1>3
<1>4. CASE ~\E e : PostsCall(t, e)
  <2>1. /\ ~PostCameras(t) /\ ~PostDevices(t) /\ ~PostSensor(t) /\ ~PostImage(t, t.at) /\ ~PostServer(t) /\ ~PostAlarm(t)
    BY <1>4, Zenon DEF PostsCall
  <2>2. ~PostImage(t, "post") /\ ~PostImage(t, "moved")
    BY <2>1 DEF PostImage, At
  <2>3. events' = events
    BY <2>1, <2>2 DEF TaskStep, Parse, UsesDestroyedStore, StoreUrl, StoreCameras, FindSensorCameras, updateDeviceInfo,
       FindCountCameras, updateAiInfo, FindImageCameras, StoreDevices, StoreServer
  <2> QED
    BY <1>4, <2>3
<1> QED
  BY <1>3, <1>4

\* The handlers remove the call they handle; only that of ASSIGN adds another.
LEMMA GuiCalls ==
  ASSUME events \in Seq(Events), GuiStep
  PROVE  LET e == Head(events) IN
         /\ process = "up" /\ process' = "up" /\ e \in Calls /\ e \in Events /\ running' = running
         /\ \A x \in Calls : x = e \/ x \in Calls'
         /\ \A x \in Calls' : \/ x \in Calls
                              \/ packetReceived /\ e.body.type = "ASSIGN" /\ x = [e EXCEPT !.type = "pending"]
         /\ packetReceived /\ e.body.type = "ASSIGN" => [e EXCEPT !.type = "pending"] \in Calls'
         /\ queue_' = queue_ \/ (packetReceived /\ queue_' = queue_ \o Submitted(e))
<1> DEFINE e == Head(events)
           x == [e EXCEPT !.type = "pending"]
<1>1. /\ events # <<>> /\ process = "up" /\ process' = "up" /\ running' = running
      /\ queue_' = queue_ \/ (packetReceived /\ queue_' = queue_ \o Submitted(e))
  BY DEF GuiStep, packetReceived, camerasUpdated, updateSensorInfo, devicesUpdated, serverUpdated,
     onPendingListReceived, onImageReceivedBase64, onAlarm, Handling, control
<1>2. /\ e \in Calls /\ e \in Events /\ Calls = {e} \cup Range(Tail(events)) /\ Tail(events) \in Seq(Events)
  BY <1>1, RangeFacts DEF Calls
<1>3. \/ events' = Tail(events) /\ ~(packetReceived /\ e.body.type = "ASSIGN")
      \/ packetReceived /\ e.body.type = "ASSIGN" /\ events' = Append(Tail(events), x)
  BY Zenon DEF GuiStep, packetReceived, camerasUpdated, updateSensorInfo, devicesUpdated, serverUpdated,
     onPendingListReceived, onImageReceivedBase64, onAlarm
<1> HIDE DEF x, e
<1>4. Range(Append(Tail(events), x)) = Range(Tail(events)) \cup {x}
  <2> DEFINE q == Tail(events)
  <2>1. q \in Seq(Events)
    BY <1>2
  <2> HIDE DEF q
  <2>2. Range(Append(q, x)) = Range(q) \cup {x}
    BY <2>1, RangeFacts
  <2> QED
    BY <2>2 DEF q
<1>5. events' = Append(Tail(events), x) => Calls' = Range(Tail(events)) \cup {x}
  BY <1>4 DEF Calls
<1>6. events' = Tail(events) => Calls' = Range(Tail(events))
  BY DEF Calls
<1> QED
  BY <1>1, <1>2, <1>3, <1>5, <1>6 DEF e, x

\* Where a call comes from.
LEMMA NewCalls ==
  ASSUME DataTypes, [Next]_vars, NEW e \in Calls'
  PROVE  \/ e \in Calls
         \/ \E p \in Contents : Receive(p) /\ e = PacketCall(p)
         \/ packetReceived /\ Head(events).body.type = "ASSIGN" /\ e = [Head(events) EXCEPT !.type = "pending"]
         \/ \E t \in running : TaskStep(t) /\ PostsCall(t, e)
<1>1. events \in Seq(Events)
  BY DEF DataTypes
<1>2. CASE GuiStep
  BY <1>1, <1>2, GuiCalls
<1>3. ASSUME NEW t \in running, TaskStep(t) PROVE e \in Calls \/ PostsCall(t, e)
  BY <1>1, <1>3, TaskCalls DEF Calls
<1>4. ASSUME NEW p \in Contents, Receive(p) PROVE e \in Calls \/ e = PacketCall(p)
  <2>1. events' = Append(events, PacketCall(p))
    BY <1>4 DEF Receive, PacketCall
  <2> QED
    BY <1>1, <2>1, RangeFacts DEF Calls
<1>5. CASE User \/ StartTask \/ ShutdownStep \/ Gone \/ UNCHANGED vars
  <2>1. events' = events \/ events' = <<>>
    BY <1>5 DEF User, Login, logoutRequested, dismiss, Quit, StartTask, ShutdownStep, Disconnected, ResetStore, PoolJoined, Gone, vars
  <2>2. events' = <<>> => Calls' = {}
    BY DEF Calls, Range
  <2> QED
    BY <2>1, <2>2 DEF Calls
<1> QED
  BY <1>2, <1>3, <1>4, <1>5 DEF Next, PoolStep

\* A call waits until it is handled.
LEMMA CallsKept ==
  ASSUME DataTypes, [Next]_vars, process' = "up", NEW e \in Calls
  PROVE  e \in Calls' \/ (GuiStep /\ e = Head(events))
<1>1. events \in Seq(Events)
  BY DEF DataTypes
<1>2. CASE GuiStep
  BY <1>1, <1>2, GuiCalls
<1>3. ASSUME NEW t \in running, TaskStep(t) PROVE e \in Calls'
  BY <1>1, <1>3, TaskCalls DEF Calls
<1>4. ASSUME NEW p \in Contents, Receive(p) PROVE e \in Calls'
  <2>1. events' = Append(events, PacketCall(p))
    BY <1>4 DEF Receive, PacketCall
  <2> QED
    BY <1>1, <2>1, RangeFacts DEF Calls
<1>5. CASE User \/ StartTask \/ ShutdownStep \/ Gone \/ UNCHANGED vars
  <2>1. events' = events
    BY <1>5 DEF User, Login, logoutRequested, dismiss, Quit, StartTask, ShutdownStep, Disconnected, ResetStore, PoolJoined, Gone, vars
  <2> QED
    BY <2>1 DEF Calls
<1> QED
  BY <1>2, <1>3, <1>4, <1>5 DEF Next, PoolStep

\* The tasks that packetReceived submits.
LEMMA SubmittedFacts ==
  ASSUME NEW e \in PacketEvents
  PROVE  /\ \A u \in Range(Submitted(e)) : u.n = e.n /\ u.body = e.body /\ u.at = "parse"
         /\ \A kind \in Wired(e.body.type) : Task(kind, e) \in Range(Submitted(e))
<1> DEFINE S(kind) == Task(kind, e)
           T == {S(kind) : kind \in Wired(e.body.type)}
<1>1. ASSUME NEW kind PROVE S(kind).n = e.n /\ S(kind).body = e.body /\ S(kind).at = "parse"
  BY DEF Task
<1>2. ASSUME NEW a, NEW b PROVE Range(<<a, b>>) = {a, b} /\ Range(<<a>>) = {a} /\ Range(<<>>) = {}
  BY DEF Range
<1> HIDE DEF S
<1>3. Range(Submitted(e)) = T
  <2>1. CASE e.body.type = "CAMERA"
    <3>1. Submitted(e) = <<S("camera"), S("device")>>
      BY <2>1 DEF Submitted, S
    <3>2. Wired(e.body.type) = {"camera", "device"}
      BY <2>1 DEF Wired
    <3>3. Range(Submitted(e)) = {S("camera"), S("device")}
      BY <1>2, <3>1, Zenon
    <3>4. T = {S("camera"), S("device")}
      BY <3>2
    <3> QED
      BY <3>3, <3>4
  <2>2. CASE e.body.type = "AVAILABLE"
    <3>1. Submitted(e) = <<S("available"), S("server")>>
      BY <2>2 DEF Submitted, S
    <3>2. Wired(e.body.type) = {"available", "server"}
      BY <2>2 DEF Wired
    <3>3. Range(Submitted(e)) = {S("available"), S("server")}
      BY <1>2, <3>1, Zenon
    <3>4. T = {S("available"), S("server")}
      BY <3>2
    <3> QED
      BY <3>3, <3>4
  <2>3. CASE e.body.type = "META"
    <3>1. Submitted(e) = <<S("meta")>>
      BY <2>3 DEF Submitted, S
    <3>2. Wired(e.body.type) = {"meta"}
      BY <2>3 DEF Wired
    <3>3. Range(Submitted(e)) = {S("meta")}
      BY <1>2, <3>1, Zenon
    <3>4. T = {S("meta")}
      BY <3>2
    <3> QED
      BY <3>3, <3>4
  <2>4. CASE e.body.type = "AI"
    <3>1. Submitted(e) = <<S("alarm"), S("count")>>
      BY <2>4 DEF Submitted, S
    <3>2. Wired(e.body.type) = {"alarm", "count"}
      BY <2>4 DEF Wired
    <3>3. Range(Submitted(e)) = {S("alarm"), S("count")}
      BY <1>2, <3>1, Zenon
    <3>4. T = {S("alarm"), S("count")}
      BY <3>2
    <3> QED
      BY <3>3, <3>4
  <2>5. CASE e.body.type = "IMAGE"
    <3>1. Submitted(e) = <<S("image")>>
      BY <2>5 DEF Submitted, S
    <3>2. Wired(e.body.type) = {"image"}
      BY <2>5 DEF Wired
    <3>3. Range(Submitted(e)) = {S("image")}
      BY <1>2, <3>1, Zenon
    <3>4. T = {S("image")}
      BY <3>2
    <3> QED
      BY <3>3, <3>4
  <2>6. CASE e.body.type \notin {"CAMERA", "AVAILABLE", "META", "AI", "IMAGE"}
    <3>1. Submitted(e) = <<>>
      BY <2>6 DEF Submitted
    <3>2. Wired(e.body.type) = {}
      BY <2>6 DEF Wired
    <3>3. Range(Submitted(e)) = {}
      BY <1>2, <3>1, Zenon
    <3>4. T = {}
      BY <3>2
    <3> QED
      BY <3>3, <3>4
  <2> QED
    BY <2>1, <2>2, <2>3, <2>4, <2>5, <2>6
<1> QED
  BY <1>1, <1>3 DEF S

\* The packet whose signal is handled.
LEMMA PacketHandled ==
  ASSUME DataTypes, packetReceived
  PROVE  /\ Head(events) \in PacketEvents /\ Head(events) \in Calls /\ Head(events).type = "packet"
         /\ Work' = Work \cup Range(Submitted(Head(events)))
<1> DEFINE e == Head(events)
<1>1. events \in Seq(Events) /\ queue_ \in Seq(FreshTasks) /\ Handling("packet")
  BY DEF DataTypes, PoolOK, packetReceived
<1>2. e \in Events /\ e.type = "packet" /\ e \in Calls
  BY <1>1, HandlingFacts, RangeFacts DEF Handling, Calls
<1>3. e \in PacketEvents
  BY <1>2, EventFacts DEF PacketEvents
<1>4. queue_' = queue_ \o Submitted(e) /\ running' = running
  BY DEF packetReceived
<1> HIDE DEF e
<1>5. Submitted(e) \in Seq(FreshTasks)
  BY <1>3, SubmittedType
<1>6. Range(queue_ \o Submitted(e)) = Range(queue_) \cup Range(Submitted(e))
  BY <1>1, <1>5, RangeFacts
<1>7. Work' = Work \cup Range(Submitted(e))
  BY <1>4, <1>6 DEF Work
<1> QED
  BY <1>2, <1>3, <1>7 DEF e

\* The queue of tasks changes when a packet's tasks are submitted and when one starts.
LEMMA QueueKept ==
  ASSUME [Next]_vars
  PROVE  queue_' = queue_ \/ packetReceived \/ StartTask
<1>1. ASSUME NEW t \in running, TaskStep(t) PROVE queue_' = queue_
  BY <1>1 DEF TaskStep, Parse, UsesDestroyedStore, StoreUrl, StoreCameras, PostCameras, FindSensorCameras,
     updateDeviceInfo, PostSensor, FindCountCameras, updateAiInfo, FindImageCameras, PostImage, StoreDevices,
     PostDevices, StoreServer, PostServer, PostAlarm
<1>2. CASE GuiStep
  BY <1>2 DEF GuiStep, camerasUpdated, updateSensorInfo, devicesUpdated, serverUpdated,
     onPendingListReceived, onImageReceivedBase64, onAlarm
<1>3. CASE User \/ (\E p \in Contents : Receive(p)) \/ ShutdownStep \/ Gone \/ UNCHANGED vars
  BY <1>3 DEF User, Login, logoutRequested, dismiss, Quit, Receive, ShutdownStep, Disconnected, ResetStore, PoolJoined, Gone, vars
<1> QED
  BY <1>1, <1>2, <1>3 DEF Next, PoolStep

\* Where a task comes from.
LEMMA NewWork ==
  ASSUME DataTypes, [Next]_vars, NEW u \in Work'
  PROVE  \/ u \in Work
         \/ packetReceived /\ u \in Range(Submitted(Head(events)))
         \/ \E t \in running : TaskStep(t) /\ u.kind = t.kind /\ u.body = t.body /\ u.n = t.n /\ Goes(t, u.at, u.left)
<1>1. queue_ \in Seq(FreshTasks)
  BY DEF DataTypes, PoolOK
<1>2. CASE packetReceived
  BY <1>2, PacketHandled
<1>3. CASE u \in running'
  BY <1>3, NewTasks DEF Work
<1>4. CASE StartTask /\ u \notin running'
  <2>1. queue_ # <<>> /\ queue_' = Tail(queue_)
    BY <1>4 DEF StartTask
  <2>2. Range(queue_') \subseteq Range(queue_)
    BY <1>1, <2>1, RangeFacts
  <2> QED
    BY <1>4, <2>2 DEF Work
<1>5. CASE queue_' = queue_ /\ u \notin running'
  BY <1>5 DEF Work
<1> QED
  BY <1>2, <1>3, <1>4, <1>5, QueueKept

\* A task is there until it takes a step itself.
LEMMA WorkKept ==
  ASSUME DataTypes, [Next]_vars, NEW t \in Work
  PROVE  t \in Work' \/ (t \in running /\ TaskStep(t))
<1>1. queue_ \in Seq(FreshTasks)
  BY DEF DataTypes, PoolOK
<1>2. CASE packetReceived
  BY <1>2, PacketHandled
<1>3. CASE StartTask
  <2>1. queue_ # <<>> /\ queue_' = Tail(queue_) /\ running' = running \cup {Head(queue_)}
    BY <1>3 DEF StartTask
  <2>2. Range(queue_) = {Head(queue_)} \cup Range(Tail(queue_))
    BY <1>1, <2>1, RangeFacts
  <2> QED
    BY <2>1, <2>2 DEF Work
<1>4. ASSUME NEW s \in running, TaskStep(s) PROVE t \in Work' \/ (t \in running /\ TaskStep(t))
  <2>1. queue_' = queue_ /\ \A v \in running : v \in running' \/ v = s
    <3>1. CASE Parse(s) \/ UsesDestroyedStore(s) \/ StoreUrl(s) \/ StoreCameras(s) \/ PostCameras(s)
      BY <3>1, Zenon DEF Parse, UsesDestroyedStore, StoreUrl, StoreCameras, PostCameras, FirstStep, Goes, Ends
    <3>2. CASE \/ FindSensorCameras(s) \/ updateDeviceInfo(s) \/ PostSensor(s) \/ FindCountCameras(s) \/ updateAiInfo(s)
      BY <3>2, Zenon DEF FindSensorCameras, updateDeviceInfo, PostSensor, FindCountCameras, updateAiInfo, Goes, Ends
    <3>3. CASE FindImageCameras(s) \/ PostImage(s, "post") \/ PostImage(s, "moved")
      BY <3>3, Zenon DEF FindImageCameras, PostImage, Goes, Ends
    <3>4. CASE StoreDevices(s) \/ PostDevices(s) \/ StoreServer(s) \/ PostServer(s) \/ PostAlarm(s)
      BY <3>4, Zenon DEF StoreDevices, PostDevices, StoreServer, PostServer, PostAlarm, Goes, Ends
    <3> QED
      BY <1>4, <3>1, <3>2, <3>3, <3>4 DEF TaskStep
  <2> QED
    BY <1>4, <2>1 DEF Work
<1>5. CASE queue_' = queue_ /\ running' = running
  BY <1>5 DEF Work
<1>6. CASE GuiStep /\ ~packetReceived
  <2>1. queue_' = queue_ /\ running' = running
    BY <1>6 DEF GuiStep, camerasUpdated, updateSensorInfo, devicesUpdated, serverUpdated,
       onPendingListReceived, onImageReceivedBase64, onAlarm
  <2> QED
    BY <1>5, <2>1
<1>7. CASE User \/ (\E p \in Contents : Receive(p)) \/ ShutdownStep \/ Gone \/ UNCHANGED vars
  <2>1. queue_' = queue_ /\ running' = running
    BY <1>7 DEF User, Login, logoutRequested, dismiss, Quit, Receive, ShutdownStep, Disconnected, ResetStore, PoolJoined, Gone, vars
  <2> QED
    BY <1>5, <2>1
<1> QED
  BY <1>2, <1>3, <1>4, <1>6, <1>7 DEF Next, PoolStep

\* A task that goes on.
LEMMA GoesFacts ==
  ASSUME NEW t \in GoodTasks, NEW at, NEW left, Goes(t, at, left)
  PROVE  \E u \in running' : /\ u.kind = t.kind /\ u.n = t.n /\ u.body = t.body /\ u.at = at /\ u.left = left
                             /\ running' = (running \ {t}) \cup {u}
<1> DEFINE u == [t EXCEPT !.at = at, !.left = left]
<1>1. running' = (running \ {t}) \cup {u}
  BY Zenon DEF Goes
<1>2. u.kind = t.kind /\ u.n = t.n /\ u.body = t.body /\ u.at = at /\ u.left = left
  <2>1. t \in ListTasks \/ t \in FoundTasks \/ t \in DeviceTasks \/ t \in CopyTasks \/ t \in PlainTasks
    BY DEF GoodTasks, Tasks
  <2> QED
    BY <2>1 DEF ListTasks, FoundTasks, DeviceTasks, CopyTasks, PlainTasks
<1> HIDE DEF u
<1> QED
  BY <1>1, <1>2

-------------------------------------------------------------------------------
(* A packet that found nothing under way *)

LonePacket == process = "up" /\ lone # <<>> /\ lone[2].form = "ok"

Unmoved == UNCHANGED <<events, queue_, running, stores, models>>

\* The packet has just come.
Begins(p) == Receive(p) /\ Idle /\ lone' = <<received + 1, p, cleared>>

\* The work for it goes on.
GoesOn ==
  /\ LonePacket /\ lone' = lone /\ received' = received /\ process' = "up"
  /\ \/ GuiStep \/ StartTask \/ (\E t \in running : TaskStep(t)) \/ Unmoved

\* What a packet is called with it.
LEMMA LoneFacts ==
  ASSUME DataTypes, LonePacket
  PROVE  /\ lone[1] \in Nums /\ lone[2] \in Contents /\ lone[3] \in BOOLEAN /\ lone[2].form = "ok"
         /\ process = "up"
BY DEF DataTypes, ControlOK, LonePacket

\* The steps that leave such a packet alone: another packet, the user's and the end of
\* the program are not among them.
LEMMA LoneSteps ==
  ASSUME DataTypes, [Next]_vars, LonePacket'
  PROVE  (\E p \in Contents : Begins(p)) \/ GoesOn
<1>1. process' = "up" /\ lone' # <<>> /\ lone'[2].form = "ok"
  BY DEF LonePacket
<1>2. ASSUME lone' = lone, process = "up" PROVE LonePacket
  BY <1>1, <1>2 DEF LonePacket
<1>3. ASSUME NEW p \in Contents, Receive(p) PROVE Begins(p)
  BY <1>1, <1>3 DEF Receive, Begins
<1>4. CASE Login \/ UNCHANGED vars
  <2>1. lone' = lone /\ process' = process /\ received' = received /\ Unmoved
    BY <1>4 DEF Login, vars, control, Unmoved
  <2> QED
    BY <1>1, <1>2, <2>1 DEF GoesOn
<1>5. CASE logoutRequested \/ (\E i \in DOMAIN alarms_ : dismiss(i)) \/ Quit \/ ShutdownStep \/ Gone
  <2>1. lone' = <<>> \/ process' # "up"
    BY <1>5 DEF logoutRequested, dismiss, Quit, ShutdownStep, Disconnected, ResetStore, PoolJoined, Gone, vars, control
  <2> QED
    BY <1>1, <2>1
<1>6. CASE GuiStep \/ StartTask
  <2>1. lone' = lone /\ process' = process /\ received' = received
    BY <1>6 DEF GuiStep, packetReceived, camerasUpdated, updateSensorInfo, devicesUpdated, serverUpdated,
       onPendingListReceived, onImageReceivedBase64, onAlarm, StartTask, control
  <2> QED
    BY <1>1, <1>2, <1>6, <2>1 DEF GoesOn
<1>7. ASSUME NEW t \in running, TaskStep(t) PROVE GoesOn
  <2>1. lone' = lone /\ received' = received /\ (process' = process \/ process' \in {"aborted", "undefined"})
    BY <1>7 DEF TaskStep, Parse, UsesDestroyedStore, StoreUrl, StoreCameras, PostCameras, FindSensorCameras,
       updateDeviceInfo, PostSensor, FindCountCameras, updateAiInfo, FindImageCameras, PostImage, StoreDevices,
       PostDevices, StoreServer, PostServer, PostAlarm, control
  <2> QED
    BY <1>1, <1>2, <1>7, <2>1 DEF GoesOn
<1> QED
  BY <1>3, <1>4, <1>5, <1>6, <1>7 DEF Next, PoolStep, User

\* A call of the work for packet n with contents p.
Belongs(e, n, p) ==
  /\ e.type # "devices" => e.n = n
  /\ e.type \in {"packet", "pending"} => e.body = p
  /\ e.type = "pending" => p.type = "ASSIGN"
  /\ e.type = "cameras" => p.type = "CAMERA" /\ e.list = p.list
  /\ e.type = "devices" => p.type \in {"CAMERA", "AVAILABLE"}
  /\ e.type = "server" => p.type = "AVAILABLE" /\ e.server = (IF p.server THEN n ELSE 0)
  /\ e.type = "sensor" => p.type = "META"
  /\ e.type = "image" => p.type = "IMAGE"
  /\ e.type = "alarm" => p.type = "AI"

\* All that is under way is the work for that packet.
LoneWork ==
  LonePacket => /\ \A t \in Work : t.n = lone[1] /\ t.body = lone[2]
                /\ \A e \in Calls : Belongs(e, lone[1], lone[2])

\* A task posts a call of its packet.
LEMMA CallBelongs ==
  ASSUME NEW t \in GoodTasks, NEW e, PostsCall(t, e)
  PROVE  Belongs(e, t.n, t.body)
<1>1. Fits(t)
  BY TaskFacts
<1>2. CASE PostCameras(t) /\ e = CamerasCall(t)
  <2>1. t.body.type = "CAMERA"
    BY <1>1, <1>2 DEF PostCameras, At, Fits
  <2>2. e.type = "cameras" /\ e.n = t.n /\ e.list = t.body.list
    BY <1>2 DEF CamerasCall
  <2> QED
    BY <2>1, <2>2 DEF Belongs
<1>3. CASE PostDevices(t) /\ e = DevicesCall(t)
  <2>1. t.body.type \in {"CAMERA", "AVAILABLE"}
    BY <1>1, <1>3 DEF PostDevices, At, Fits
  <2>2. e.type = "devices"
    BY <1>3 DEF DevicesCall
  <2> QED
    BY <2>1, <2>2 DEF Belongs
<1>4. CASE PostSensor(t) /\ e = SensorCall(t)
  <2>1. t.body.type = "META"
    BY <1>1, <1>4 DEF PostSensor, At, Fits
  <2>2. e.type = "sensor" /\ e.n = t.n
    BY <1>4 DEF SensorCall
  <2> QED
    BY <2>1, <2>2 DEF Belongs
<1>5. CASE PostImage(t, t.at) /\ e = ImageCall(t)
  <2>1. t.body.type = "IMAGE"
    BY <1>1, <1>5 DEF PostImage, At, Fits
  <2>2. e.type = "image" /\ e.n = t.n
    BY <1>5 DEF ImageCall
  <2> QED
    BY <2>1, <2>2 DEF Belongs
<1>6. CASE PostServer(t) /\ e = ServerCall(t)
  <2>1. t.body.type = "AVAILABLE"
    BY <1>1, <1>6 DEF PostServer, At, Fits
  <2>2. e.type = "server" /\ e.n = t.n /\ e.server = ServerPart(t)
    BY <1>6 DEF ServerCall
  <2> QED
    BY <2>1, <2>2 DEF Belongs, ServerPart
<1>7. CASE PostAlarm(t) /\ e = AlarmCall(t)
  <2>1. t.body.type = "AI"
    BY <1>1, <1>7 DEF PostAlarm, At, Fits
  <2>2. e.type = "alarm" /\ e.n = t.n
    BY <1>7 DEF AlarmCall
  <2> QED
    BY <2>1, <2>2 DEF Belongs
<1> QED
  BY <1>2, <1>3, <1>4, <1>5, <1>6, <1>7 DEF PostsCall

\* What is under way when such a packet has just come.
LEMMA BeginsFacts ==
  ASSUME DataTypes, NEW p \in Contents, Begins(p)
  PROVE  /\ events' = <<PacketCall(p)>> /\ Calls' = {PacketCall(p)}
         /\ queue_' = <<>> /\ running' = {} /\ Work' = {}
         /\ lone'[1] = received + 1 /\ lone'[2] = p /\ lone'[3] = cleared
         /\ UNCHANGED stores /\ UNCHANGED models
         /\ PacketCall(p).type = "packet" /\ PacketCall(p).n = received + 1 /\ PacketCall(p).body = p
<1>1. events = <<>> /\ queue_ = <<>> /\ running = {} /\ lone' = <<received + 1, p, cleared>>
  BY DEF Begins, Idle
<1>2. events' = Append(events, PacketCall(p)) /\ queue_' = queue_ /\ running' = running /\ UNCHANGED stores /\ UNCHANGED models
  BY DEF Begins, Receive, PacketCall
<1>3. events' = <<PacketCall(p)>>
  BY <1>1, <1>2
<1>4. Calls' = {PacketCall(p)}
  BY <1>3 DEF Calls, Range
<1>5. Work' = {}
  BY <1>1, <1>2 DEF Work, Range
<1>6. PacketCall(p).type = "packet" /\ PacketCall(p).n = received + 1 /\ PacketCall(p).body = p
  BY DEF PacketCall
<1> QED
  BY <1>1, <1>2, <1>3, <1>4, <1>5, <1>6

\* Every step keeps it so.
LEMMA LoneWorkStep == DataTypes /\ LoneWork /\ [Next]_vars => LoneWork'
<1> SUFFICES ASSUME DataTypes, LoneWork, [Next]_vars, LonePacket'
             PROVE  /\ \A t \in Work' : t.n = lone'[1] /\ t.body = lone'[2]
                    /\ \A e \in Calls' : Belongs(e, lone'[1], lone'[2])
  BY DEF LoneWork
<1>1. ASSUME NEW p \in Contents, Begins(p)
      PROVE  /\ \A t \in Work' : t.n = lone'[1] /\ t.body = lone'[2]
             /\ \A e \in Calls' : Belongs(e, lone'[1], lone'[2])
  <2>1. Belongs(PacketCall(p), received + 1, p)
    BY <1>1, BeginsFacts DEF Belongs
  <2> QED
    BY <1>1, <2>1, BeginsFacts
<1>2. CASE GoesOn
  <2> DEFINE n == lone[1]
             p == lone[2]
  <2>1. /\ lone' = lone /\ \A t \in Work : t.n = n /\ t.body = p
        /\ \A e \in Calls : Belongs(e, n, p)
        /\ \A t \in running : t \in Work
    BY <1>2 DEF GoesOn, LoneWork, Work
  <2>2. running \subseteq GoodTasks /\ received \in Nat
    BY DEF DataTypes, PoolOK, ControlOK, Numbers
  <2>3. ASSUME packetReceived PROVE Head(events) \in PacketEvents /\ Head(events).n = n /\ Head(events).body = p
    BY <2>1, <2>3, PacketHandled DEF Belongs
  <2> HIDE DEF n, p
  <2>4. ASSUME NEW u \in Work' PROVE u.n = n /\ u.body = p
    <3>1. CASE packetReceived /\ u \in Range(Submitted(Head(events)))
      BY <2>3, <3>1, SubmittedFacts
    <3> QED
      BY <2>1, <3>1, NewWork
  <2>5. ASSUME NEW e \in Calls' PROVE Belongs(e, n, p)
    <3>1. \A q \in Contents : ~Receive(q)
      BY <1>2, <2>2 DEF Receive, GoesOn
    <3>2. ASSUME packetReceived, Head(events).body.type = "ASSIGN", e = [Head(events) EXCEPT !.type = "pending"]
          PROVE  Belongs(e, n, p)
      <4> DEFINE h == Head(events)
      <4>1. h \in PacketEvents /\ h.n = n /\ h.body = p
        BY <2>3, <3>2
      <4>2. e = [h EXCEPT !.type = "pending"] /\ p.type = "ASSIGN"
        BY <3>2, <4>1
      <4> HIDE DEF h
      <4>3. e.type = "pending" /\ e.n = n /\ e.body = p
        BY <4>1, <4>2 DEF PacketEvents
      <4> QED
        BY <4>2, <4>3 DEF Belongs
    <3>3. ASSUME NEW t \in running, PostsCall(t, e) PROVE Belongs(e, n, p)
      <4>1. Belongs(e, t.n, t.body)
        BY <2>2, <3>3, CallBelongs
      <4> QED
        BY <2>1, <4>1
    <3> QED
      BY <2>1, <3>1, <3>2, <3>3, NewCalls
  <2> QED
    BY <2>1, <2>4, <2>5 DEF n, p
<1> QED
  BY <1>1, <1>2, LoneSteps

\* The handlers, by what they handle.
LEMMA Handlers ==
  ASSUME DataTypes, GuiStep
  PROVE  LET e == Head(events) IN
         /\ packetReceived <=> e.type = "packet"
         /\ camerasUpdated <=> e.type = "cameras"
         /\ updateSensorInfo <=> e.type = "sensor"
         /\ devicesUpdated <=> e.type = "devices"
         /\ serverUpdated <=> e.type = "server"
         /\ onPendingListReceived <=> e.type = "pending"
         /\ onImageReceivedBase64 <=> e.type = "image"
         /\ onAlarm <=> e.type = "alarm"
BY DEF GuiStep, packetReceived, camerasUpdated, updateSensorInfo, devicesUpdated, serverUpdated,
   onPendingListReceived, onImageReceivedBase64, onAlarm, Handling

\* While the work goes on, each model is changed by its handlers.
LEMMA ModelsKept ==
  ASSUME GoesOn
  PROVE  /\ cameras' = cameras \/ camerasUpdated \/ updateSensorInfo
         /\ deviceRows' = deviceRows \/ devicesUpdated
         /\ server' = server \/ serverUpdated
         /\ users' = users \/ onPendingListReceived
         /\ images' = images \/ onImageReceivedBase64
         /\ alarms_' = alarms_ \/ onAlarm
<1>1. CASE GuiStep
  BY <1>1 DEF GuiStep, packetReceived, camerasUpdated, updateSensorInfo, devicesUpdated, serverUpdated,
     onPendingListReceived, onImageReceivedBase64, onAlarm, models
<1>2. CASE StartTask \/ Unmoved
  BY <1>2 DEF StartTask, Unmoved, models
<1>3. ASSUME NEW t \in running, TaskStep(t) PROVE UNCHANGED models
  BY <1>3 DEF TaskStep, Parse, UsesDestroyedStore, StoreUrl, StoreCameras, PostCameras, FindSensorCameras,
     updateDeviceInfo, PostSensor, FindCountCameras, updateAiInfo, FindImageCameras, PostImage, StoreDevices,
     PostDevices, StoreServer, PostServer, PostAlarm
<1> QED
  BY <1>1, <1>2, <1>3 DEF GoesOn, models

\* The call that a handler handles belongs to the packet.
LEMMA HeadBelongs ==
  ASSUME DataTypes, LoneWork, GoesOn, GuiStep
  PROVE  /\ Head(events) \in Calls /\ Head(events) \in Events
         /\ Belongs(Head(events), lone[1], lone[2])
BY GuiCalls DEF DataTypes, LoneWork, GoesOn

\* After a logout that found nothing under way, the models show nothing until the next
\* packet comes.
ClearedInv ==
  cleared => /\ Idle
             /\ \A c \in Cameras : cameras[c] = Absent /\ images[c] = <<>>
             /\ alarms_ = <<>> /\ users = 0

\* Every step keeps it so.
LEMMA ClearedStep == DataTypes /\ ClearedInv /\ [Next]_vars => ClearedInv'
<1> SUFFICES ASSUME DataTypes, ClearedInv, [Next]_vars PROVE ClearedInv'
  OBVIOUS
<1>1. cleared' \in BOOLEAN
  BY DataStep DEF DataTypes, ControlOK
<1> SUFFICES ASSUME cleared' = TRUE PROVE ClearedInv'
  BY <1>1 DEF ClearedInv
<1>2. CASE logoutRequested
  <2>1. Idle
    BY <1>2 DEF logoutRequested
  <2>2. /\ UNCHANGED <<events, queue_, running>> /\ users' = 0 /\ alarms_' = <<>>
        /\ cameras' = [c \in Cameras |-> Absent] /\ images' = [c \in Cameras |-> <<>>]
    BY <1>2 DEF logoutRequested
  <2>3. Idle'
    BY <2>1, <2>2 DEF Idle
  <2>4. \A c \in Cameras : cameras'[c] = Absent /\ images'[c] = <<>>
    BY <2>2
  <2> QED
    BY <2>2, <2>3, <2>4 DEF ClearedInv
<1>3. CASE cleared = TRUE /\ ~logoutRequested
  <2>1. /\ events = <<>> /\ queue_ = <<>> /\ running = {} /\ alarms_ = <<>>
        /\ \A c \in Cameras : cameras[c] = Absent /\ images[c] = <<>>
        /\ users = 0
    BY <1>3 DEF ClearedInv, Idle
  <2>2. ~GuiStep /\ ~PoolStep
    BY <2>1 DEF GuiStep, packetReceived, camerasUpdated, updateSensorInfo, devicesUpdated, serverUpdated,
       onPendingListReceived, onImageReceivedBase64, onAlarm, Handling, PoolStep, StartTask
  <2>3. \A i \in DOMAIN alarms_ : FALSE
    BY <2>1
  <2>4. UNCHANGED <<events, queue_, running, models>>
    BY <1>3, <2>2, <2>3 DEF Next, User, Login, Quit, Receive, ShutdownStep, Disconnected, ResetStore, PoolJoined, Gone, vars
  <2> QED
    BY <2>1, <2>4 DEF ClearedInv, Idle, models
<1>4. CASE cleared # TRUE /\ ~logoutRequested
  <2>1. cleared' = cleared \/ cleared' = FALSE
    <3>1. ASSUME NEW t \in running, TaskStep(t) PROVE cleared' = cleared
      BY <3>1 DEF TaskStep, Parse, UsesDestroyedStore, StoreUrl, StoreCameras, PostCameras, FindSensorCameras,
         updateDeviceInfo, PostSensor, FindCountCameras, updateAiInfo, FindImageCameras, PostImage, StoreDevices,
         PostDevices, StoreServer, PostServer, PostAlarm, control
    <3>2. CASE GuiStep \/ StartTask
      BY <3>2 DEF GuiStep, packetReceived, camerasUpdated, updateSensorInfo, devicesUpdated, serverUpdated,
         onPendingListReceived, onImageReceivedBase64, onAlarm, StartTask, control
    <3>3. CASE Login \/ (\E i \in DOMAIN alarms_ : dismiss(i)) \/ Quit \/ (\E p \in Contents : Receive(p))
               \/ ShutdownStep \/ Gone \/ UNCHANGED vars
      BY <3>3 DEF Login, dismiss, Quit, Receive, ShutdownStep, Disconnected, ResetStore, PoolJoined, Gone, vars, control
    <3> QED
      BY <1>4, <3>1, <3>2, <3>3 DEF Next, PoolStep, User
  <2> QED
    BY <1>4, <2>1
<1> QED
  BY <1>2, <1>3, <1>4

\* Nothing but the first packet after such a logout is shown.
LoneElse == LonePacket /\ lone[3] => NothingElse(lone[2])

\* Every step keeps it so.
LEMMA LoneElseStep == DataTypes /\ LoneWork /\ ClearedInv /\ LoneElse /\ [Next]_vars => LoneElse'
<1> DEFINE Only(p) ==
             /\ \A c \in Cameras : cameras'[c] # Absent => p.type = "CAMERA" /\ c \in Listed(p.list)
             /\ \A c \in Cameras : images'[c] # <<>> => p.type = "IMAGE"
             /\ alarms_' # <<>> => p.type = "AI"
             /\ users' # 0 => p.type = "ASSIGN"
<1> SUFFICES ASSUME DataTypes, LoneWork, ClearedInv, LoneElse, [Next]_vars, LonePacket', lone'[3]
             PROVE  Only(lone'[2])
  BY DEF LoneElse, NothingElse
<1>2. ASSUME NEW p \in Contents, Begins(p) PROVE Only(lone'[2])
  <2>1. cleared /\ UNCHANGED models
    BY <1>2, BeginsFacts
  <2> QED
    BY <2>1 DEF ClearedInv, models
<1>3. CASE GoesOn
  <2> DEFINE p == lone[2]
             e == Head(events)
  <2>1. lone' = lone /\ NothingElse(p)
    BY <1>3 DEF GoesOn, LoneElse
  <2>2. GuiStep => Belongs(e, lone[1], p) /\ e \in Events
    BY <1>3, HeadBelongs
  <2>3. cameras \in [Cameras -> [shown : {"absent", "online", "offline"}, sensor : Numbers]]
    BY DEF DataTypes, ModelsOK
  <2>4. ASSUME NEW c \in Cameras, cameras'[c] # Absent PROVE p.type = "CAMERA" /\ c \in Listed(p.list)
    <3>1. CASE cameras[c] # Absent
      BY <2>1, <3>1 DEF NothingElse
    <3>2. CASE cameras[c] = Absent /\ camerasUpdated
      <4>1. e.type = "cameras" /\ cameras' = ShowsCameras(e.list) /\ GuiStep
        BY <3>2 DEF camerasUpdated, Handling, GuiStep
      <4>2. c \in Listed(e.list)
        BY <2>4, <3>2, <4>1 DEF ShowsCameras
      <4> QED
        BY <2>2, <4>1, <4>2 DEF Belongs
    <3>3. CASE cameras[c] = Absent /\ updateSensorInfo
      <4>1. cameras' = IF cameras[e.id] = Absent THEN cameras ELSE [cameras EXCEPT ![e.id].sensor = e.n]
        BY <3>3 DEF updateSensorInfo
      <4> HIDE DEF e
      <4>2. cameras'[c] = Absent
        BY <2>3, <3>3, <4>1
      <4> QED
        BY <2>4, <4>2
    <3> QED
      BY <1>3, <2>4, <3>1, <3>2, <3>3, ModelsKept
  <2>5. images' # images => p.type = "IMAGE"
    <3>1. onImageReceivedBase64 => GuiStep /\ e.type = "image"
      BY DEF GuiStep, onImageReceivedBase64, Handling
    <3> QED
      BY <1>3, <2>2, <3>1, ModelsKept DEF Belongs
  <2>6. alarms_' # alarms_ => p.type = "AI"
    <3>1. onAlarm => GuiStep /\ e.type = "alarm"
      BY DEF GuiStep, onAlarm, Handling
    <3> QED
      BY <1>3, <2>2, <3>1, ModelsKept DEF Belongs
  <2>7. users' # users => p.type = "ASSIGN"
    <3>1. onPendingListReceived => GuiStep /\ e.type = "pending"
      BY DEF GuiStep, onPendingListReceived, Handling
    <3> QED
      BY <1>3, <2>2, <3>1, ModelsKept DEF Belongs
  <2>8. Only(p)
    BY <2>1, <2>4, <2>5, <2>6, <2>7 DEF NothingElse
  <2> QED
    BY <2>1, <2>8
<1> QED
  BY <1>2, <1>3, LoneSteps

-------------------------------------------------------------------------------
(* From the packet to the call that shows it *)

Calling(type) == \E e \in Calls : e.type = type
Working(kind) == \E t \in Work : t.kind = kind

\* The call that a kind of task posts at its end.
CallOf(kind) ==
  CASE kind = "camera" -> "cameras"
    [] kind = "server" -> "server"
    [] kind = "alarm"  -> "alarm"
    [] OTHER           -> "devices"

\* The packet, its task or the task's call is on its way.
UnderWay(kind) == Calling("packet") \/ Working(kind) \/ Calling(CallOf(kind))

PlainKinds == {"camera", "device", "available", "server", "alarm"}

\* A task of these kinds goes on until it posts its call.
LEMMA TaskGoesOn ==
  ASSUME DataTypes, NEW t \in running, TaskStep(t), process = "up", process' = "up",
         t.body.form = "ok", t.kind \in PlainKinds, t.kind = "alarm" => t.body.alarm
  PROVE  (\E u \in running' : u.kind = t.kind) \/ Calling(CallOf(t.kind))'
<1>1. events \in Seq(Events) /\ t \in GoodTasks
  BY DEF DataTypes, PoolOK
<1>2. ASSUME NEW e, PostsCall(t, e) PROVE e.type = CallOf(t.kind)
  BY <1>2 DEF PostsCall, PostCameras, PostDevices, PostSensor, PostImage, PostServer, PostAlarm, At,
     CamerasCall, DevicesCall, ServerCall, AlarmCall, CallOf, PlainKinds
<1>3. CASE \E e : PostsCall(t, e)
  <2>1. PICK e : PostsCall(t, e) /\ Calls' = Calls \cup {e}
    BY <1>1, <1>3, TaskCalls
  <2>2. e \in Calls' /\ e.type = CallOf(t.kind)
    BY <1>2, <2>1
  <2> QED
    BY <2>2 DEF Calling
<1>4. CASE ~\E e : PostsCall(t, e)
  <2>1. ~PostCameras(t) /\ ~PostDevices(t) /\ ~PostServer(t) /\ ~PostAlarm(t)
    BY <1>4, Zenon DEF PostsCall
  <2>2. ASSUME NEW at, NEW left, Goes(t, at, left) PROVE \E u \in running' : u.kind = t.kind
    BY <1>1, <2>2, GoesFacts
  <2>3. CASE Parse(t)
    <3>1. ~ParseFails(t)
      BY DEF ParseFails, PlainKinds
    <3>2. FirstStep(t)
      BY <2>3, <3>1 DEF Parse
    <3>3. Goes(t, "table", t.body.list) \/ Goes(t, "post", <<>>) \/ Goes(t, "lock", <<>>)
      BY <3>2, Zenon DEF FirstStep
    <3> QED
      BY <2>2, <3>3
  <2>4. CASE StoreUrl(t) \/ StoreCameras(t)
    <3>1. Goes(t, "lock", <<>>) \/ Goes(t, "table", Tail(t.left)) \/ Goes(t, "post", <<>>)
      BY <2>4, Zenon DEF StoreUrl, StoreCameras
    <3> QED
      BY <2>2, <3>1
  <2>5. CASE StoreDevices(t) \/ StoreServer(t)
    <3>1. Goes(t, "post", <<version', devices_'>>) \/ Goes(t, "post", <<>>)
      BY <2>5, Zenon DEF StoreDevices, StoreServer
    <3> QED
      BY <2>2, <3>1
  <2> QED
    BY <2>1, <2>3, <2>4, <2>5 DEF TaskStep, UsesDestroyedStore, FindSensorCameras, updateDeviceInfo, PostSensor,
       FindCountCameras, updateAiInfo, FindImageCameras, PostImage, Locks, At, PlainKinds
<1> QED
  BY <1>3, <1>4

\* It is on its way until the call is handled.
LEMMA UnderWayStep ==
  ASSUME DataTypes, LoneWork, [Next]_vars, GoesOn, NEW kind \in PlainKinds, kind \in Wired(lone[2].type),
         kind = "alarm" => lone[2].alarm, UnderWay(kind)
  PROVE  UnderWay(kind)' \/ (GuiStep /\ Head(events).type = CallOf(kind))
<1> DEFINE type == CallOf(kind)
<1>1. process' = "up" /\ process = "up" /\ lone[2].form = "ok" /\ LonePacket
  BY DEF GoesOn, LonePacket
<1>2. CASE Calling("packet")
  <2>1. PICK e \in Calls : e.type = "packet"
    BY <1>2 DEF Calling
  <2>2. CASE e \in Calls'
    BY <2>1, <2>2 DEF Calling, UnderWay
  <2>3. CASE GuiStep /\ e = Head(events)
    <3>1. packetReceived
      BY <2>1, <2>3, Handlers
    <3>2. e \in PacketEvents /\ Work' = Work \cup Range(Submitted(e))
      BY <2>3, <3>1, PacketHandled
    <3>3. e.body = lone[2]
      BY <1>1, <2>1 DEF LoneWork, Belongs
    <3>4. Task(kind, e) \in Work'
      BY <3>2, <3>3, SubmittedFacts
    <3>5. Task(kind, e).kind = kind
      BY DEF Task
    <3> QED
      BY <3>4, <3>5 DEF Working, UnderWay
  <2> QED
    BY <1>1, <2>2, <2>3, CallsKept
<1>3. CASE Working(kind)
  <2>1. PICK t \in Work : t.kind = kind
    BY <1>3 DEF Working
  <2>2. CASE t \in Work'
    BY <2>1, <2>2 DEF Working, UnderWay
  <2>3. CASE t \in running /\ TaskStep(t)
    <3>1. t.body = lone[2]
      BY <1>1, <2>1 DEF LoneWork
    <3>2. (\E u \in running' : u.kind = t.kind) \/ Calling(CallOf(t.kind))'
      BY <1>1, <2>1, <2>3, <3>1, TaskGoesOn
    <3> QED
      BY <2>1, <3>2 DEF UnderWay, Working, Work
  <2> QED
    BY <2>2, <2>3, WorkKept
<1>4. CASE Calling(type)
  <2>1. PICK e \in Calls : e.type = type
    BY <1>4 DEF Calling
  <2> QED
    BY <1>1, <2>1, CallsKept DEF Calling, UnderWay
<1> QED
  BY <1>2, <1>3, <1>4 DEF UnderWay

\* What an AVAILABLE packet, an alarm and a list of users must have reached.
LoneServer ==
  LonePacket /\ lone[2].type = "AVAILABLE" =>
    \/ UnderWay("server")
    \/ server.devices = lone[1] /\ server.server = (IF lone[2].server THEN lone[1] ELSE 0)

LoneAlarm ==
  LonePacket /\ lone[2].type = "AI" /\ lone[2].alarm =>
    UnderWay("alarm") \/ (alarms_ # <<>> /\ Last(alarms_).n = lone[1])

LoneUsers ==
  LonePacket /\ lone[2].type = "ASSIGN" =>
    Calling("packet") \/ Calling("pending") \/ (lone[2].ok => users = lone[1])

\* The packet that has just come is on its way.
LEMMA PacketCalling ==
  ASSUME DataTypes, NEW p \in Contents, Begins(p)
  PROVE  Calling("packet")' /\ \A kind : UnderWay(kind)'
<1>1. PacketCall(p) \in Calls' /\ PacketCall(p).type = "packet"
  BY BeginsFacts
<1> QED
  BY <1>1 DEF Calling, UnderWay

\* ServerStatusModel shows the packet.
LEMMA LoneServerStep == DataTypes /\ LoneWork /\ LoneServer /\ [Next]_vars => LoneServer'
<1> DEFINE Done(s) == s.devices = lone[1] /\ s.server = (IF lone[2].server THEN lone[1] ELSE 0)
<1> SUFFICES ASSUME DataTypes, LoneWork, LoneServer, [Next]_vars, LonePacket', lone'[2].type = "AVAILABLE",
                    ~UnderWay("server")'
             PROVE  server'.devices = lone'[1] /\ server'.server = (IF lone'[2].server THEN lone'[1] ELSE 0)
  BY DEF LoneServer
<1>1. GoesOn
  BY LoneSteps, PacketCalling
<1>2. lone' = lone /\ lone[2].type = "AVAILABLE" /\ LonePacket
  BY <1>1 DEF GoesOn
<1>3. ASSUME serverUpdated PROVE Done(server')
  <2> DEFINE e == Head(events)
  <2>1. GuiStep /\ e.type = "server"
    BY <1>3 DEF GuiStep, serverUpdated, Handling
  <2>2. e.n = lone[1] /\ e.server = (IF lone[2].server THEN lone[1] ELSE 0)
    BY <1>1, <2>1, HeadBelongs DEF Belongs
  <2>3. server'.devices = e.n /\ server'.server = e.server
    BY <1>3 DEF serverUpdated
  <2> QED
    BY <2>2, <2>3
<1>4. CASE UnderWay("server")
  <2>1. "server" \in PlainKinds /\ "server" \in Wired(lone[2].type) /\ CallOf("server") = "server"
    BY <1>2 DEF PlainKinds, Wired, CallOf
  <2>2. GuiStep /\ Head(events).type = "server"
    BY <1>1, <1>4, <2>1, UnderWayStep
  <2> QED
    BY <1>2, <1>3, <2>2, Handlers
<1>5. CASE Done(server)
  <2>1. Done(server')
    BY <1>1, <1>3, <1>5, ModelsKept
  <2> QED
    BY <1>2, <2>1
<1> QED
  BY <1>2, <1>4, <1>5 DEF LoneServer

\* The list of alarms ends with the packet's.
LEMMA LoneAlarmStep == DataTypes /\ LoneWork /\ LoneAlarm /\ [Next]_vars => LoneAlarm'
<1> DEFINE Done(s) == s # <<>> /\ Last(s).n = lone[1]
<1> SUFFICES ASSUME DataTypes, LoneWork, LoneAlarm, [Next]_vars, LonePacket', lone'[2].type = "AI", lone'[2].alarm,
                    ~UnderWay("alarm")'
             PROVE  alarms_' # <<>> /\ Last(alarms_').n = lone'[1]
  BY DEF LoneAlarm
<1>1. GoesOn
  BY LoneSteps, PacketCalling
<1>2. lone' = lone /\ lone[2].type = "AI" /\ lone[2].alarm /\ LonePacket
  BY <1>1 DEF GoesOn
<1>3. ASSUME onAlarm PROVE Done(alarms_')
  <2> DEFINE e == Head(events)
             old == IF Len(alarms_) >= kMaxAlarms THEN Tail(alarms_) ELSE alarms_
             x == [id |-> clock', n |-> e.n]
  <2>1. GuiStep /\ e.type = "alarm"
    BY <1>3 DEF GuiStep, onAlarm, Handling
  <2>2. e.n = lone[1]
    BY <1>1, <2>1, HeadBelongs DEF Belongs
  <2>3. alarms_' = Append(old, x)
    BY <1>3 DEF onAlarm
  <2>4. old \in Seq([id : Nat, n : Nums])
    <3>1. alarms_ \in Seq([id : Nat, n : Nums]) /\ kMaxAlarms \in Nat \ {0} /\ Len(alarms_) \in Nat
      BY DataAssumption DEF DataTypes, ModelsOK
    <3>2. Len(alarms_) >= kMaxAlarms => alarms_ # <<>>
      BY <3>1
    <3> QED
      BY <3>1, <3>2
  <2>5. x.n = e.n
    OBVIOUS
  <2> HIDE DEF x, old
  <2>6. Append(old, x) # <<>> /\ Append(old, x)[Len(Append(old, x))] = x
    BY <2>4
  <2> QED
    BY <2>2, <2>3, <2>5, <2>6 DEF Last
<1>4. CASE UnderWay("alarm")
  <2>1. "alarm" \in PlainKinds /\ "alarm" \in Wired(lone[2].type) /\ CallOf("alarm") = "alarm"
    BY <1>2 DEF PlainKinds, Wired, CallOf
  <2>2. GuiStep /\ Head(events).type = "alarm"
    BY <1>1, <1>2, <1>4, <2>1, UnderWayStep
  <2> QED
    BY <1>2, <1>3, <2>2, Handlers
<1>5. CASE Done(alarms_)
  <2>1. Done(alarms_')
    BY <1>1, <1>3, <1>5, ModelsKept
  <2> QED
    BY <1>2, <2>1
<1> QED
  BY <1>2, <1>4, <1>5 DEF LoneAlarm

\* UserModel shows the packet's list.
LEMMA LoneUsersStep == DataTypes /\ LoneWork /\ LoneUsers /\ [Next]_vars => LoneUsers'
<1> SUFFICES ASSUME DataTypes, LoneWork, LoneUsers, [Next]_vars, LonePacket', lone'[2].type = "ASSIGN",
                    ~Calling("packet")', ~Calling("pending")', lone'[2].ok
             PROVE  users' = lone'[1]
  BY DEF LoneUsers
<1>1. GoesOn
  BY LoneSteps, PacketCalling
<1>2. lone' = lone /\ lone[2].type = "ASSIGN" /\ LonePacket /\ process' = "up" /\ lone[2].ok
  BY <1>1 DEF GoesOn
<1>3. ASSUME onPendingListReceived PROVE users' = lone[1]
  <2> DEFINE e == Head(events)
  <2>1. GuiStep /\ e.type = "pending"
    BY <1>3 DEF GuiStep, onPendingListReceived, Handling
  <2>2. e.n = lone[1] /\ e.body = lone[2]
    BY <1>1, <2>1, HeadBelongs DEF Belongs
  <2>3. users' = IF e.body.ok THEN e.n ELSE users
    BY <1>3 DEF onPendingListReceived
  <2> HIDE DEF e
  <2> QED
    BY <1>2, <2>2, <2>3
<1>4. ASSUME NEW e \in Calls, e.type = "packet" PROVE FALSE
  <2>1. e \in Calls' \/ (GuiStep /\ e = Head(events))
    BY <1>2, CallsKept
  <2>2. GuiStep /\ e = Head(events)
    BY <1>4, <2>1 DEF Calling
  <2>3. packetReceived
    BY <1>4, <2>2, Handlers
  <2>4. e \in PacketEvents /\ e.body = lone[2]
    BY <1>2, <1>4, <2>2, <2>3, PacketHandled DEF LoneWork, Belongs
  <2>5. [e EXCEPT !.type = "pending"] \in Calls'
    BY <1>2, <2>2, <2>3, <2>4, GuiCalls DEF DataTypes
  <2>6. [e EXCEPT !.type = "pending"].type = "pending"
    BY <2>4 DEF PacketEvents
  <2> QED
    BY <2>5, <2>6 DEF Calling
<1>5. CASE Calling("pending")
  <2>1. PICK e \in Calls : e.type = "pending"
    BY <1>5 DEF Calling
  <2>2. e \in Calls' \/ (GuiStep /\ e = Head(events))
    BY <1>2, CallsKept
  <2>3. GuiStep /\ e = Head(events)
    BY <2>1, <2>2 DEF Calling
  <2> QED
    BY <1>2, <1>3, <2>1, <2>3, Handlers
<1>6. CASE users = lone[1]
  BY <1>1, <1>2, <1>3, <1>6, ModelsKept
<1> QED
  BY <1>2, <1>4, <1>5, <1>6 DEF LoneUsers, Calling

-------------------------------------------------------------------------------
(* From the packet to each camera found *)

\* The cameras of snapshot() that match an address.
Found(data, ip) == FindAll(<<>>, data, ip)

\* Found says what Matching says.
LEMMA MatchingIs ==
  ASSUME NEW ip
  PROVE  Matching(ip) = Found(data_, ip)
BY Zenon DEF Matching, Found, FindAll

\* The cameras are not looked up yet, or this one is still to be done.
Early(kind) == Calling("packet") \/ \E t \in Work : t.kind = kind /\ t.at \in {"parse", "lock"}
Left(kind, c) == \E t \in Work : t.kind = kind /\ t.at \in {"info", "post"} /\ c \in Range(t.left)

\* The tasks that work for a packet, by its type.
LEMMA LoneTasks ==
  ASSUME DataTypes, LoneWork, LonePacket, NEW t \in running
  PROVE  /\ t \in GoodTasks /\ t \in Work /\ t.n = lone[1] /\ t.body = lone[2] /\ t.body.form = "ok"
         /\ t.kind \in {"camera", "device"} => lone[2].type = "CAMERA"
         /\ t.kind \in {"available", "server"} => lone[2].type = "AVAILABLE"
         /\ t.kind = "meta" => lone[2].type = "META"
         /\ t.kind = "image" => lone[2].type = "IMAGE"
         /\ t.kind \in {"alarm", "count"} => lone[2].type = "AI"
<1>1. t \in GoodTasks /\ t \in Work
  BY DEF DataTypes, PoolOK, Work
<1>2. t.n = lone[1] /\ t.body = lone[2] /\ t.body.form = "ok"
  BY <1>1 DEF LoneWork, LonePacket
<1>3. Fits(t)
  BY <1>1, TaskFacts
<1> QED
  BY <1>1, <1>2, <1>3 DEF Fits

\* Only a camera list changes what snapshot() returns.
LEMMA DataKept ==
  ASSUME DataTypes, LoneWork, GoesOn, lone[2].type # "CAMERA"
  PROVE  data_' = data_
<1>1. LonePacket
  BY DEF GoesOn
<1>2. ASSUME NEW t \in running, TaskStep(t) PROVE data_' = data_
  <2>1. ~StoreCameras(t)
    BY <1>1, LoneTasks DEF StoreCameras, Locks, At
  <2> QED
    BY <1>2, <2>1 DEF TaskStep, Parse, UsesDestroyedStore, StoreUrl, PostCameras, FindSensorCameras,
       updateDeviceInfo, PostSensor, FindCountCameras, updateAiInfo, FindImageCameras, PostImage, StoreDevices,
       PostDevices, StoreServer, PostServer, PostAlarm, stores
<1>3. CASE GuiStep
  BY <1>3 DEF GuiStep, packetReceived, camerasUpdated, updateSensorInfo, devicesUpdated, serverUpdated,
     onPendingListReceived, onImageReceivedBase64, onAlarm, stores
<1>4. CASE StartTask \/ Unmoved
  BY <1>4 DEF StartTask, Unmoved, stores
<1> QED
  BY <1>2, <1>3, <1>4 DEF GoesOn

\* The task looks the cameras up.
LEMMA EarlyStep ==
  ASSUME DataTypes, LoneWork, [Next]_vars, GoesOn, NEW kind \in {"meta", "count"}, kind \in Wired(lone[2].type),
         kind = "count" => lone[2].count, Early(kind), NEW c \in Range(Found(data_, lone[2].ip))
  PROVE  Early(kind)' \/ Left(kind, c)'
<1>1. process' = "up" /\ process = "up" /\ lone[2].form = "ok" /\ LonePacket
  BY DEF GoesOn, LonePacket
<1>2. CASE Calling("packet")
  <2>1. PICK e \in Calls : e.type = "packet"
    BY <1>2 DEF Calling
  <2>2. CASE e \in Calls'
    BY <2>1, <2>2 DEF Calling, Early
  <2>3. CASE GuiStep /\ e = Head(events)
    <3>1. packetReceived
      BY <2>1, <2>3, Handlers
    <3>2. e \in PacketEvents /\ Work' = Work \cup Range(Submitted(e))
      BY <2>3, <3>1, PacketHandled
    <3>3. e.body = lone[2]
      BY <1>1, <2>1 DEF LoneWork, Belongs
    <3>4. Task(kind, e) \in Work'
      BY <3>2, <3>3, SubmittedFacts
    <3>5. Task(kind, e).kind = kind /\ Task(kind, e).at = "parse"
      BY DEF Task
    <3> QED
      BY <3>4, <3>5 DEF Early
  <2> QED
    BY <1>1, <2>2, <2>3, CallsKept
<1>3. ASSUME NEW t \in Work, t.kind = kind, t.at \in {"parse", "lock"} PROVE Early(kind)' \/ Left(kind, c)'
  <2>1. CASE t \in Work'
    BY <1>3, <2>1 DEF Early
  <2>2. CASE t \in running /\ TaskStep(t)
    <3>1. t \in GoodTasks /\ t.body = lone[2]
      BY <1>1, <2>2, LoneTasks
    <3>2. ASSUME NEW at, NEW left, Goes(t, at, left)
          PROVE  \E u \in Work' : u.kind = kind /\ u.at = at /\ u.left = left
      BY <1>3, <3>1, <3>2, GoesFacts DEF Work
    <3>3. CASE Parse(t)
      <4>1. ~ParseFails(t)
        BY <1>1, <1>3, <3>1 DEF ParseFails
      <4>2. FirstStep(t)
        BY <3>3, <4>1 DEF Parse
      <4>3. Goes(t, "lock", <<>>)
        BY <1>3, <4>2, Zenon DEF FirstStep
      <4> QED
        BY <3>2, <4>3 DEF Early
    <3>4. CASE FindSensorCameras(t) \/ FindCountCameras(t)
      <4> DEFINE F == Found(data_, lone[2].ip)
      <4>1. F # <<>>
        BY DEF Range
      <4>2. Matching(t.body.ip) = F
        BY <3>1, MatchingIs
      <4>3. Goes(t, "info", F)
        BY <3>4, <4>1, <4>2 DEF FindSensorCameras, FindCountCameras
      <4> HIDE DEF F
      <4>4. PICK u \in Work' : u.kind = kind /\ u.at = "info" /\ u.left = F
        BY <3>2, <4>3
      <4> QED
        BY <4>4 DEF Left, F
    <3>5. Parse(t) \/ FindSensorCameras(t) \/ FindCountCameras(t)
      BY <1>1, <1>3, <2>2 DEF TaskStep, UsesDestroyedStore, StoreUrl, StoreCameras, PostCameras,
         updateDeviceInfo, PostSensor, updateAiInfo, FindImageCameras, PostImage, StoreDevices,
         PostDevices, StoreServer, PostServer, PostAlarm, Locks, At
    <3> QED
      BY <3>3, <3>4, <3>5
  <2> QED
    BY <2>1, <2>2, WorkKept
<1> QED
  BY <1>2, <1>3 DEF Early

\* What is left of a list of cameras, when the first of them is done.
LEMMA LeftFacts ==
  ASSUME NEW left \in Seq(Cameras), left # <<>>, NEW c \in Range(left), c # Head(left)
  PROVE  Len(left) # 1 /\ c \in Range(Tail(left))
<1>1. c \in Range(Tail(left))
  BY RangeFacts
<1>2. DOMAIN Tail(left) # {}
  BY <1>1 DEF Range
<1>3. DOMAIN Tail(left) = 1..(Len(left) - 1)
  BY QueueFacts
<1>4. Len(left) # 1
  <2> SUFFICES ASSUME Len(left) = 1 PROVE FALSE
    OBVIOUS
  <2>1. 1..(Len(left) - 1) = {}
    OBVIOUS
  <2> QED
    BY <1>2, <1>3, <2>1
<1> QED
  BY <1>1, <1>4

\* Each camera found is on the way to its new sensor values, or has them.
LoneSensors ==
  LonePacket /\ lone[2].type = "META" =>
    \A c \in Range(Found(data_, lone[2].ip)) :
      \/ Early("meta") \/ Left("meta", c)
      \/ \E e \in Calls : e.type = "sensor" /\ e.id = c
      \/ cameras[c] # Absent => cameras[c].sensor = lone[1]

\* Every step keeps it so.
LEMMA LoneSensorsStep == DataTypes /\ LoneWork /\ LoneSensors /\ [Next]_vars => LoneSensors'
<1> SUFFICES ASSUME DataTypes, LoneWork, LoneSensors, [Next]_vars, LonePacket', lone'[2].type = "META",
                    NEW c \in Range(Found(data_', lone'[2].ip)), ~Early("meta")', ~Left("meta", c)',
                    \A e \in Calls' : ~(e.type = "sensor" /\ e.id = c), cameras'[c] # Absent
             PROVE  cameras'[c].sensor = lone'[1]
  BY DEF LoneSensors
<1>1. GoesOn
  BY LoneSteps, PacketCalling DEF Early
<1>2. lone' = lone /\ lone[2].type = "META" /\ LonePacket /\ process' = "up" /\ process = "up"
  BY <1>1 DEF GoesOn, LonePacket
<1>3. data_' = data_ /\ c \in Range(Found(data_, lone[2].ip))
  BY <1>1, <1>2, DataKept
<1>4. cameras \in [Cameras -> [shown : {"absent", "online", "offline"}, sensor : Numbers]]
  BY DEF DataTypes, ModelsOK
<1>5. cameras' = cameras \/ updateSensorInfo
  <2>1. camerasUpdated => GuiStep /\ Head(events).type = "cameras"
    BY DEF GuiStep, camerasUpdated, Handling
  <2>2. ~camerasUpdated
    BY <1>1, <1>2, <2>1, HeadBelongs DEF Belongs
  <2> QED
    BY <1>1, <2>2, ModelsKept
<1>6. ASSUME updateSensorInfo
      PROVE  LET e == Head(events) IN
             /\ e.id \in Cameras /\ e.n = lone[1]
             /\ cameras' = IF cameras[e.id] = Absent THEN cameras ELSE [cameras EXCEPT ![e.id].sensor = e.n]
  <2>1. GuiStep /\ Head(events).type = "sensor"
    BY <1>6 DEF GuiStep, updateSensorInfo, Handling
  <2>2. Head(events) \in Events /\ Belongs(Head(events), lone[1], lone[2])
    BY <1>1, <2>1, HeadBelongs
  <2>3. Head(events).id \in Cameras /\ Head(events).n = lone[1]
    BY <2>1, <2>2, EventFacts DEF Belongs
  <2> QED
    BY <1>6, <2>3 DEF updateSensorInfo
<1>7. CASE Early("meta")
  <2>1. "meta" \in Wired(lone[2].type)
    BY <1>2 DEF Wired
  <2> QED
    BY <1>1, <1>3, <1>7, <2>1, EarlyStep
<1>8. CASE Left("meta", c)
  <2>1. PICK t \in Work : t.kind = "meta" /\ t.at \in {"info", "post"} /\ c \in Range(t.left)
    BY <1>8 DEF Left
  <2>2. t \in running /\ TaskStep(t)
    BY <2>1, WorkKept DEF Left
  <2>3. t \in GoodTasks
    BY <2>2 DEF DataTypes, PoolOK
  <2>4. t.left \in Seq(Cameras) /\ t.left # <<>>
    BY <2>1, <2>3, TaskFacts DEF FoundTasks, Fits
  <2>5. ASSUME NEW at \in {"info", "post"}, NEW left, Goes(t, at, left), c \in Range(left) PROVE FALSE
    <3>1. PICK u \in running' : u.kind = t.kind /\ u.at = at /\ u.left = left
      BY <2>3, <2>5, GoesFacts
    <3> QED
      BY <2>1, <2>5, <3>1 DEF Left, Work
  <2>6. CASE updateDeviceInfo(t)
    BY <2>1, <2>5, <2>6 DEF updateDeviceInfo
  <2>7. CASE PostSensor(t)
    <3>1. CASE c = Head(t.left)
      <4>1. PostsCall(t, SensorCall(t))
        BY <2>7 DEF PostsCall
      <4>2. PICK e : PostsCall(t, e) /\ e \in Calls'
        BY <1>2, <2>2, <4>1, TaskCalls DEF DataTypes
      <4>3. e = SensorCall(t)
        BY <2>7, <4>2 DEF PostsCall, PostSensor, PostCameras, PostDevices, PostImage, PostServer, PostAlarm, At
      <4>4. e.type = "sensor" /\ e.id = c
        BY <3>1, <4>3 DEF SensorCall
      <4> QED
        BY <4>2, <4>4
    <3>2. CASE c # Head(t.left)
      <4>1. Len(t.left) # 1 /\ c \in Range(Tail(t.left))
        BY <2>1, <2>4, <3>2, LeftFacts
      <4>2. Goes(t, "info", Tail(t.left))
        BY <2>7, <4>1 DEF PostSensor
      <4> QED
        BY <2>5, <4>1, <4>2
    <3> QED
      BY <3>1, <3>2
  <2>8. updateDeviceInfo(t) \/ PostSensor(t)
    BY <1>2, <2>1, <2>2 DEF TaskStep, Parse, UsesDestroyedStore, StoreUrl, StoreCameras, PostCameras,
       FindSensorCameras, FindCountCameras, updateAiInfo, FindImageCameras, PostImage, StoreDevices,
       PostDevices, StoreServer, PostServer, PostAlarm, Locks, At
  <2> QED
    BY <2>6, <2>7, <2>8
<1>9. ASSUME NEW x \in Calls, x.type = "sensor", x.id = c PROVE cameras'[c].sensor = lone[1]
  <2>1. GuiStep /\ x = Head(events)
    BY <1>2, <1>9, CallsKept
  <2>2. updateSensorInfo
    BY <1>9, <2>1, Handlers
  <2>3. c \in Cameras /\ cameras' = IF cameras[c] = Absent THEN cameras ELSE [cameras EXCEPT ![c].sensor = lone[1]]
    BY <1>6, <1>9, <2>1, <2>2
  <2> QED
    BY <1>4, <2>3
<1>10. CASE cameras[c] # Absent => cameras[c].sensor = lone[1]
  <2>1. CASE cameras' = cameras
    BY <1>2, <1>10, <2>1
  <2>2. CASE updateSensorInfo
    <3> DEFINE id == Head(events).id
    <3>1. id \in Cameras /\ cameras' = IF cameras[id] = Absent THEN cameras ELSE [cameras EXCEPT ![id].sensor = lone[1]]
      BY <1>6, <2>2
    <3> HIDE DEF id
    <3>2. cameras'[c] = cameras[c] \/ cameras'[c].sensor = lone[1]
      BY <1>4, <3>1
    <3> QED
      BY <1>2, <1>10, <3>2
  <2> QED
    BY <1>5, <2>1, <2>2
<1> QED
  BY <1>2, <1>3, <1>7, <1>8, <1>9, <1>10 DEF LoneSensors

\* Each camera found is on the way to its new count, or has it.
LoneCount ==
  LonePacket /\ lone[2].type = "AI" /\ lone[2].count =>
    \A c \in Range(Found(data_, lone[2].ip)) :
      Early("count") \/ Left("count", c) \/ table_[c].aiInfo = lone[1]

\* Every step keeps it so.
LEMMA LoneCountStep == DataTypes /\ LoneWork /\ LoneCount /\ [Next]_vars => LoneCount'
<1> SUFFICES ASSUME DataTypes, LoneWork, LoneCount, [Next]_vars, LonePacket', lone'[2].type = "AI", lone'[2].count,
                    NEW c \in Range(Found(data_', lone'[2].ip)), ~Early("count")', ~Left("count", c)'
             PROVE  table_'[c].aiInfo = lone'[1]
  BY DEF LoneCount
<1>1. GoesOn
  BY LoneSteps, PacketCalling DEF Early
<1>2. lone' = lone /\ lone[2].type = "AI" /\ lone[2].count /\ LonePacket /\ process' = "up" /\ process = "up"
  BY <1>1 DEF GoesOn, LonePacket
<1>3. data_' = data_ /\ c \in Range(Found(data_, lone[2].ip))
  BY <1>1, <1>2, DataKept
<1>4. table_ \in [Cameras -> [sourceUrl : Urls, deviceInfo : Numbers, aiInfo : Numbers]]
  BY DEF DataTypes, StoresOK
<1>5. c \in Cameras
  <2>1. Matching(lone[2].ip) \in Seq(Cameras) /\ Matching(lone[2].ip) = Found(data_, lone[2].ip)
    BY MatchingType, MatchingIs DEF DataTypes, StoresOK
  <2> QED
    BY <1>3, <2>1, RangeFacts
<1>6. ASSUME NEW t \in running, updateAiInfo(t)
      PROVE  /\ table_'[c].aiInfo = table_[c].aiInfo \/ table_'[c].aiInfo = lone[1]
             /\ c = Head(t.left) => table_'[c].aiInfo = lone[1]
  <2> DEFINE h == Head(t.left)
  <2>1. table_' = [table_ EXCEPT ![h].aiInfo = t.n] /\ t.n = lone[1]
    BY <1>2, <1>6, LoneTasks DEF updateAiInfo
  <2> HIDE DEF h
  <2>2. table_'[c].aiInfo = table_[c].aiInfo \/ table_'[c].aiInfo = lone[1]
    BY <1>4, <1>5, <2>1
  <2>3. c = h => table_'[c].aiInfo = lone[1]
    BY <1>4, <1>5, <2>1
  <2> QED
    BY <2>2, <2>3 DEF h
<1>7. CASE Early("count")
  <2>1. "count" \in Wired(lone[2].type)
    BY <1>2 DEF Wired
  <2> QED
    BY <1>1, <1>2, <1>3, <1>7, <2>1, EarlyStep
<1>8. CASE Left("count", c)
  <2>1. PICK t \in Work : t.kind = "count" /\ t.at \in {"info", "post"} /\ c \in Range(t.left)
    BY <1>8 DEF Left
  <2>2. t \in running /\ TaskStep(t)
    BY <2>1, WorkKept DEF Left
  <2>3. t \in GoodTasks
    BY <2>2 DEF DataTypes, PoolOK
  <2>4. t.left \in Seq(Cameras) /\ t.left # <<>>
    BY <2>1, <2>3, TaskFacts DEF FoundTasks, Fits
  <2>5. updateAiInfo(t)
    BY <1>2, <2>1, <2>2 DEF TaskStep, Parse, UsesDestroyedStore, StoreUrl, StoreCameras, PostCameras,
       FindSensorCameras, updateDeviceInfo, PostSensor, FindCountCameras, FindImageCameras, PostImage, StoreDevices,
       PostDevices, StoreServer, PostServer, PostAlarm, Locks, At
  <2>6. c = Head(t.left)
    <3> SUFFICES ASSUME c # Head(t.left) PROVE FALSE
      OBVIOUS
    <3>1. Len(t.left) # 1 /\ c \in Range(Tail(t.left))
      BY <2>1, <2>4, LeftFacts
    <3>2. Goes(t, "info", Tail(t.left))
      BY <2>5, <3>1 DEF updateAiInfo
    <3>3. PICK u \in running' : u.kind = t.kind /\ u.at = "info" /\ u.left = Tail(t.left)
      BY <2>3, <3>2, GoesFacts
    <3> QED
      BY <2>1, <3>1, <3>3 DEF Left, Work
  <2> QED
    BY <1>2, <1>6, <2>2, <2>5, <2>6
<1>9. CASE table_[c].aiInfo = lone[1]
  <2>1. ASSUME NEW t \in running, TaskStep(t), ~updateAiInfo(t) PROVE table_' = table_
    <3>1. ~StoreUrl(t) /\ ~updateDeviceInfo(t)
      BY <1>2, LoneTasks DEF StoreUrl, updateDeviceInfo, Locks, At
    <3> QED
      BY <2>1, <3>1 DEF TaskStep, Parse, UsesDestroyedStore, StoreCameras, PostCameras, FindSensorCameras,
         PostSensor, FindCountCameras, FindImageCameras, PostImage, StoreDevices, PostDevices, StoreServer,
         PostServer, PostAlarm, stores
  <2>2. CASE GuiStep \/ StartTask \/ Unmoved
    <3>1. table_' = table_
      BY <2>2 DEF GuiStep, packetReceived, camerasUpdated, updateSensorInfo, devicesUpdated, serverUpdated,
         onPendingListReceived, onImageReceivedBase64, onAlarm, StartTask, Unmoved, stores
    <3> QED
      BY <1>2, <1>9, <3>1
  <2> QED
    BY <1>1, <1>2, <1>6, <1>9, <2>1, <2>2 DEF GoesOn
<1> QED
  BY <1>2, <1>3, <1>7, <1>8, <1>9 DEF LoneCount

-------------------------------------------------------------------------------
(* From a camera list to the cameras and the devices *)

\* The cameras shown are those of the list, and those it lacks are offline.
ListShown(cams, list) ==
  \A c \in Cameras :
    cams[c].shown = IF c \in Listed(list) THEN IF Item(list, c).online THEN "online" ELSE "offline"
                    ELSE IF cams[c] = Absent THEN "absent" ELSE "offline"

\* CameraModel shows a list.
LEMMA ListIsShown ==
  ASSUME cameras \in [Cameras -> [shown : {"absent", "online", "offline"}, sensor : Numbers]], NEW list
  PROVE  ListShown(ShowsCameras(list), list)
<1> SUFFICES ASSUME NEW c \in Cameras
             PROVE  ShowsCameras(list)[c].shown =
                      IF c \in Listed(list) THEN IF Item(list, c).online THEN "online" ELSE "offline"
                      ELSE IF ShowsCameras(list)[c] = Absent THEN "absent" ELSE "offline"
  BY DEF ListShown
<1> DEFINE new == ShowsCameras(list)[c]
           state == IF Item(list, c).online THEN "online" ELSE "offline"
<1>1. cameras[c] \in [shown : {"absent", "online", "offline"}, sensor : Numbers]
  OBVIOUS
<1>2. new = IF c \in Listed(list) THEN [cameras[c] EXCEPT !.shown = state]
            ELSE IF cameras[c] = Absent THEN Absent ELSE [cameras[c] EXCEPT !.shown = "offline"]
  BY DEF ShowsCameras
<1> HIDE DEF new
<1>3. CASE c \in Listed(list)
  <2>1. new = [cameras[c] EXCEPT !.shown = state]
    BY <1>2, <1>3
  <2> HIDE DEF state
  <2>2. new.shown = state
    BY <1>1, <2>1
  <2> QED
    BY <1>3, <2>2 DEF new, state
<1>4. CASE c \notin Listed(list) /\ cameras[c] = Absent
  <2>1. new = Absent
    BY <1>2, <1>4
  <2> QED
    BY <1>4, <2>1 DEF Absent, new
<1>5. CASE c \notin Listed(list) /\ cameras[c] # Absent
  <2>1. new = [cameras[c] EXCEPT !.shown = "offline"]
    BY <1>2, <1>5
  <2>2. new.shown = "offline"
    BY <1>1, <2>1
  <2>3. new # Absent
    BY <2>2 DEF Absent
  <2> QED
    BY <1>5, <2>2, <2>3 DEF new
<1> QED
  BY <1>3, <1>4, <1>5

\* The list is on its way to CameraModel, or shown.
LoneList ==
  LonePacket /\ lone[2].type = "CAMERA" => UnderWay("camera") \/ ListShown(cameras, lone[2].list)

\* CameraModel shows the packet's list.
LEMMA LoneListStep == DataTypes /\ LoneWork /\ LoneList /\ [Next]_vars => LoneList'
<1> SUFFICES ASSUME DataTypes, LoneWork, LoneList, [Next]_vars, LonePacket', lone'[2].type = "CAMERA",
                    ~UnderWay("camera")'
             PROVE  ListShown(cameras', lone'[2].list)
  BY DEF LoneList
<1>1. GoesOn
  BY LoneSteps, PacketCalling
<1>2. lone' = lone /\ lone[2].type = "CAMERA" /\ LonePacket
  BY <1>1 DEF GoesOn
<1>3. ASSUME camerasUpdated PROVE ListShown(cameras', lone[2].list)
  <2>1. GuiStep /\ Head(events).type = "cameras" /\ cameras' = ShowsCameras(Head(events).list)
    BY <1>3 DEF GuiStep, camerasUpdated, Handling
  <2>2. Head(events).list = lone[2].list
    BY <1>1, <2>1, HeadBelongs DEF Belongs
  <2> QED
    BY <2>1, <2>2, ListIsShown DEF DataTypes, ModelsOK
<1>4. CASE UnderWay("camera")
  <2>1. "camera" \in PlainKinds /\ "camera" \in Wired(lone[2].type) /\ CallOf("camera") = "cameras"
    BY <1>2 DEF PlainKinds, Wired, CallOf
  <2>2. GuiStep /\ Head(events).type = "cameras"
    BY <1>1, <1>4, <2>1, UnderWayStep
  <2> QED
    BY <1>2, <1>3, <2>2, Handlers
<1>5. CASE ListShown(cameras, lone[2].list)
  <2>1. updateSensorInfo => GuiStep /\ Head(events).type = "sensor"
    BY DEF GuiStep, updateSensorInfo, Handling
  <2>2. ~updateSensorInfo
    BY <1>1, <1>2, <2>1, HeadBelongs DEF Belongs
  <2>3. cameras' = cameras \/ camerasUpdated
    BY <1>1, <2>2, ModelsKept
  <2> QED
    BY <1>2, <1>3, <1>5, <2>3
<1> QED
  BY <1>2, <1>4, <1>5 DEF LoneList

\* The last item of its address, and the addresses of a list.
IsLast(list, i) == \A j \in DOMAIN list : list[j].ip = list[i].ip => j <= i
IsListed(list, ip) == \E j \in DOMAIN list : list[j].ip = ip

\* The rows of updateFromCameraJson: one for each item, then devices that are not listed.
Kept(rows, list) ==
  /\ Len(list) <= Len(rows)
  /\ \A i \in 1..Len(list) : /\ rows[i].ip = list[i].ip /\ rows[i].isOnline = list[i].online
                             /\ rows[i].cameraId = CameraId(list[i])
  /\ \A i \in 1..Len(rows) : \/ i <= Len(list)
                             \/ /\ ~IsListed(list, rows[i].ip) /\ ~rows[i].isOnline
                                /\ Rows(devices_, rows[i].ip) # {}

\* The next device that was there before.
LEMMA KeptTurn ==
  ASSUME devices_ \in Snapshots, NEW list \in Seq(Items), NEW rows \in Snapshots, NEW n \in 1..Len(devices_),
         Kept(rows, list)
  PROVE  Kept(KeepMissing(rows, devices_[n]), list)
<1> DEFINE old == devices_[n]
           e == [old EXCEPT !.isOnline = FALSE]
           new == KeepMissing(rows, old)
           N == Len(rows)
<1>1. /\ rows \in Seq(Device) /\ N \in Nat /\ DOMAIN rows = 1..N
      /\ DOMAIN devices_ = 1..Len(devices_) /\ old \in Device
      /\ Len(list) \in Nat /\ DOMAIN list = 1..Len(list)
  BY DEF Snapshots
<1>2. CASE Rows(rows, old.ip) # {}
  <2>1. new = rows
    BY <1>2 DEF KeepMissing
  <2> QED
    BY <2>1
<1>3. CASE Rows(rows, old.ip) = {}
  <2>1. new = Append(rows, e)
    BY <1>3, Zenon DEF KeepMissing
  <2>2. e \in Device /\ e.ip = old.ip /\ ~e.isOnline
    BY <1>1 DEF Device
  <2>3. n \in Rows(devices_, old.ip)
    BY <1>1 DEF Rows
  <2>4. ~IsListed(list, old.ip)
    <3> SUFFICES ASSUME NEW j \in 1..Len(list), list[j].ip = old.ip PROVE FALSE
      BY <1>1 DEF IsListed
    <3>1. j \in 1..N /\ rows[j].ip = old.ip
      BY <1>1 DEF Kept
    <3> QED
      BY <1>1, <1>3, <3>1 DEF Rows
  <2> HIDE DEF new, e, N, old
  <2>5. Len(new) = N + 1 /\ new[N + 1] = e /\ \A i \in 1..N : new[i] = rows[i]
    BY <1>1, <2>1, <2>2 DEF N
  <2>6. Len(list) <= N /\ \A i \in 1..Len(list) : i \in 1..N
    BY <1>1 DEF Kept, N
  <2>7. ASSUME NEW i \in 1..(N + 1)
        PROVE  i <= Len(list) \/ (~IsListed(list, new[i].ip) /\ ~new[i].isOnline /\ Rows(devices_, new[i].ip) # {})
    <3>1. CASE i \in 1..N
      BY <2>5, <3>1 DEF Kept, N
    <3>2. CASE i = N + 1
      BY <2>2, <2>3, <2>4, <2>5, <3>2
    <3> QED
      BY <1>1, <3>1, <3>2
  <2>8. Len(list) <= Len(new)
    BY <1>1, <2>5, <2>6
  <2>9. \A i \in 1..Len(list) : new[i] = rows[i]
    BY <2>5, <2>6
  <2> QED
    BY <2>5, <2>7, <2>8, <2>9 DEF Kept, new, old
<1> QED
  BY <1>2, <1>3

\* The row that is looked up for an address is that of its last item in the list; those
\* of the devices that the list lacks are offline.
IsMerged(rows, list) ==
  /\ \A i \in DOMAIN list : IsLast(list, i) =>
       LET mine == Rows(rows, list[i].ip) IN
       mine # {} /\ rows[Max(mine)].isOnline = list[i].online /\ rows[Max(mine)].cameraId = CameraId(list[i])
  /\ \A k \in DOMAIN rows : ~IsListed(list, rows[k].ip) => ~rows[Max(Rows(rows, rows[k].ip))].isOnline

\* DeviceStore after a list.
LEMMA ListMerged ==
  ASSUME devices_ \in Snapshots, NEW list \in Seq(Items)
  PROVE  /\ IsMerged(CameraMerge(list), list)
         /\ \A ip \in Ips : ~IsListed(list, ip) /\ Rows(CameraMerge(list), ip) # {} => Rows(devices_, ip) # {}
<1> DEFINE N == Len(devices_)
           L == Len(list)
<1>1. PICK f : /\ KeepTurns(f, ListedRows(list), devices_)
               /\ CameraMerge(list) = f[N]
               /\ \A n \in 0..N : f[n] \in Snapshots
  BY MergeTurns
<1>2. N \in Nat /\ DOMAIN devices_ = 1..N /\ L \in Nat /\ DOMAIN list = 1..L
  BY DEF Snapshots
<1> DEFINE P == {n \in 0..N : Kept(f[n], list)}
<1>3. 0 \in P
  <2>1. f[0] = ListedRows(list) /\ 0 \in 0..N
    BY <1>1, <1>2 DEF KeepTurns
  <2>2. Len(ListedRows(list)) = L /\ L <= L /\ \A i \in 1..L : i <= L
    BY <1>2, ListedType
  <2>3. Kept(ListedRows(list), list)
    BY <2>2, ListedType DEF Kept
  <2> QED
    BY <2>1, <2>3
<1>4. ASSUME NEW n \in 0..(N - 1), n \in P PROVE n + 1 \in P
  <2>1. n + 1 \in 1..N /\ (n + 1) - 1 = n /\ n + 1 \in 0..N /\ n \in 0..N
    BY <1>2
  <2>2. f[n + 1] = KeepMissing(f[n], devices_[n + 1]) /\ f[n] \in Snapshots /\ Kept(f[n], list)
    BY <1>1, <1>4, <2>1 DEF KeepTurns
  <2>3. Kept(f[n + 1], list)
    BY <2>1, <2>2, KeptTurn
  <2> QED
    BY <2>1, <2>3
<1> HIDE DEF P
<1>5. N \in P
  <2>1. \A n \in 0..N : n \in P
    BY <1>2, <1>3, <1>4, SetInduction
  <2> QED
    BY <1>2, <2>1
<1> DEFINE new == f[N]
<1>6. Kept(new, list) /\ new \in Snapshots
  BY <1>1, <1>2, <1>5 DEF P
<1> HIDE DEF new
<1>7. Len(new) \in Nat /\ DOMAIN new = 1..Len(new) /\ \A k \in 1..Len(new) : new[k].ip \in Ips
  <2>1. Len(new) \in Nat /\ DOMAIN new = 1..Len(new) /\ \A k \in 1..Len(new) : new[k] \in Device
    BY <1>6 DEF Snapshots
  <2> QED
    BY <2>1 DEF Device
<1>8. ASSUME NEW i \in 1..L, IsLast(list, i)
      PROVE  LET mine == Rows(new, list[i].ip) IN
             mine # {} /\ new[Max(mine)].isOnline = list[i].online /\ new[Max(mine)].cameraId = CameraId(list[i])
  <2> DEFINE ip == list[i].ip
             mine == Rows(new, ip)
             m == Max(mine)
  <2>1. i \in 1..Len(new) /\ new[i].ip = ip
    BY <1>2, <1>6, <1>7 DEF Kept
  <2>2. i \in mine
    BY <1>7, <2>1 DEF Rows
  <2>3. m \in mine /\ m >= i /\ m \in 1..Len(new) /\ new[m].ip = ip
    BY <1>6, <2>2, RowFacts
  <2>4. m <= L
    <3>1. IsListed(list, ip)
      BY <1>2 DEF IsListed
    <3> QED
      BY <1>6, <2>3, <3>1 DEF Kept
  <2>5. m \in 1..L /\ list[m].ip = ip
    BY <1>2, <1>6, <2>3, <2>4 DEF Kept
  <2>6. m <= i
    BY <1>2, <1>8, <2>5 DEF IsLast
  <2>7. m = i
    BY <1>2, <2>3, <2>5, <2>6
  <2> QED
    BY <1>6, <2>2, <2>7 DEF Kept
<1>9. ASSUME NEW k \in 1..Len(new), ~IsListed(list, new[k].ip)
      PROVE  ~new[k].isOnline /\ Rows(devices_, new[k].ip) # {}
  <2>1. ~(k <= L)
    <3> SUFFICES ASSUME k <= L PROVE FALSE
      OBVIOUS
    <3>1. k \in 1..L
      BY <1>2
    <3>2. list[k].ip = new[k].ip
      BY <1>6, <3>1 DEF Kept
    <3> QED
      BY <1>2, <1>9, <3>1, <3>2 DEF IsListed
  <2> QED
    BY <1>6, <1>9, <2>1 DEF Kept
<1>10. ASSUME NEW k \in 1..Len(new), ~IsListed(list, new[k].ip)
       PROVE  ~new[Max(Rows(new, new[k].ip))].isOnline
  <2> DEFINE ip == new[k].ip
             m == Max(Rows(new, ip))
  <2>1. k \in Rows(new, ip)
    BY <1>7 DEF Rows
  <2>2. m \in 1..Len(new) /\ new[m].ip = ip
    BY <1>6, <2>1, RowFacts
  <2> QED
    BY <1>9, <1>10, <2>2
<1>11. ASSUME NEW ip \in Ips, ~IsListed(list, ip), Rows(new, ip) # {} PROVE Rows(devices_, ip) # {}
  <2>1. PICK k \in 1..Len(new) : new[k].ip = ip
    BY <1>7, <1>11 DEF Rows
  <2> QED
    BY <1>9, <1>11, <2>1
<1>12. IsMerged(new, list)
  BY <1>2, <1>7, <1>8, <1>10 DEF IsMerged
<1> QED
  BY <1>1, <1>11, <1>12 DEF new

\* The copies of the devices that are on their way to DeviceModel.
CarryingTasks == {t \in running : t.kind \in {"device", "available"} /\ t.at = "post"}
CarryingCalls == {e \in Calls : e.type = "devices"}
Copies == {t.left[2] : t \in CarryingTasks} \cup {e.snapshot : e \in CarryingCalls}

\* They are rows of devices.
LEMMA CopyType == DataTypes => Copies \in SUBSET Snapshots
<1> SUFFICES ASSUME DataTypes, NEW s \in Copies PROVE s \in Snapshots
  OBVIOUS
<1>1. running \subseteq GoodTasks /\ events \in Seq(Events)
  BY DEF DataTypes, PoolOK
<1>2. ASSUME NEW t \in CarryingTasks PROVE t.left[2] \in Snapshots
  <2>1. t \in GoodTasks /\ t.kind \in {"device", "available"} /\ t.at = "post"
    BY <1>1 DEF CarryingTasks
  <2>2. t \in CopyTasks
    BY <2>1, TaskFacts DEF DeviceTasks
  <2> QED
    BY <2>2 DEF CopyTasks
<1>3. ASSUME NEW e \in CarryingCalls PROVE e.snapshot \in Snapshots
  <2>1. e \in Events /\ e.type = "devices"
    BY <1>1, RangeFacts DEF CarryingCalls, Calls
  <2> QED
    BY <2>1, EventFacts
<1> QED
  BY <1>2, <1>3 DEF Copies

\* Where a copy comes from.
LEMMA NewCopies ==
  ASSUME DataTypes, [Next]_vars, NEW s \in Copies'
  PROVE  s \in Copies \/ (\E t \in running : Stored(t) /\ s = devices_')
<1>1. ASSUME NEW u \in running', u.kind \in {"device", "available"}, u.at = "post", s = u.left[2]
      PROVE  s \in Copies \/ (\E t \in running : Stored(t) /\ s = devices_')
  <2>1. CASE u \in running
    BY <1>1, <2>1 DEF Copies, CarryingTasks
  <2>2. ASSUME NEW t \in running, Stored(t), u.left = <<version', devices_'>>
        PROVE  s = devices_'
    BY <1>1, <2>2
  <2> QED
    BY <1>1, <2>1, <2>2, CopyTasksMade
<1>2. ASSUME NEW e \in Calls', e.type = "devices", s = e.snapshot PROVE s \in Copies
  <2>1. CASE e \in Calls
    BY <1>2, <2>1 DEF Copies, CarryingCalls
  <2>2. ASSUME NEW p \in Contents, e = PacketCall(p) PROVE FALSE
    BY <1>2, <2>2 DEF PacketCall
  <2>3. ASSUME packetReceived, e = [Head(events) EXCEPT !.type = "pending"] PROVE FALSE
    <3>1. Head(events) \in PacketEvents
      BY <2>3, PacketHandled
    <3>2. \A h \in PacketEvents : [h EXCEPT !.type = "pending"].type = "pending"
      BY DEF PacketEvents
    <3> QED
      BY <1>2, <2>3, <3>1, <3>2
  <2>4. ASSUME NEW t \in running, PostsCall(t, e) PROVE s \in Copies
    <3>1. PostDevices(t) /\ e = DevicesCall(t)
      BY <1>2, <2>4 DEF PostsCall, CamerasCall, SensorCall, ImageCall, ServerCall, AlarmCall
    <3>2. t.kind \in {"device", "available"} /\ t.at = "post"
      BY <3>1 DEF PostDevices, At
    <3>3. s = t.left[2]
      BY <1>2, <3>1 DEF DevicesCall
    <3> QED
      BY <3>2, <3>3 DEF Copies, CarryingTasks
  <2> QED
    BY <2>1, <2>2, <2>3, <2>4, NewCalls
<1> QED
  BY <1>1, <1>2 DEF Copies, CarryingTasks, CarryingCalls

\* A change of the devices, by its packet.
LEMMA StoredFacts ==
  ASSUME DataTypes, NEW t \in running, Stored(t)
  PROVE  /\ t.n \in Nums /\ t.body \in Contents /\ t.kind \in {"device", "available"}
         /\ t.kind = "device" => t.body.list \in Seq(Items) /\ devices_' = CameraMerge(t.body.list)
         /\ t.kind = "available" => t.body.ips \in Seq(Ips) /\ devices_' = AvailableMerge(t.body.ips, t.n)
<1>1. t \in GoodTasks /\ StoreDevices(t) /\ t.at = "lock" /\ t.kind \in {"device", "available"}
  BY DEF Stored, StoreDevices, Locks, At
<1>2. t.n \in Nums /\ t.body \in Contents /\ t.body.form = "ok" /\ Fits(t)
  BY <1>1, TaskFacts DEF Fits
<1>3. /\ t.kind = "device" => devices_' = CameraMerge(t.body.list)
      /\ t.kind = "available" => devices_' = AvailableMerge(t.body.ips, t.n)
  BY <1>1 DEF StoreDevices
<1>4. /\ t.kind = "device" => t.body.list \in Seq(Items)
      /\ t.kind = "available" => t.body.ips \in Seq(Ips)
  BY <1>2, PacketFacts DEF Fits
<1> QED
  BY <1>1, <1>2, <1>3, <1>4

\* DeviceStore never loses an address.
LEMMA AddressesKept ==
  ASSUME DataTypes, [Next]_vars, NEW ip \in Ips, Rows(devices_, ip) # {}
  PROVE  Rows(devices_', ip) # {}
<1>1. devices_ \in Snapshots
  BY DEF DataTypes, StoresOK
<1>2. ASSUME NEW t \in running, Stored(t) PROVE Rows(devices_', ip) # {}
  <2>1. CASE t.kind = "device"
    <3>1. t.body.list \in Seq(Items) /\ devices_' = CameraMerge(t.body.list)
      BY <1>2, <2>1, StoredFacts
    <3>2. Rows(CameraMerge(t.body.list), ip) # {}
      BY <1>1, <3>1, CameraMergeFacts
    <3> QED
      BY <3>1, <3>2
  <2>2. CASE t.kind = "available"
    <3> DEFINE ips == t.body.ips
    <3>1. t.n \in Nums /\ ips \in Seq(Ips) /\ devices_' = AvailableMerge(ips, t.n)
      BY <1>2, <2>2, StoredFacts
    <3> HIDE DEF ips
    <3>2. Updated(AvailableMerge(ips, t.n), ips, Len(ips), t.n)
      BY <1>1, <3>1, AvailableMergeFacts
    <3>3. Rows(AvailableMerge(ips, t.n), ip) = Rows(devices_, ip)
      BY <3>2 DEF Updated
    <3> QED
      BY <3>1, <3>3
  <2> QED
    BY <1>2, <2>1, <2>2, StoredFacts
<1> QED
  BY <1>2, DevicesStored

\* What devicesUpdated shows is one of the copies.
LEMMA CopyIsShown ==
  ASSUME DataTypes, devicesUpdated
  PROVE  devices_' = devices_ /\ \E s \in Copies : s \in Snapshots /\ deviceRows' = ShowsDevices(s)
<1> DEFINE e == Head(events)
<1>1. devices_' = devices_ /\ deviceRows' = ShowsDevices(e.snapshot) /\ GuiStep /\ e.type = "devices"
  BY DEF devicesUpdated, stores, GuiStep, Handling
<1>2. e \in Calls
  BY <1>1, GuiCalls DEF DataTypes
<1>3. e.snapshot \in Copies
  BY <1>1, <1>2 DEF Copies, CarryingCalls
<1> QED
  BY <1>1, <1>3, CopyType

\* Every address that DeviceModel shows or will show is one of DeviceStore.
AddressInv ==
  \A ip \in Ips :
    /\ Rows(deviceRows, ip) # {} => Rows(devices_, ip) # {}
    /\ \A s \in Copies : Rows(s, ip) # {} => Rows(devices_, ip) # {}

\* Every step keeps it so.
LEMMA AddressStep == DataTypes /\ AddressInv /\ [Next]_vars => AddressInv'
<1> SUFFICES ASSUME DataTypes, AddressInv, [Next]_vars, NEW ip \in Ips
             PROVE  /\ Rows(deviceRows', ip) # {} => Rows(devices_', ip) # {}
                    /\ \A s \in Copies' : Rows(s, ip) # {} => Rows(devices_', ip) # {}
  BY DEF AddressInv
<1>1. Rows(devices_, ip) # {} => Rows(devices_', ip) # {}
  BY AddressesKept
<1>2. ASSUME NEW s \in Copies', Rows(s, ip) # {} PROVE Rows(devices_', ip) # {}
  BY <1>1, <1>2, NewCopies DEF AddressInv
<1>3. ASSUME Rows(deviceRows', ip) # {} PROVE Rows(devices_', ip) # {}
  <2>1. CASE deviceRows' = deviceRows
    BY <1>1, <1>3, <2>1 DEF AddressInv
  <2>2. CASE deviceRows' = <<>>
    BY <1>3, <2>2 DEF Rows
  <2>3. CASE devicesUpdated
    <3>1. PICK s \in Copies : s \in Snapshots /\ deviceRows' = ShowsDevices(s)
      BY <2>3, CopyIsShown
    <3>2. Rows(s, ip) = {} => Rows(deviceRows', ip) = Rows(deviceRows, ip)
      BY <3>1, ShowsFacts DEF DataTypes, ModelsOK
    <3> QED
      BY <1>1, <1>3, <3>1, <3>2 DEF AddressInv
  <2> QED
    BY <2>1, <2>2, <2>3, RowsShown
<1> QED
  BY <1>2, <1>3

\* The devices of a list are on their way to DeviceModel, or shown; every copy on its way
\* has them, and the other addresses that DeviceStore has.
LoneRows ==
  LonePacket /\ lone[2].type = "CAMERA" =>
    /\ UnderWay("device") \/ IsMerged(deviceRows, lone[2].list)
    /\ \A s \in Copies :
         /\ IsMerged(s, lone[2].list)
         /\ \A ip \in Ips : ~IsListed(lone[2].list, ip) /\ Rows(devices_, ip) # {} => Rows(s, ip) # {}

\* DeviceModel shows a copy that has the devices of the list.
LEMMA MergedIsShown ==
  ASSUME deviceRows \in Snapshots, NEW s \in Snapshots, NEW list \in Seq(Items), IsMerged(s, list),
         \A ip \in Ips : ~IsListed(list, ip) /\ Rows(deviceRows, ip) # {} => Rows(s, ip) # {}
  PROVE  IsMerged(ShowsDevices(s), list)
<1> DEFINE new == ShowsDevices(s)
<1>1. /\ new \in Snapshots
      /\ \A ip \in Ips :
           /\ Rows(s, ip) = {} => Rows(new, ip) = Rows(deviceRows, ip)
           /\ Rows(s, ip) # {} => Rows(new, ip) # {} /\ new[Max(Rows(new, ip))] = s[Max(Rows(s, ip))]
  BY ShowsFacts
<1> HIDE DEF new
<1>2. ASSUME NEW rows \in Snapshots, NEW k \in DOMAIN rows PROVE rows[k].ip \in Ips /\ k \in Rows(rows, rows[k].ip)
  <2>1. rows[k] \in Device
    BY DEF Snapshots
  <2> QED
    BY <2>1 DEF Device, Rows
<1>3. ASSUME NEW i \in DOMAIN list, IsLast(list, i)
      PROVE  LET mine == Rows(new, list[i].ip) IN
             mine # {} /\ new[Max(mine)].isOnline = list[i].online /\ new[Max(mine)].cameraId = CameraId(list[i])
  <2>1. list[i].ip \in Ips
    BY CameraIds
  <2>2. LET mine == Rows(s, list[i].ip) IN
        mine # {} /\ s[Max(mine)].isOnline = list[i].online /\ s[Max(mine)].cameraId = CameraId(list[i])
    BY <1>3 DEF IsMerged
  <2> QED
    BY <1>1, <2>1, <2>2
<1>4. ASSUME NEW k \in DOMAIN new, ~IsListed(list, new[k].ip)
      PROVE  ~new[Max(Rows(new, new[k].ip))].isOnline
  <2> DEFINE ip == new[k].ip
  <2>1. ip \in Ips /\ Rows(new, ip) # {}
    BY <1>1, <1>2
  <2> HIDE DEF ip
  <2>2. Rows(s, ip) # {}
    BY <1>1, <1>4, <2>1 DEF ip
  <2>3. PICK j \in DOMAIN s : s[j].ip = ip
    BY <2>2 DEF Rows
  <2>4. ~s[Max(Rows(s, ip))].isOnline
    BY <1>4, <2>3 DEF IsMerged, ip
  <2> QED
    BY <1>1, <2>1, <2>2, <2>4 DEF ip
<1> QED
  BY <1>3, <1>4 DEF IsMerged, new

\* No copy is on its way when the packet has just come.
LEMMA NoCopies ==
  ASSUME DataTypes, NEW p \in Contents, Begins(p)
  PROVE  Copies' = {}
<1>1. running' = {} /\ Calls' = {PacketCall(p)} /\ PacketCall(p).type = "packet"
  BY BeginsFacts
<1> QED
  BY <1>1 DEF Copies, CarryingTasks, CarryingCalls

\* DeviceModel shows the devices of the packet's list.
LEMMA LoneRowsStep == DataTypes /\ LoneWork /\ AddressInv /\ LoneRows /\ [Next]_vars => LoneRows'
<1> SUFFICES ASSUME DataTypes, LoneWork, AddressInv, LoneRows, [Next]_vars, LonePacket', lone'[2].type = "CAMERA"
             PROVE  /\ UnderWay("device")' \/ IsMerged(deviceRows', lone'[2].list)
                    /\ \A s \in Copies' :
                         /\ IsMerged(s, lone'[2].list)
                         /\ \A ip \in Ips : ~IsListed(lone'[2].list, ip) /\ Rows(devices_', ip) # {} => Rows(s, ip) # {}
  BY DEF LoneRows
<1>1. ASSUME NEW p \in Contents, Begins(p) PROVE UnderWay("device")' /\ Copies' = {}
  BY <1>1, PacketCalling, NoCopies
<1>2. CASE GoesOn
  <2> DEFINE list == lone[2].list
  <2>1. lone' = lone /\ lone[2].type = "CAMERA" /\ LonePacket
    BY <1>2 DEF GoesOn
  <2>2. list \in Seq(Items) /\ devices_ \in Snapshots /\ deviceRows \in Snapshots
    BY <2>1, LoneFacts, PacketFacts DEF DataTypes, StoresOK, ModelsOK
  <2>3. /\ UnderWay("device") \/ IsMerged(deviceRows, list)
        /\ \A s \in Copies :
             /\ IsMerged(s, list)
             /\ \A ip \in Ips : ~IsListed(list, ip) /\ Rows(devices_, ip) # {} => Rows(s, ip) # {}
    BY <2>1 DEF LoneRows
  <2>4. ASSUME NEW t \in running, Stored(t) PROVE devices_' = CameraMerge(list)
    BY <2>1, <2>4, StoredFacts, LoneTasks
  <2> HIDE DEF list
  <2>5. ASSUME NEW ip \in Ips, ~IsListed(list, ip), Rows(devices_', ip) # {} PROVE Rows(devices_, ip) # {}
    <3>1. CASE devices_' = CameraMerge(list)
      BY <2>2, <2>5, <3>1, ListMerged
    <3> QED
      BY <2>4, <2>5, <3>1, DevicesStored
  <2>6. ASSUME NEW s \in Copies'
        PROVE  /\ IsMerged(s, list)
               /\ \A ip \in Ips : ~IsListed(list, ip) /\ Rows(devices_', ip) # {} => Rows(s, ip) # {}
    <3>1. CASE s \in Copies
      BY <2>3, <2>5, <3>1
    <3>2. CASE s = devices_' /\ devices_' = CameraMerge(list)
      BY <2>2, <3>2, ListMerged
    <3> QED
      BY <2>4, <3>1, <3>2, NewCopies
  <2>7. CASE devicesUpdated
    <3>1. PICK s \in Copies : s \in Snapshots /\ deviceRows' = ShowsDevices(s)
      BY <2>7, CopyIsShown
    <3>2. \A ip \in Ips : ~IsListed(list, ip) /\ Rows(deviceRows, ip) # {} => Rows(s, ip) # {}
      BY <2>3, <3>1 DEF AddressInv
    <3>3. IsMerged(deviceRows', list)
      BY <2>2, <2>3, <3>1, <3>2, MergedIsShown
    <3> QED
      BY <2>1, <2>6, <3>3 DEF list
  <2>8. CASE ~devicesUpdated
    <3>1. deviceRows' = deviceRows
      BY <1>2, <2>8, ModelsKept
    <3>2. "device" \in PlainKinds /\ "device" \in Wired(lone[2].type) /\ CallOf("device") = "devices"
      BY <2>1 DEF PlainKinds, Wired, CallOf
    <3>3. UnderWay("device") => UnderWay("device")'
      BY <1>2, <2>8, <3>2, UnderWayStep, Handlers
    <3> QED
      BY <2>1, <2>3, <2>6, <3>1, <3>3 DEF list
  <2> QED
    BY <2>7, <2>8
<1> QED
  BY <1>1, <1>2, LoneSteps

\* The row looked up for each address of the packet has its data, if DeviceStore has one
\* row for the address.
DataShown(present, rows, ips, n) ==
  \A ip \in Range(ips) : Cardinality(Rows(present, ip)) = 1 => rows[Max(Rows(rows, ip))].cpu = n

\* The data of an AVAILABLE packet are on their way to DeviceModel, or shown; every copy on
\* its way has them in the rows that DeviceStore has.
LoneReadings ==
  LonePacket /\ lone[2].type = "AVAILABLE" =>
    /\ UnderWay("available") \/ DataShown(devices_, deviceRows, lone[2].ips, lone[1])
    /\ \A s \in Copies : \A ip \in Range(lone[2].ips) :
         Rows(s, ip) = Rows(devices_, ip) /\ Carries(s, ip, lone[1])

\* DeviceModel shows a copy that has the packet's data.
LEMMA DataIsShown ==
  ASSUME deviceRows \in Snapshots, devices_ \in Snapshots, NEW s \in Snapshots, NEW n, NEW ips \in Seq(Ips),
         \A ip \in Range(ips) : Rows(s, ip) = Rows(devices_, ip) /\ Carries(s, ip, n)
  PROVE  DataShown(devices_, ShowsDevices(s), ips, n)
<1> SUFFICES ASSUME NEW ip \in Range(ips), Cardinality(Rows(devices_, ip)) = 1
             PROVE  ShowsDevices(s)[Max(Rows(ShowsDevices(s), ip))].cpu = n
  BY DEF DataShown
<1> DEFINE S == Rows(s, ip)
<1>1. ip \in Ips /\ Cardinality(S) = 1 /\ Carries(s, ip, n)
  BY RangeFacts
<1>2. S \in SUBSET (1..Len(s)) /\ Len(s) \in Nat
  BY RowFacts
<1>3. IsFiniteSet(S)
  <2>1. IsFiniteSet(1..Len(s))
    BY <1>2, FS_Interval
  <2> QED
    BY <1>2, <2>1, FS_Subset
<1>4. PICK k : S = {k}
  BY <1>1, <1>3, FS_Singleton
<1>5. Min(S) \in S /\ Max(S) \in S
  BY <1>4, RowFacts
<1>6. Min(S) = Max(S) /\ S # {}
  BY <1>4, <1>5
<1>7. s[Max(S)].cpu = n
  BY <1>1, <1>6 DEF Carries
<1>8. ShowsDevices(s)[Max(Rows(ShowsDevices(s), ip))] = s[Max(S)]
  BY <1>1, <1>6, ShowsFacts
<1> QED
  BY <1>7, <1>8

\* DeviceModel shows the data of the packet.
LEMMA LoneReadingsStep == DataTypes /\ LoneWork /\ LoneReadings /\ [Next]_vars => LoneReadings'
<1> SUFFICES ASSUME DataTypes, LoneWork, LoneReadings, [Next]_vars, LonePacket', lone'[2].type = "AVAILABLE"
             PROVE  /\ UnderWay("available")' \/ DataShown(devices_', deviceRows', lone'[2].ips, lone'[1])
                    /\ \A s \in Copies' : \A ip \in Range(lone'[2].ips) :
                         Rows(s, ip) = Rows(devices_', ip) /\ Carries(s, ip, lone'[1])
  BY DEF LoneReadings
<1>1. ASSUME NEW p \in Contents, Begins(p) PROVE UnderWay("available")' /\ Copies' = {}
  BY <1>1, PacketCalling, NoCopies
<1>2. CASE GoesOn
  <2> DEFINE ips == lone[2].ips
             n == lone[1]
  <2>1. lone' = lone /\ lone[2].type = "AVAILABLE" /\ LonePacket
    BY <1>2 DEF GoesOn
  <2>2. ips \in Seq(Ips) /\ n \in Nums /\ devices_ \in Snapshots /\ deviceRows \in Snapshots
    BY <2>1, LoneFacts, PacketFacts DEF DataTypes, StoresOK, ModelsOK
  <2>3. /\ UnderWay("available") \/ DataShown(devices_, deviceRows, ips, n)
        /\ \A s \in Copies : \A ip \in Range(ips) : Rows(s, ip) = Rows(devices_, ip) /\ Carries(s, ip, n)
    BY <2>1 DEF LoneReadings
  <2>4. ASSUME NEW t \in running, Stored(t)
        PROVE  devices_' = AvailableMerge(ips, n) /\ UnderWay("available")'
    <3>1. t.kind = "available" /\ t.n = n /\ t.body = lone[2] /\ t \in GoodTasks
      BY <2>1, <2>4, StoredFacts, LoneTasks
    <3>2. \E u \in running' : u.kind = t.kind
      BY <2>4, <3>1, GoesFacts DEF Stored
    <3>3. UnderWay("available")'
      BY <3>1, <3>2 DEF UnderWay, Working, Work
    <3> QED
      BY <2>4, <3>1, <3>3, StoredFacts
  <2> HIDE DEF ips, n
  <2>5. ASSUME devices_' = AvailableMerge(ips, n)
        PROVE  /\ \A ip \in Range(ips) : Carries(devices_', ip, n)
               /\ \A ip \in Ips : Rows(devices_, ip) # {} => Rows(devices_', ip) = Rows(devices_, ip)
    <3>1. Updated(devices_', ips, Len(ips), n)
      BY <2>2, <2>5, AvailableMergeFacts
    <3>2. DOMAIN ips = 1..Len(ips)
      BY <2>2
    <3> QED
      BY <3>1, <3>2 DEF Updated, Range
  <2>6. ASSUME NEW s \in Copies', NEW ip \in Range(ips) PROVE Rows(s, ip) = Rows(devices_', ip) /\ Carries(s, ip, n)
    <3>1. ip \in Ips
      BY <2>2, RangeFacts
    <3>2. CASE s \in Copies /\ devices_' = devices_
      BY <2>3, <3>2
    <3>3. CASE s \in Copies /\ devices_' = AvailableMerge(ips, n)
      <4>1. Rows(s, ip) = Rows(devices_, ip) /\ Carries(s, ip, n)
        BY <2>3, <3>3
      <4>2. Rows(devices_, ip) # {}
        BY <4>1 DEF Carries
      <4> QED
        BY <2>5, <3>1, <3>3, <4>1, <4>2
    <3>4. CASE s = devices_' /\ devices_' = AvailableMerge(ips, n)
      BY <2>5, <3>4
    <3> QED
      BY <2>4, <3>2, <3>3, <3>4, NewCopies, DevicesStored
  <2>7. CASE devicesUpdated
    <3>1. PICK s \in Copies : s \in Snapshots /\ deviceRows' = ShowsDevices(s)
      BY <2>7, CopyIsShown
    <3>2. DataShown(devices_, deviceRows', ips, n) /\ devices_' = devices_
      BY <2>2, <2>3, <2>7, <3>1, DataIsShown, CopyIsShown
    <3> QED
      BY <2>1, <2>6, <3>2 DEF ips, n
  <2>8. CASE ~devicesUpdated
    <3>1. deviceRows' = deviceRows
      BY <1>2, <2>8, ModelsKept
    <3>2. "available" \in PlainKinds /\ "available" \in Wired(lone[2].type) /\ CallOf("available") = "devices"
      BY <2>1 DEF PlainKinds, Wired, CallOf
    <3>3. UnderWay("available") => UnderWay("available")'
      BY <1>2, <2>8, <3>2, UnderWayStep, Handlers
    <3>4. devices_' = devices_ \/ UnderWay("available")'
      BY <2>4, DevicesStored
    <3>5. UnderWay("available")' \/ DataShown(devices_', deviceRows', ips, n)
      BY <2>3, <3>1, <3>3, <3>4
    <3> QED
      BY <2>1, <2>6, <3>5 DEF ips, n
  <2> QED
    BY <2>7, <2>8
<1> QED
  BY <1>1, <1>2, LoneSteps

-------------------------------------------------------------------------------
(* From an image to the cameras it is of *)

\* The images change when one is shown and when they are cleared.
LEMMA ImagesKept ==
  ASSUME [Next]_vars
  PROVE  \/ images' = images
         \/ images' = [c \in Cameras |-> <<>>]
         \/ onImageReceivedBase64
<1>1. CASE GuiStep
  BY <1>1 DEF GuiStep, packetReceived, camerasUpdated, updateSensorInfo, devicesUpdated, serverUpdated,
     onPendingListReceived, onAlarm, models
<1>2. CASE logoutRequested
  BY <1>2 DEF logoutRequested
<1>3. CASE Login \/ (\E i \in DOMAIN alarms_ : dismiss(i)) \/ Quit \/ (\E p \in Contents : Receive(p)) \/ StartTask
           \/ ShutdownStep \/ Gone \/ UNCHANGED vars
  BY <1>3 DEF Login, dismiss, Quit, Receive, StartTask, ShutdownStep, Disconnected, ResetStore, PoolJoined, Gone, vars, models
<1>4. ASSUME NEW t \in running, TaskStep(t) PROVE images' = images
  BY <1>4 DEF TaskStep, Parse, UsesDestroyedStore, StoreUrl, StoreCameras, PostCameras, FindSensorCameras,
     updateDeviceInfo, PostSensor, FindCountCameras, updateAiInfo, FindImageCameras, PostImage, StoreDevices,
     PostDevices, StoreServer, PostServer, PostAlarm, models
<1> QED
  BY <1>1, <1>2, <1>3, <1>4 DEF Next, PoolStep, User

\* The number of packets grows by one with each that comes.
LEMMA ReceivedGrows ==
  ASSUME DataTypes, [Next]_vars
  PROVE  /\ received \in Nat /\ received' \in Nat /\ received <= received'
         /\ \A p \in Contents : Receive(p) => received' = received + 1
<1>1. received \in Nat
  BY DEF DataTypes, ControlOK, Numbers
<1>2. \A p \in Contents : Receive(p) => received' = received + 1
  BY DEF Receive
<1>3. ASSUME \A p \in Contents : ~Receive(p) PROVE received' = received
  <2>1. ASSUME NEW t \in running, TaskStep(t) PROVE received' = received
    BY <2>1 DEF TaskStep, Parse, UsesDestroyedStore, StoreUrl, StoreCameras, PostCameras, FindSensorCameras,
       updateDeviceInfo, PostSensor, FindCountCameras, updateAiInfo, FindImageCameras, PostImage, StoreDevices,
       PostDevices, StoreServer, PostServer, PostAlarm, control
  <2>2. CASE GuiStep \/ StartTask
    BY <2>2 DEF GuiStep, packetReceived, camerasUpdated, updateSensorInfo, devicesUpdated, serverUpdated,
       onPendingListReceived, onImageReceivedBase64, onAlarm, StartTask, control
  <2>3. CASE User \/ ShutdownStep \/ Gone \/ UNCHANGED vars
    BY <2>3 DEF User, Login, logoutRequested, dismiss, Quit, ShutdownStep, Disconnected, ResetStore, PoolJoined, Gone, vars, control
  <2> QED
    BY <1>3, <2>1, <2>2, <2>3 DEF Next, PoolStep
<1> QED
  BY <1>1, <1>2, <1>3

\* An image shown, by its call.
LEMMA ImageHandled ==
  ASSUME DataTypes, onImageReceivedBase64
  PROVE  LET e == Head(events) IN
         /\ e \in Calls /\ e.type = "image" /\ e.id \in Cameras /\ e.n \in Nums /\ e.picture \in BOOLEAN
         /\ images' = [images EXCEPT ![e.id] =
                         Appended(@, [n |-> e.n, picture |-> e.picture], MAX_EVENTS_PER_CAMERA)]
         /\ events # <<>> /\ events' = Tail(events) /\ queue_' = queue_ /\ running' = running
<1> DEFINE e == Head(events)
<1>1. events \in Seq(Events) /\ events # <<>> /\ e.type = "image" /\ GuiStep
  BY DEF DataTypes, onImageReceivedBase64, Handling, GuiStep
<1>2. e \in Calls /\ e \in Events
  BY <1>1, GuiCalls
<1>3. e.id \in Cameras /\ e.n \in Nums /\ e.picture \in BOOLEAN
  BY <1>1, <1>2, EventFacts
<1>4. /\ images' = [images EXCEPT ![e.id] =
                      Appended(@, [n |-> e.n, picture |-> e.picture], MAX_EVENTS_PER_CAMERA)]
      /\ events' = Tail(events) /\ queue_' = queue_ /\ running' = running
  BY DEF onImageReceivedBase64
<1> QED
  BY <1>1, <1>2, <1>3, <1>4

\* No task, call or image is of a packet that is still to come.
FreshInv ==
  /\ \A c \in Cameras : images[c] # <<>> => Last(images[c]).n <= received
  /\ \A t \in Work : t.n <= received
  /\ \A e \in Calls : e.type # "devices" => e.n <= received

\* Every step keeps it so.
LEMMA FreshStep == DataTypes /\ FreshInv /\ [Next]_vars => FreshInv'
<1> SUFFICES ASSUME DataTypes, FreshInv, [Next]_vars PROVE FreshInv'
  OBVIOUS
<1>1. /\ received \in Nat /\ received' \in Nat /\ received <= received'
      /\ \A p \in Contents : Receive(p) => received' = received + 1
  BY ReceivedGrows
<1>2. running \subseteq GoodTasks /\ running \subseteq Work /\ events \in Seq(Events) /\ queue_ \in Seq(FreshTasks)
  BY DEF DataTypes, PoolOK, Work
<1>3. ASSUME NEW t \in Work PROVE t.n \in Nat /\ t.n <= received'
  <2>1. t \in GoodTasks
    BY <1>2, RangeFacts DEF Work, FreshTasks
  <2>2. t.n \in Nat
    BY <2>1, TaskFacts DEF Nums, Numbers
  <2>3. t.n <= received
    BY DEF FreshInv
  <2> QED
    BY <1>1, <2>2, <2>3
<1>4. ASSUME NEW e \in Calls, e.type # "devices" PROVE e.n <= received'
  <2>1. e \in Events
    BY <1>2, RangeFacts DEF Calls
  <2>2. e.n \in Nat
    BY <1>4, <2>1 DEF Events, Nums, Numbers
  <2>3. e.n <= received
    BY <1>4 DEF FreshInv
  <2> QED
    BY <1>1, <2>2, <2>3
<1>5. ASSUME packetReceived PROVE Head(events) \in PacketEvents /\ Head(events).n <= received'
  <2>1. Head(events) \in PacketEvents /\ Head(events) \in Calls /\ Head(events).type = "packet"
    BY <1>5, PacketHandled
  <2> QED
    BY <1>4, <2>1
<1>6. ASSUME NEW u \in Work' PROVE u.n <= received'
  <2>1. CASE packetReceived /\ u \in Range(Submitted(Head(events)))
    <3>1. u.n = Head(events).n
      BY <1>5, <2>1, SubmittedFacts
    <3> QED
      BY <1>5, <2>1, <3>1
  <2> QED
    BY <1>2, <1>3, <2>1, NewWork
<1>7. ASSUME NEW e \in Calls', e.type # "devices" PROVE e.n <= received'
  <2>1. ASSUME NEW p \in Contents, Receive(p), e = PacketCall(p) PROVE e.n <= received'
    <3>1. e.n = received + 1
      BY <2>1 DEF PacketCall
    <3> QED
      BY <1>1, <2>1, <3>1
  <2>2. ASSUME packetReceived, e = [Head(events) EXCEPT !.type = "pending"] PROVE e.n <= received'
    <3>1. \A h \in PacketEvents : [h EXCEPT !.type = "pending"].n = h.n
      BY DEF PacketEvents
    <3> QED
      BY <1>5, <2>2, <3>1
  <2>3. ASSUME NEW t \in running, PostsCall(t, e) PROVE e.n <= received'
    <3>1. Belongs(e, t.n, t.body)
      BY <1>2, <2>3, CallBelongs
    <3>2. e.n = t.n
      BY <1>7, <3>1 DEF Belongs
    <3> QED
      BY <1>2, <1>3, <3>2
  <2> QED
    BY <1>4, <1>7, <2>1, <2>2, <2>3, NewCalls
<1>8. ASSUME NEW c \in Cameras, images'[c] # <<>> PROVE Last(images'[c]).n <= received'
  <2> DEFINE T == [n : Numbers, picture : BOOLEAN]
  <2>1. images \in [Cameras -> BoundedSeq(T, MAX_EVENTS_PER_CAMERA)] /\ MAX_EVENTS_PER_CAMERA \in Nat \ {0}
    BY DataAssumption DEF DataTypes, ModelsOK
  <2>2. CASE images'[c] = images[c]
    <3>1. images[c] \in Seq(T) /\ images[c] # <<>>
      BY <1>8, <2>1, <2>2, Bounded
    <3>2. Len(images[c]) \in 1..Len(images[c]) /\ Last(images[c]) = images[c][Len(images[c])]
      BY <3>1 DEF Last
    <3>3. Last(images[c]).n \in Nat
      <4> HIDE DEF T
      <4>1. Last(images[c]) \in T
        BY <3>1, <3>2
      <4> QED
        BY <4>1 DEF T, Numbers
    <3>4. Last(images[c]).n <= received
      BY <3>1 DEF FreshInv
    <3> QED
      BY <1>1, <2>2, <3>3, <3>4
  <2>3. CASE onImageReceivedBase64 /\ images'[c] # images[c]
    <3> DEFINE e == Head(events)
               x == [n |-> e.n, picture |-> e.picture]
    <3>1. /\ e \in Calls /\ e.type = "image" /\ e.id \in Cameras /\ e.n \in Nums /\ e.picture \in BOOLEAN
          /\ images' = [images EXCEPT ![e.id] = Appended(@, x, MAX_EVENTS_PER_CAMERA)]
      BY <2>3, ImageHandled
    <3>2. x \in T /\ x.n = e.n
      BY <3>1 DEF Nums
    <3>3. e.n <= received'
      BY <1>4, <3>1
    <3> HIDE DEF x, e
    <3>4. images'[c] = Appended(images[c], x, MAX_EVENTS_PER_CAMERA)
      BY <2>1, <2>3, <3>1
    <3>5. Last(images'[c]) = x
      <4>1. images[c] \in BoundedSeq(T, MAX_EVENTS_PER_CAMERA)
        BY <2>1
      <4> HIDE DEF T
      <4>2. Last(Appended(images[c], x, MAX_EVENTS_PER_CAMERA)) = x
        BY <2>1, <3>2, <4>1, AppendedFacts
      <4> QED
        BY <3>4, <4>2
    <3> QED
      BY <3>2, <3>3, <3>5
  <2>4. CASE images' = [a \in Cameras |-> <<>>]
    BY <1>8, <2>4
  <2> QED
    BY <2>2, <2>3, <2>4, ImagesKept
<1> QED
  BY <1>6, <1>7, <1>8 DEF FreshInv

\* The cameras that an image of an address goes to.
Targets(data, ip) == IF Found(data, ip) = <<>> THEN << <<ip, 0>> >> ELSE Found(data, ip)

\* They are what matchedIds holds: cameras, at least one.
LEMMA TargetsAre ==
  ASSUME DataTypes, NEW ip \in Ips
  PROVE  /\ matchedIds(ip) = Targets(data_, ip)
         /\ Targets(data_, ip) \in Seq(Cameras) /\ Len(Targets(data_, ip)) \in Nat \ {0}
<1>1. matchedIds(ip) = Targets(data_, ip)
  BY MatchingIs, Zenon DEF matchedIds, Targets
<1>2. data_ \in Seq(Items)
  BY DEF DataTypes, StoresOK
<1>3. matchedIds(ip) \in Seq(Cameras) /\ Len(matchedIds(ip)) \in Nat \ {0}
  BY <1>2, MatchedType
<1> QED
  BY <1>1, <1>3

\* The places of a camera among the first d found.
Places(found, c, d) == {i \in 1..d : found[i] = c}

\* The images when the calls for the first d cameras found have been handled.
ImagesAt(imgs, found, n, d) ==
  \A c \in Cameras :
    IF Places(found, c, d) = {} THEN imgs[c] = <<>> \/ Last(imgs[c]).n # n
    ELSE imgs[c] # <<>> /\ Last(imgs[c]) = [n |-> n, picture |-> Places(found, c, d) = {1}]

\* The next call.
LEMMA ImagesTurn ==
  ASSUME DataTypes, NEW found \in Seq(Cameras), NEW n \in Nums, NEW d \in Nat, d + 1 <= Len(found),
         ImagesAt(images, found, n, d), NEW new,
         new = [images EXCEPT ![found[d + 1]] =
                  Appended(@, [n |-> n, picture |-> d + 1 = 1], MAX_EVENTS_PER_CAMERA)]
  PROVE  ImagesAt(new, found, n, d + 1)
<1> DEFINE T == [n : Numbers, picture : BOOLEAN]
           x == [n |-> n, picture |-> d + 1 = 1]
           k == found[d + 1]
<1>1. images \in [Cameras -> BoundedSeq(T, MAX_EVENTS_PER_CAMERA)] /\ MAX_EVENTS_PER_CAMERA \in Nat \ {0}
  BY DataAssumption DEF DataTypes, ModelsOK
<1>2. x \in T /\ k \in Cameras /\ Len(found) \in Nat
  BY DEF Nums
<1>3. new = [images EXCEPT ![k] = Appended(@, x, MAX_EVENTS_PER_CAMERA)]
  OBVIOUS
<1>4. \A i \in 1..(d + 1) : i \in 1..d \/ i = d + 1
  OBVIOUS
<1>5. d + 1 \in 1..(d + 1) /\ \A i \in 1..d : i \in 1..(d + 1)
  OBVIOUS
<1>6. ASSUME NEW c \in Cameras
      PROVE  IF Places(found, c, d + 1) = {} THEN new[c] = <<>> \/ Last(new[c]).n # n
             ELSE new[c] # <<>> /\ Last(new[c]) = [n |-> n, picture |-> Places(found, c, d + 1) = {1}]
  <2>1. CASE c = k
    <3>1. d + 1 \in Places(found, c, d + 1)
      BY <1>5, <2>1 DEF Places
    <3>2. new[c] # <<>> /\ Last(new[c]) = x
      <4>1. images[c] \in BoundedSeq(T, MAX_EVENTS_PER_CAMERA) /\ new[c] = Appended(images[c], x, MAX_EVENTS_PER_CAMERA)
        <5> HIDE DEF T, x, k
        <5> QED
          BY <1>1, <1>3, <2>1
      <4> HIDE DEF T, x, k
      <4>2. /\ Appended(images[c], x, MAX_EVENTS_PER_CAMERA) # <<>>
            /\ Last(Appended(images[c], x, MAX_EVENTS_PER_CAMERA)) = x
        BY <1>1, <1>2, <4>1, AppendedFacts
      <4> QED
        BY <4>1, <4>2
    <3>3. (Places(found, c, d + 1) = {1}) = (d + 1 = 1)
      <4>1. CASE d = 0
        <5>1. 1..(d + 1) = {1} /\ d + 1 = 1
          BY <4>1
        <5>2. Places(found, c, d + 1) = {1}
          BY <3>1, <5>1 DEF Places
        <5> QED
          BY <5>1, <5>2
      <4>2. CASE d # 0
        <5>1. d + 1 # 1
          BY <4>2
        <5> QED
          BY <3>1, <5>1
      <4> QED
        BY <4>1, <4>2
    <3> QED
      BY <3>1, <3>2, <3>3
  <2>2. CASE c # k
    <3>1. Places(found, c, d + 1) = Places(found, c, d)
      BY <1>4, <1>5, <2>2 DEF Places
    <3>2. new[c] = images[c]
      <4> HIDE DEF T, x, k
      <4> QED
        BY <1>1, <1>3, <2>2
    <3>3. IF Places(found, c, d) = {} THEN images[c] = <<>> \/ Last(images[c]).n # n
          ELSE images[c] # <<>> /\ Last(images[c]) = [n |-> n, picture |-> Places(found, c, d) = {1}]
      BY DEF ImagesAt
    <3> QED
      BY <3>1, <3>2, <3>3
  <2> QED
    BY <2>1, <2>2
<1> QED
  BY <1>6 DEF ImagesAt

\* The cameras are not looked up yet: the packet, its task in the queue, or its task at the
\* lock is all that is under way.
Waiting(evs, que, run) ==
  \/ (\E e : e.type = "packet" /\ evs = <<e>>) /\ que = <<>> /\ run = {}
  \/ evs = <<>> /\ (\E t : que = <<t>>) /\ run = {}
  \/ evs = <<>> /\ que = <<>> /\ \E t : t.at \in {"parse", "lock"} /\ run = {t}

\* The sequence is what follows the first k of found.
IsRest(s, found, k) == Len(s) = Len(found) - k /\ \A i \in 1..Len(s) : s[i] = found[k + i]

\* The call for the i-th camera found, which has the picture if it is the first.
CallFor(found, n, i) == [type |-> "image", n |-> n, id |-> found[i], picture |-> i = 1]

\* The calls for the first q have been posted, those for the first d of them handled.
Posting(evs, que, run, found, n, d, q) ==
  /\ que = <<>> /\ Len(evs) = q - d /\ \A i \in 1..(q - d) : evs[i] = CallFor(found, n, d + i)
  /\ q = Len(found) => run = {}
  /\ q < Len(found) =>
       \E t : run = {t} /\ IsRest(t.left, found, q) /\ t.at = IF q = 0 THEN "post" ELSE "moved"

LoneImage ==
  LonePacket /\ lone[2].type = "IMAGE" =>
    LET found == Targets(data_, lone[2].ip)
    IN  \/ Waiting(events, queue_, running) /\ ImagesAt(images, found, lone[1], 0)
        \/ \E q \in 0..Len(found) : \E d \in 0..q :
             /\ Posting(events, queue_, running, found, lone[1], d, q)
             /\ ImagesAt(images, found, lone[1], d)

\* The tasks for an image.
LEMMA ImageTasks ==
  ASSUME DataTypes, LoneWork, LonePacket, lone[2].type = "IMAGE", NEW t \in Work
  PROVE  t \in GoodTasks /\ t.kind = "image" /\ t.n = lone[1] /\ t.body = lone[2] /\ t.body.form = "ok"
<1>1. t \in GoodTasks
  BY RangeFacts DEF DataTypes, PoolOK, Work, FreshTasks
<1>2. t.n = lone[1] /\ t.body = lone[2] /\ t.body.form = "ok"
  BY DEF LoneWork, LonePacket
<1>3. Fits(t) /\ t \in Tasks
  BY <1>1, TaskFacts DEF GoodTasks
<1>4. t.kind \in {"camera", "meta", "count", "image", "device", "available", "server", "alarm"}
  BY <1>3 DEF Tasks, ListTasks, FoundTasks, DeviceTasks, CopyTasks, PlainTasks
<1> QED
  BY <1>1, <1>2, <1>3, <1>4 DEF Fits

\* A packet with an image that has just come.
LEMMA ImageBegins ==
  ASSUME DataTypes, FreshInv, NEW p \in Contents, Begins(p), NEW found
  PROVE  Waiting(events', queue_', running') /\ ImagesAt(images', found, lone'[1], 0)
<1>1. /\ events' = <<PacketCall(p)>> /\ PacketCall(p).type = "packet" /\ queue_' = <<>> /\ running' = {}
      /\ lone'[1] = received + 1 /\ images' = images
  BY BeginsFacts DEF models
<1>2. Waiting(events', queue_', running')
  BY <1>1 DEF Waiting
<1>3. received \in Nat
  BY DEF DataTypes, ControlOK, Numbers
<1>4. ASSUME NEW c \in Cameras PROVE Places(found, c, 0) = {} /\ (images[c] = <<>> \/ Last(images[c]).n # received + 1)
  <2>1. 1..0 = {}
    OBVIOUS
  <2>2. ASSUME images[c] # <<>> PROVE Last(images[c]).n # received + 1
    <3>1. Last(images[c]).n <= received
      BY <2>2 DEF FreshInv
    <3>2. ~(received + 1 <= received)
      BY <1>3
    <3> QED
      BY <3>1, <3>2
  <2> QED
    BY <2>1, <2>2 DEF Places
<1> QED
  BY <1>1, <1>2, <1>4 DEF ImagesAt

\* Until the cameras are looked up.
LEMMA WaitingStep ==
  ASSUME DataTypes, LoneWork, GoesOn, lone[2].type = "IMAGE", Waiting(events, queue_, running)
  PROVE  /\ images' = images
         /\ \/ Waiting(events', queue_', running')
            \/ Posting(events', queue_', running', Targets(data_, lone[2].ip), lone[1], 0, 0)
<1> DEFINE found == Targets(data_, lone[2].ip)
<1>1. LonePacket /\ process = "up" /\ process' = "up" /\ lone[2].ip \in Ips
  BY LoneFacts, PacketFacts DEF GoesOn
<1>2. found \in Seq(Cameras) /\ Len(found) \in Nat \ {0} /\ matchedIds(lone[2].ip) = found
  BY <1>1, TargetsAre
<1>3. queue_ \in Seq(FreshTasks) /\ running \subseteq Work
  BY DEF DataTypes, PoolOK, Work
<1> HIDE DEF found
<1>4. CASE GuiStep
  <2>1. events # <<>>
    BY <1>4 DEF GuiStep, packetReceived, camerasUpdated, updateSensorInfo, devicesUpdated, serverUpdated,
       onPendingListReceived, onImageReceivedBase64, onAlarm, Handling
  <2>2. PICK e : e.type = "packet" /\ events = <<e>> /\ queue_ = <<>> /\ running = {}
    BY <2>1 DEF Waiting
  <2>3. Head(events) = e /\ Tail(events) = <<>>
    BY <2>2
  <2>4. packetReceived
    BY <1>4, <2>2, <2>3, Handlers
  <2>5. e \in PacketEvents /\ e.body = lone[2]
    BY <1>1, <2>2, <2>3, <2>4, PacketHandled DEF LoneWork, Belongs
  <2>6. Submitted(e) = <<Task("image", e)>>
    BY <2>5 DEF Submitted
  <2>7. events' = <<>> /\ queue_' = queue_ \o Submitted(e) /\ running' = {} /\ images' = images
    BY <2>2, <2>3, <2>4, <2>5 DEF packetReceived, models
  <2>8. queue_' = <<Task("image", e)>>
    <3> DEFINE x == Task("image", e)
    <3>1. queue_' = <<>> \o <<x>>
      BY <2>2, <2>6, <2>7
    <3> HIDE DEF x
    <3>2. <<>> \o <<x>> = <<x>>
      OBVIOUS
    <3> QED
      BY <3>1, <3>2 DEF x
  <2> QED
    BY <2>7, <2>8 DEF Waiting
<1>5. CASE StartTask
  <2>1. queue_ # <<>> /\ running' = running \cup {Head(queue_)} /\ queue_' = Tail(queue_) /\ events' = events
        /\ images' = images
    BY <1>5 DEF StartTask, models
  <2>2. PICK t : queue_ = <<t>> /\ events = <<>> /\ running = {}
    BY <2>1 DEF Waiting
  <2>3. Head(queue_) = t /\ Tail(queue_) = <<>> /\ t \in FreshTasks
    BY <1>3, <2>2
  <2>4. t.at = "parse" /\ running' = {t} /\ queue_' = <<>> /\ events' = <<>>
    BY <2>1, <2>2, <2>3 DEF FreshTasks
  <2> QED
    BY <2>1, <2>4 DEF Waiting
<1>6. ASSUME NEW t \in running, TaskStep(t)
      PROVE  /\ images' = images
             /\ \/ Waiting(events', queue_', running')
                \/ Posting(events', queue_', running', found, lone[1], 0, 0)
  <2>1. running = {t} /\ t.at \in {"parse", "lock"} /\ events = <<>> /\ queue_ = <<>>
    BY DEF Waiting
  <2>2. t \in GoodTasks /\ t.kind = "image" /\ t.body = lone[2] /\ t.body.form = "ok"
    BY <1>1, <1>3, ImageTasks
  <2>3. ASSUME NEW at, NEW left, Goes(t, at, left)
        PROVE  \E u : running' = {u} /\ u.at = at /\ u.left = left
    <3>1. PICK u \in running' : u.at = at /\ u.left = left /\ running' = (running \ {t}) \cup {u}
      BY <2>2, <2>3, GoesFacts
    <3>2. running' = {u}
      BY <2>1, <3>1
    <3> QED
      BY <3>1, <3>2
  <2>4. CASE Parse(t)
    <3>1. ~ParseFails(t)
      BY <2>2 DEF ParseFails
    <3>2. FirstStep(t) /\ events' = events /\ queue_' = queue_ /\ images' = images
      BY <2>4, <3>1 DEF Parse, models
    <3>3. Goes(t, "lock", <<>>)
      BY <2>2, <3>2, Zenon DEF FirstStep
    <3>4. PICK u : running' = {u} /\ u.at = "lock"
      BY <2>3, <3>3
    <3> QED
      BY <2>1, <3>2, <3>4 DEF Waiting
  <2>5. CASE FindImageCameras(t)
    <3>1. Goes(t, "post", found) /\ events' = <<>> /\ queue_' = <<>> /\ images' = images
      BY <1>2, <2>1, <2>2, <2>5 DEF FindImageCameras, models
    <3>2. PICK u : running' = {u} /\ u.at = "post" /\ u.left = found
      BY <2>3, <3>1
    <3>3. Len(found) - 0 = Len(found) /\ \A i \in 1..Len(found) : 0 + i = i
      BY <1>2
    <3>4. IsRest(u.left, found, 0)
      BY <3>2, <3>3 DEF IsRest
    <3>5. Len(<<>>) = 0 /\ 0 - 0 = 0 /\ 1..(0 - 0) = {} /\ Len(found) # 0
      BY <1>2
    <3>6. Posting(events', queue_', running', found, lone[1], 0, 0)
      BY <3>1, <3>2, <3>4, <3>5 DEF Posting
    <3> QED
      BY <3>1, <3>6
  <2>6. Parse(t) \/ FindImageCameras(t)
    BY <1>1, <1>6, <2>1, <2>2 DEF TaskStep, UsesDestroyedStore, StoreUrl, StoreCameras, PostCameras,
       FindSensorCameras, updateDeviceInfo, PostSensor, FindCountCameras, updateAiInfo, PostImage, StoreDevices,
       PostDevices, StoreServer, PostServer, PostAlarm, Locks, At
  <2> QED
    BY <2>4, <2>5, <2>6
<1>7. CASE Unmoved
  BY <1>7 DEF Unmoved, models
<1> QED
  BY <1>4, <1>5, <1>6, <1>7 DEF GoesOn, found

\* One more call is posted, or one more handled.
LEMMA PostingStep ==
  ASSUME DataTypes, LoneWork, GoesOn, lone[2].type = "IMAGE", NEW found, found = Targets(data_, lone[2].ip),
         NEW q \in 0..Len(found), NEW d \in 0..q,
         Posting(events, queue_, running, found, lone[1], d, q), ImagesAt(images, found, lone[1], d)
  PROVE  \E k \in 0..Len(found) : \E e \in 0..k :
           /\ Posting(events', queue_', running', found, lone[1], e, k)
           /\ ImagesAt(images', found, lone[1], e)
<1> DEFINE n == lone[1]
           L == Len(found)
<1>1. LonePacket /\ process = "up" /\ process' = "up" /\ lone[2].ip \in Ips /\ n \in Nums
  BY LoneFacts, PacketFacts DEF GoesOn
<1>2. found \in Seq(Cameras) /\ L \in Nat \ {0} /\ q \in Nat /\ d \in Nat /\ d <= q /\ q <= L
  BY <1>1, TargetsAre
<1>3. events \in Seq(Events) /\ running \subseteq Work
  BY DEF DataTypes, Work
<1> HIDE DEF n, L
<1>4. /\ queue_ = <<>> /\ Len(events) = q - d /\ \A i \in 1..(q - d) : events[i] = CallFor(found, n, d + i)
      /\ q = L => running = {}
      /\ q < L => \E t : running = {t} /\ IsRest(t.left, found, q) /\ t.at = IF q = 0 THEN "post" ELSE "moved"
  BY DEF Posting, n, L
<1>5. CASE GuiStep
  <2>1. events # <<>>
    BY <1>5 DEF GuiStep, packetReceived, camerasUpdated, updateSensorInfo, devicesUpdated, serverUpdated,
       onPendingListReceived, onImageReceivedBase64, onAlarm, Handling
  <2>2. q - d >= 1 /\ 1 \in 1..(q - d) /\ Head(events) = events[1]
    BY <1>2, <1>3, <1>4, <2>1
  <2> DEFINE e == Head(events)
  <2>3. e = CallFor(found, n, d + 1)
    BY <1>4, <2>2
  <2>4. e.type = "image" /\ e.n = n /\ e.id = found[d + 1] /\ e.picture = (d + 1 = 1)
    BY <2>3 DEF CallFor
  <2>5. onImageReceivedBase64
    BY <1>5, <2>4, Handlers
  <2>6. /\ images' = [images EXCEPT ![e.id] = Appended(@, [n |-> e.n, picture |-> e.picture], MAX_EVENTS_PER_CAMERA)]
        /\ events' = Tail(events) /\ queue_' = queue_ /\ running' = running
    BY <2>5, ImageHandled
  <2> HIDE DEF e
  <2>7. images' = [images EXCEPT ![found[d + 1]] = Appended(@, [n |-> n, picture |-> d + 1 = 1], MAX_EVENTS_PER_CAMERA)]
    BY <2>4, <2>6
  <2>8. d + 1 \in 0..q /\ d + 1 <= L
    BY <1>2, <2>2
  <2>9. ImagesAt(images', found, n, d + 1)
    BY <1>1, <1>2, <2>7, <2>8, ImagesTurn DEF n, L
  <2>10. Len(events') = q - (d + 1)
    BY <1>2, <1>3, <1>4, <2>1, <2>6
  <2>11. ASSUME NEW i \in 1..(q - (d + 1)) PROVE events'[i] = CallFor(found, n, (d + 1) + i)
    <3>1. i + 1 \in 1..(q - d) /\ d + (i + 1) = (d + 1) + i /\ i \in 1..(Len(events) - 1)
      BY <1>2, <1>4
    <3>2. Tail(events)[i] = events[i + 1]
      BY <1>3, <2>1, <3>1, QueueFacts
    <3>3. events[i + 1] = CallFor(found, n, d + (i + 1))
      BY <1>4, <3>1
    <3> QED
      BY <2>6, <3>1, <3>2, <3>3
  <2>12. Posting(events', queue_', running', found, n, d + 1, q)
    BY <1>4, <2>6, <2>10, <2>11 DEF Posting, L
  <2> QED
    BY <2>8, <2>9, <2>12 DEF n
<1>6. CASE StartTask
  BY <1>4, <1>6 DEF StartTask
<1>7. ASSUME NEW t \in running, TaskStep(t)
      PROVE  \E k \in 0..L : \E e \in 0..k :
               Posting(events', queue_', running', found, n, e, k) /\ ImagesAt(images', found, n, e)
  <2>1. q < L
    BY <1>2, <1>4
  <2>2. running = {t} /\ IsRest(t.left, found, q) /\ t.at = IF q = 0 THEN "post" ELSE "moved"
    BY <1>4, <2>1
  <2>3. t \in GoodTasks /\ t.kind = "image" /\ t.n = n
    BY <1>1, <1>3, ImageTasks DEF n
  <2>4. t.left \in Seq(Cameras) /\ t.left # <<>> /\ t.at \in {"post", "moved"}
    BY <2>2, <2>3, TaskFacts DEF FoundTasks, Fits
  <2>5. PostImage(t, t.at)
    BY <1>1, <1>7, <2>3, <2>4 DEF TaskStep, Parse, UsesDestroyedStore, StoreUrl, StoreCameras, PostCameras,
       FindSensorCameras, updateDeviceInfo, PostSensor, FindCountCameras, updateAiInfo, FindImageCameras, PostImage,
       StoreDevices, PostDevices, StoreServer, PostServer, PostAlarm, Locks, At
  <2>6. /\ Post(ImageCall(t)) /\ queue_' = queue_ /\ images' = images
        /\ IF Len(t.left) = 1 THEN Ends(t) ELSE Goes(t, "moved", Tail(t.left))
    BY <2>5, Zenon DEF PostImage, ImageCall, models
  <2>7. events' = Append(events, ImageCall(t))
    BY <1>1, <2>6 DEF Post
  <2>8. /\ Len(t.left) \in Nat \ {0} /\ Len(t.left) = L - q /\ \A i \in 1..Len(t.left) : t.left[i] = found[q + i]
        /\ Head(t.left) = t.left[1]
    BY <2>2, <2>4 DEF IsRest, L
  <2>9. ImageCall(t) = CallFor(found, n, q + 1)
    <3>1. Head(t.left) = found[q + 1]
      BY <2>8
    <3>2. (t.at = "post") = (q + 1 = 1)
      BY <1>2, <2>2
    <3> QED
      BY <2>3, <3>1, <3>2 DEF ImageCall, CallFor
  <2> DEFINE x == ImageCall(t)
  <2> HIDE DEF x
  <2>10. /\ Len(events') = (q + 1) - d
         /\ \A i \in 1..(q - d) : events'[i] = events[i]
         /\ events'[(q + 1) - d] = x
    <3>1. Len(events) = q - d /\ events' = Append(events, x) /\ (q - d) + 1 = (q + 1) - d
      BY <1>2, <1>4, <2>7 DEF x
    <3>2. /\ Len(Append(events, x)) = Len(events) + 1 /\ Append(events, x)[Len(events) + 1] = x
          /\ \A i \in 1..Len(events) : Append(events, x)[i] = events[i]
      BY <1>3
    <3> QED
      BY <3>1, <3>2
  <2>11. ASSUME NEW i \in 1..((q + 1) - d) PROVE events'[i] = CallFor(found, n, d + i)
    <3>1. CASE i \in 1..(q - d)
      BY <1>4, <2>10, <3>1
    <3>2. CASE i = (q + 1) - d
      <4>1. d + i = q + 1
        BY <1>2, <3>2
      <4> QED
        BY <2>9, <2>10, <3>2, <4>1 DEF x
    <3> QED
      BY <1>2, <3>1, <3>2
  <2>12. q + 1 \in 0..L /\ d \in 0..(q + 1) /\ (q + 1 = L <=> Len(t.left) = 1) /\ q + 1 # 0
    BY <1>2, <2>1, <2>8
  <2>13. q + 1 = L => running' = {}
    BY <2>2, <2>6, <2>12 DEF Ends
  <2>14. ASSUME q + 1 < L PROVE \E u : running' = {u} /\ IsRest(u.left, found, q + 1) /\ u.at = "moved"
    <3>1. Len(t.left) # 1
      BY <1>2, <2>12, <2>14
    <3>2. Goes(t, "moved", Tail(t.left))
      BY <2>6, <3>1
    <3>3. PICK u \in running' : u.at = "moved" /\ u.left = Tail(t.left) /\ running' = (running \ {t}) \cup {u}
      BY <2>3, <3>2, GoesFacts
    <3>4. running' = {u}
      BY <2>2, <3>3
    <3>5. Len(u.left) = L - (q + 1)
      BY <1>2, <2>4, <2>8, <3>3
    <3>6. ASSUME NEW i \in 1..Len(u.left) PROVE u.left[i] = found[(q + 1) + i]
      <4>1. i + 1 \in 1..Len(t.left) /\ q + (i + 1) = (q + 1) + i /\ i \in 1..(Len(t.left) - 1)
        BY <1>2, <2>8, <3>5
      <4>2. Tail(t.left)[i] = t.left[i + 1]
        BY <2>4, <4>1, QueueFacts
      <4>3. t.left[i + 1] = found[q + (i + 1)]
        BY <2>8, <4>1
      <4> QED
        BY <3>3, <4>1, <4>2, <4>3
    <3>7. IsRest(u.left, found, q + 1)
      BY <3>5, <3>6 DEF IsRest, L
    <3> QED
      BY <3>3, <3>4, <3>7
  <2>15. Posting(events', queue_', running', found, n, d, q + 1)
    BY <1>4, <2>6, <2>10, <2>11, <2>12, <2>13, <2>14 DEF Posting, L
  <2>16. ImagesAt(images', found, n, d)
    BY <2>6 DEF n
  <2> QED
    BY <2>12, <2>15, <2>16
<1>8. CASE Unmoved
  BY <1>8 DEF Unmoved, models
<1> QED
  BY <1>5, <1>6, <1>7, <1>8 DEF GoesOn, n, L

\* AiImageModel shows the packet's image.
LEMMA LoneImageStep == DataTypes /\ LoneWork /\ FreshInv /\ LoneImage /\ [Next]_vars => LoneImage'
<1> DEFINE Goal(found, n) ==
             \/ Waiting(events', queue_', running') /\ ImagesAt(images', found, n, 0)
             \/ \E q \in 0..Len(found) : \E d \in 0..q :
                  Posting(events', queue_', running', found, n, d, q) /\ ImagesAt(images', found, n, d)
<1> SUFFICES ASSUME DataTypes, LoneWork, FreshInv, LoneImage, [Next]_vars, LonePacket', lone'[2].type = "IMAGE"
             PROVE  Goal(Targets(data_', lone'[2].ip), lone'[1])
  BY DEF LoneImage
<1>1. ASSUME NEW p \in Contents, Begins(p) PROVE Goal(Targets(data_', lone'[2].ip), lone'[1])
  BY <1>1, ImageBegins
<1>2. CASE GoesOn
  <2> DEFINE found == Targets(data_, lone[2].ip)
             n == lone[1]
  <2>1. lone' = lone /\ lone[2].type = "IMAGE" /\ LonePacket
    BY <1>2 DEF GoesOn
  <2>2. data_' = data_
    BY <1>2, <2>1, DataKept
  <2>3. \/ Waiting(events, queue_, running) /\ ImagesAt(images, found, n, 0)
        \/ \E q \in 0..Len(found) : \E d \in 0..q :
             Posting(events, queue_, running, found, n, d, q) /\ ImagesAt(images, found, n, d)
    BY <2>1 DEF LoneImage
  <2>4. Len(found) \in Nat
    BY <2>1, LoneFacts, PacketFacts, TargetsAre
  <2>5. CASE Waiting(events, queue_, running) /\ ImagesAt(images, found, n, 0)
    <3>1. images' = images /\ (\/ Waiting(events', queue_', running')
                               \/ Posting(events', queue_', running', found, n, 0, 0))
      BY <1>2, <2>1, <2>5, WaitingStep
    <3>2. 0 \in 0..Len(found) /\ 0 \in 0..0
      BY <2>4
    <3> HIDE DEF found, n
    <3>3. Goal(found, n)
      BY <2>5, <3>1, <3>2
    <3> QED
      BY <2>1, <2>2, <3>3 DEF found, n
  <2>6. ASSUME NEW q \in 0..Len(found), NEW d \in 0..q,
               Posting(events, queue_, running, found, n, d, q), ImagesAt(images, found, n, d)
        PROVE  Goal(Targets(data_', lone'[2].ip), lone'[1])
    <3>1. \E k \in 0..Len(found) : \E e \in 0..k :
            Posting(events', queue_', running', found, n, e, k) /\ ImagesAt(images', found, n, e)
      BY <1>2, <2>1, <2>6, PostingStep
    <3> QED
      BY <2>1, <2>2, <3>1
  <2> QED
    BY <2>3, <2>5, <2>6
<1> QED
  BY <1>1, <1>2, LoneSteps

-------------------------------------------------------------------------------
(* Every part together *)

\* The work, what it has reached, and what the rest of the state must be for it.
LoneInv ==
  /\ LoneWork /\ ClearedInv /\ AddressInv /\ FreshInv
  /\ LoneElse /\ LoneServer /\ LoneAlarm /\ LoneUsers /\ LoneSensors /\ LoneCount
  /\ LoneList /\ LoneRows /\ LoneReadings /\ LoneImage

\* The places of data_, up to m, whose address begins with ip.
Hits(ip, m) == {i \in 1..m : data_[i].ip \in Extended[ip]}

\* g lists the cameras at these places, in their order; h says which is from where.
Follows(g, h, ip, m) ==
  /\ g \in Seq(Cameras) /\ h \in [1..Len(g) -> Hits(ip, m)]
  /\ \A k \in 1..Len(g) : g[k] = CameraId(data_[h[k]])
  /\ \A k, l \in 1..Len(g) : k < l => h[k] < h[l]
  /\ \A i \in Hits(ip, m) : \E k \in 1..Len(g) : h[k] = i

\* One turn of the loop.
LEMMA FollowsTurn ==
  ASSUME data_ \in Seq(Items), NEW ip, NEW n \in Nat, n + 1 \in 1..Len(data_),
         NEW g, NEW h, Follows(g, h, ip, n)
  PROVE  \E k : Follows(FoundCamera(g, data_[n + 1], ip), k, ip, n + 1)
<1> DEFINE x == data_[n + 1]
           L == Len(g)
<1>1. x \in Items /\ CameraId(x) \in Cameras
  BY CameraIds
<1>2. g \in Seq(Cameras) /\ L \in Nat /\ h \in [1..L -> Hits(ip, n)]
  BY DEF Follows
<1>3. 1..(n + 1) = 1..n \cup {n + 1} /\ \A i \in 1..n : i < n + 1
  OBVIOUS
<1>4. CASE x.ip \notin Extended[ip]
  <2>1. Hits(ip, n + 1) = Hits(ip, n)
    BY <1>3, <1>4 DEF Hits
  <2>2. FoundCamera(g, x, ip) = g
    BY <1>4 DEF FoundCamera
  <2> QED
    BY <2>1, <2>2 DEF Follows
<1>5. CASE x.ip \in Extended[ip]
  <2> DEFINE new == Append(g, CameraId(x))
             k == [l \in 1..(L + 1) |-> IF l \in 1..L THEN h[l] ELSE n + 1]
  <2>1. Hits(ip, n + 1) = Hits(ip, n) \cup {n + 1}
    BY <1>3, <1>5 DEF Hits
  <2>2. FoundCamera(g, x, ip) = new
    BY <1>5 DEF FoundCamera
  <2>3. /\ new \in Seq(Cameras) /\ Len(new) = L + 1 /\ new[L + 1] = CameraId(x)
        /\ \A l \in 1..L : new[l] = g[l]
    BY <1>1, <1>2
  <2>4. 1..(L + 1) = 1..L \cup {L + 1} /\ L + 1 \notin 1..L /\ \A l \in 1..L : l < L + 1
    BY <1>2
  <2>5. \A l \in 1..L : k[l] = h[l] /\ h[l] \in Hits(ip, n) /\ h[l] < n + 1
    BY <1>2, <1>3, <2>4 DEF Hits
  <2>6. k[L + 1] = n + 1
    BY <2>4
  <2>7. k \in [1..(L + 1) -> Hits(ip, n + 1)]
    BY <1>2, <2>1
  <2> HIDE DEF new, k, L
  <2>8. \A l \in 1..(L + 1) : new[l] = CameraId(data_[k[l]])
    BY <2>3, <2>4, <2>5, <2>6 DEF Follows, L
  <2>9. ASSUME NEW l \in 1..(L + 1), NEW m \in 1..(L + 1), l < m PROVE k[l] < k[m]
    <3>1. l \in 1..L
      BY <1>2, <2>9
    <3>2. CASE m = L + 1
      BY <2>5, <2>6, <3>1, <3>2
    <3>3. CASE m \in 1..L
      BY <2>5, <2>9, <3>1, <3>3 DEF Follows, L
    <3> QED
      BY <2>4, <3>2, <3>3
  <2>10. \A i \in Hits(ip, n + 1) : \E l \in 1..(L + 1) : k[l] = i
    BY <2>1, <2>4, <2>5, <2>6 DEF Follows, L
  <2>11. Follows(new, k, ip, n + 1)
    BY <2>3, <2>7, <2>8, <2>9, <2>10 DEF Follows
  <2> QED
    BY <2>2, <2>11
<1> QED
  BY <1>4, <1>5

\* What Found holds: the cameras of snapshot() that match, in its order.
LEMMA FoundFollows ==
  ASSUME data_ \in Seq(Items), NEW ip
  PROVE  \E h : Follows(Found(data_, ip), h, ip, Len(data_))
<1> DEFINE N == Len(data_)
           G == Seq(Cameras)
<1>1. FindClosed(G, Items, ip)
  BY CameraIds DEF FindClosed, FoundCamera
<1>2. PICK f : FindTurns(f, <<>>, data_, ip) /\ Found(data_, ip) = f[N]
  <2>1. <<>> \in G
    OBVIOUS
  <2> HIDE DEF G
  <2>2. \E f : FindTurns(f, <<>>, data_, ip) /\ FindAll(<<>>, data_, ip) = f[N]
    BY <1>1, <2>1, FindLoop
  <2> QED
    BY <2>2 DEF Found
<1>3. N \in Nat /\ \A n \in 0..(N - 1) : n \in Nat /\ n + 1 \in 1..N /\ (n + 1) - 1 = n /\ n + 1 \in 0..N
  OBVIOUS
<1> DEFINE P == {n \in 0..N : \E h : Follows(f[n], h, ip, n)}
<1>4. 0 \in P
  <2>1. f[0] = <<>> /\ 0 \in 0..N
    BY <1>2, <1>3 DEF FindTurns
  <2>2. Len(<<>>) = 0 /\ 1..0 = {} /\ <<>> \in Seq(Cameras)
    OBVIOUS
  <2>3. Hits(ip, 0) = {}
    BY <2>2 DEF Hits
  <2>4. Follows(<<>>, [k \in 1..0 |-> 0], ip, 0)
    BY <2>2, <2>3 DEF Follows
  <2> QED
    BY <2>1, <2>4
<1>5. ASSUME NEW n \in 0..(N - 1), n \in P PROVE n + 1 \in P
  <2>1. PICK h : Follows(f[n], h, ip, n)
    BY <1>5
  <2>2. f[n + 1] = FoundCamera(f[n], data_[n + 1], ip)
    BY <1>2, <1>3 DEF FindTurns
  <2>3. \E k : Follows(f[n + 1], k, ip, n + 1)
    BY <1>3, <2>1, <2>2, FollowsTurn
  <2> QED
    BY <1>3, <2>3
<1> HIDE DEF P
<1>6. N \in P
  <2>1. \A n \in 0..N : n \in P
    BY <1>3, <1>4, <1>5, SetInduction
  <2> QED
    BY <1>3, <2>1
<1> QED
  BY <1>2, <1>6 DEF P

\* The cameras listed with an address are found with it.
LEMMA OwnAreFound ==
  ASSUME data_ \in Seq(Items), NEW ip \in Ips, NEW c \in Listed(data_), c[1] = ip
  PROVE  c \in Range(Found(data_, ip)) /\ c \in Cameras
<1>1. PICK i \in 1..Len(data_) : c = CameraId(data_[i])
  BY DEF Listed, Range
<1>2. data_[i] \in Items /\ c[1] = data_[i].ip /\ c \in Cameras
  BY <1>1, CameraIds DEF CameraId
<1>3. i \in Hits(ip, Len(data_))
  BY <1>2, DataAssumption DEF Hits
<1>4. PICK h : Follows(Found(data_, ip), h, ip, Len(data_))
  BY FoundFollows
<1>5. PICK k \in 1..Len(Found(data_, ip)) : h[k] = i
  BY <1>3, <1>4 DEF Follows
<1>6. Found(data_, ip)[k] = c /\ DOMAIN Found(data_, ip) = 1..Len(Found(data_, ip))
  BY <1>1, <1>4, <1>5 DEF Follows
<1> QED
  BY <1>2, <1>5, <1>6 DEF Range

\* The images when all calls for image n have been handled.
LEMMA ImagesShown ==
  ASSUME DataTypes, NEW ip \in Ips, NEW n,
         ImagesAt(images, Targets(data_, ip), n, Len(Targets(data_, ip)))
  PROVE  ImageShown(n, ip)
<1> DEFINE g == Found(data_, ip)
           t == Targets(data_, ip)
           N == Len(data_)
<1>1. data_ \in Seq(Items) /\ N \in Nat /\ DOMAIN data_ = 1..N /\ \A i \in 1..N : data_[i] \in Items
  BY DEF DataTypes, StoresOK
<1>2. PICK h : Follows(g, h, ip, N)
  BY <1>1, FoundFollows
<1>3. g \in Seq(Cameras) /\ Len(g) \in Nat /\ h \in [1..Len(g) -> Hits(ip, N)]
  BY <1>2 DEF Follows
<1>4. <<ip, 0>> \in Cameras
  BY DataAssumption DEF Cameras
<1>5. t = (IF g = <<>> THEN << <<ip, 0>> >> ELSE g)
  BY DEF Targets
<1>6. Own(ip) \subseteq Hits(ip, N) /\ \A i \in Own(ip) : i \in 1..N /\ data_[i].ip = ip /\ CameraId(data_[i]) \in Cameras
  BY <1>1, CameraIds, DataAssumption DEF Own, Hits
<1>7. ASSUME NEW c \in Cameras
      PROVE  IF Places(t, c, Len(t)) = {} THEN ~Newest(c, n)
             ELSE Newest(c, n) /\ Last(images[c]).picture = (Places(t, c, Len(t)) = {1})
  <2> DEFINE S == Places(t, c, Len(t))
  <2>1. IF S = {} THEN images[c] = <<>> \/ Last(images[c]).n # n
        ELSE images[c] # <<>> /\ Last(images[c]) = [n |-> n, picture |-> S = {1}]
    BY Zenon DEF ImagesAt
  <2> HIDE DEF S
  <2>2. CASE S = {}
    BY <2>1, <2>2 DEF Newest, S
  <2>3. CASE S # {}
    <3> DEFINE b == S = {1}
    <3>1. images[c] # <<>> /\ Last(images[c]) = [n |-> n, picture |-> b]
      BY <2>1, <2>3, Zenon
    <3> HIDE DEF b
    <3>2. Last(images[c]).n = n /\ Last(images[c]).picture = b
      BY <3>1
    <3> QED
      BY <2>3, <3>1, <3>2, Zenon DEF Newest, S, b
  <2> QED
    BY <2>2, <2>3
<1> HIDE DEF g, t, N
<1>8. ASSUME NEW i \in Own(ip)
      PROVE  g # <<>> /\ t = g /\ \E k \in 1..Len(g) : h[k] = i /\ g[k] = CameraId(data_[i])
  <2>1. PICK k \in 1..Len(g) : h[k] = i
    BY <1>2, <1>6, <1>8 DEF Follows
  <2>2. g[k] = CameraId(data_[i])
    BY <1>2, <2>1 DEF Follows
  <2>3. g # <<>>
    BY <1>3, <2>1
  <2> QED
    BY <1>5, <2>1, <2>2, <2>3
<1>9. ASSUME NEW i \in Own(ip) PROVE Newest(CameraId(data_[i]), n)
  <2>1. PICK k \in 1..Len(g) : g[k] = CameraId(data_[i])
    BY <1>8, <1>9
  <2>2. t = g
    BY <1>8, <1>9
  <2>3. k \in Places(t, CameraId(data_[i]), Len(t))
    BY <2>1, <2>2 DEF Places
  <2> QED
    BY <1>6, <1>7, <1>9, <2>3
<1>10. ASSUME Alone(ip), NEW c \in Cameras, Newest(c, n) PROVE c[1] = ip
  <2>1. PICK k \in 1..Len(t) : t[k] = c
    BY <1>7, <1>10 DEF Places
  <2>2. CASE g = <<>>
    <3>1. Len(t) = 1 /\ t[1] = <<ip, 0>>
      BY <1>5, <2>2
    <3> QED
      BY <2>1, <3>1
  <2>3. CASE g # <<>>
    <3>1. k \in 1..Len(g) /\ g[k] = c
      BY <1>5, <2>1, <2>3
    <3>2. h[k] \in Hits(ip, N) /\ c = CameraId(data_[h[k]])
      BY <1>2, <1>3, <3>1 DEF Follows
    <3>3. data_[h[k]].ip = ip
      BY <1>1, <1>10, <3>2 DEF Hits, Alone
    <3> QED
      BY <3>2, <3>3 DEF CameraId
  <2> QED
    BY <2>2, <2>3
<1>11. ASSUME Alone(ip), Own(ip) = {} PROVE Newest(<<ip, 0>>, n) /\ Last(images[<<ip, 0>>]).picture
  <2>1. Hits(ip, N) = {}
    BY <1>1, <1>11 DEF Hits, Alone, Own
  <2>2. g = <<>>
    <3>1. ~(1 \in 1..Len(g))
      BY <1>3, <2>1
    <3> QED
      BY <1>3, <3>1
  <2>3. Len(t) = 1 /\ t[1] = <<ip, 0>>
    BY <1>5, <2>2
  <2>4. Places(t, <<ip, 0>>, Len(t)) = {1}
    BY <2>3 DEF Places
  <2> QED
    BY <1>4, <1>7, <2>4
<1>12. ASSUME Alone(ip), NEW i \in Own(ip),
              \A j \in Own(ip) : j >= i /\ (CameraId(data_[j]) = CameraId(data_[i]) => j = i)
       PROVE  Last(images[CameraId(data_[i])]).picture
  <2> DEFINE c == CameraId(data_[i])
  <2>1. PICK k \in 1..Len(g) : h[k] = i /\ g[k] = c
    BY <1>8, <1>12
  <2>2. t = g
    BY <1>8, <1>12
  <2>3. \A l \in 1..Len(g) : h[l] \in Own(ip) /\ g[l] = CameraId(data_[h[l]]) /\ h[l] \in 1..N
    BY <1>1, <1>2, <1>3, <1>12 DEF Follows, Hits, Alone, Own
  <2>4. k = 1
    <3>1. SUFFICES ASSUME 1 < k PROVE FALSE
      BY <1>3
    <3>2. 1 \in 1..Len(g)
      BY <1>3
    <3>3. h[1] < h[k]
      BY <1>2, <3>1, <3>2 DEF Follows
    <3>4. h[1] >= i /\ h[1] \in 1..N /\ h[k] = i
      BY <1>12, <2>1, <2>3, <3>2
    <3> QED
      BY <1>6, <1>12, <3>3, <3>4
  <2>5. ASSUME NEW l \in 1..Len(g), g[l] = c PROVE l = 1
    <3>1. h[l] = i
      BY <1>12, <2>3, <2>5
    <3>2. SUFFICES ASSUME 1 < l PROVE FALSE
      BY <1>3
    <3>3. h[1] < h[l]
      BY <1>2, <2>4, <3>2 DEF Follows
    <3> QED
      BY <1>6, <1>12, <2>1, <2>4, <3>1, <3>3
  <2>6. Places(t, c, Len(t)) = {1}
    BY <2>1, <2>2, <2>4, <2>5 DEF Places
  <2>7. c \in Cameras
    BY <1>6, <1>12
  <2> HIDE DEF c
  <2>8. Last(images[c]).picture
    BY <1>7, <2>6, <2>7
  <2> QED
    BY <2>8 DEF c
<1> QED
  BY <1>9, <1>10, <1>11, <1>12 DEF ImageShown

\* When nothing is under way, what it has reached is what must be shown.
LEMMA LoneShown ==
  ASSUME DataTypes, LoneInv, Idle, LonePacket
  PROVE  Shown(lone[1], lone[2])
<1> DEFINE n == lone[1]
           p == lone[2]
<1>1. Work = {} /\ Calls = {} /\ events = <<>> /\ queue_ = <<>> /\ running = {}
  BY DEF Idle, Work, Calls, Range
<1>2. \A x : ~Calling(x) /\ ~Working(x) /\ ~UnderWay(x) /\ ~Early(x)
  BY <1>1 DEF Calling, Working, UnderWay, Early
<1>3. \A x, c : ~Left(x, c)
  BY <1>1 DEF Left
<1>4. p \in Contents /\ p.form = "ok" /\ n \in Nums
  BY LoneFacts
<1>5. p.type \in {"CAMERA", "AVAILABLE", "META", "AI", "IMAGE", "ASSIGN"}
  BY <1>4, PacketsAssumption
<1>6. CASE p.type = "CAMERA"
  <2>1. ListShown(cameras, p.list) /\ IsMerged(deviceRows, p.list)
    BY <1>2, <1>6 DEF LoneInv, LoneList, LoneRows
  <2> HIDE DEF n, p
  <2>2. \A c \in Cameras :
          cameras[c].shown = IF c \in Listed(p.list)
                             THEN IF Item(p.list, c).online THEN "online" ELSE "offline"
                             ELSE IF cameras[c] = Absent THEN "absent" ELSE "offline"
    BY <2>1, Zenon DEF ListShown
  <2>3. ASSUME NEW i \in DOMAIN p.list, \A j \in DOMAIN p.list : p.list[j].ip = p.list[i].ip => j <= i
        PROVE  LET row == deviceRows[byIp_(deviceRows, p.list[i].ip)] IN
               row.isOnline = p.list[i].online /\ row.cameraId = CameraId(p.list[i])
    BY <2>1, <2>3 DEF IsMerged, IsLast, byIp_
  <2>4. ASSUME NEW i \in DOMAIN deviceRows, \A j \in DOMAIN p.list : p.list[j].ip # deviceRows[i].ip
        PROVE  ~deviceRows[byIp_(deviceRows, deviceRows[i].ip)].isOnline
    BY <2>1, <2>4 DEF IsMerged, IsListed, byIp_
  <2>5. Shown(n, p)
    BY <1>6, <2>2, <2>3, <2>4 DEF Shown
  <2> QED
    BY <2>5 DEF n, p
<1>7. CASE p.type = "AVAILABLE"
  <2>1. /\ server.devices = n /\ server.server = (IF p.server THEN n ELSE 0)
        /\ DataShown(devices_, deviceRows, p.ips, n)
    BY <1>2, <1>7 DEF LoneInv, LoneServer, LoneReadings
  <2> HIDE DEF n, p
  <2>2. \A ip \in Range(p.ips) : Cardinality(Rows(devices_, ip)) = 1 => deviceRows[byIp_(deviceRows, ip)].cpu = n
    BY <2>1 DEF DataShown, byIp_
  <2>3. Shown(n, p)
    BY <1>7, <2>1, <2>2 DEF Shown
  <2> QED
    BY <2>3 DEF n, p
<1>8. CASE p.type = "META"
  <2>1. \A c \in Range(Found(data_, p.ip)) : cameras[c] # Absent => cameras[c].sensor = n
    BY <1>1, <1>2, <1>3, <1>8 DEF LoneInv, LoneSensors
  <2> HIDE DEF n, p
  <2>2. \A c \in Listed(data_) : c[1] = p.ip /\ cameras[c] # Absent => cameras[c].sensor = n
    BY <1>4, <1>8, <2>1, PacketFacts, OwnAreFound DEF DataTypes, StoresOK, n, p
  <2>3. Shown(n, p)
    BY <1>8, <2>2 DEF Shown
  <2> QED
    BY <2>3 DEF n, p
<1>9. CASE p.type = "AI"
  <2>1. p.alarm => alarms_ # <<>> /\ Last(alarms_).n = n
    BY <1>2, <1>9 DEF LoneInv, LoneAlarm
  <2>2. p.count => \A c \in Range(Found(data_, p.ip)) : table_[c].aiInfo = n
    BY <1>2, <1>3, <1>9 DEF LoneInv, LoneCount
  <2> HIDE DEF n, p
  <2>3. p.count => \A c \in Listed(data_) : c[1] = p.ip => table_[c].aiInfo = n
    BY <1>4, <1>9, <2>2, PacketFacts, OwnAreFound DEF DataTypes, StoresOK, n, p
  <2>4. Shown(n, p)
    BY <1>9, <2>1, <2>3 DEF Shown
  <2> QED
    BY <2>4 DEF n, p
<1>10. CASE p.type = "IMAGE"
  <2> DEFINE found == Targets(data_, p.ip)
  <2>1. \/ Waiting(events, queue_, running)
        \/ \E q \in 0..Len(found) : \E d \in 0..q :
             Posting(events, queue_, running, found, n, d, q) /\ ImagesAt(images, found, n, d)
    BY <1>10 DEF LoneInv, LoneImage
  <2>2. found \in Seq(Cameras) /\ Len(found) \in Nat \ {0} /\ matchedIds(p.ip) = found
    BY <1>4, <1>10, PacketFacts, TargetsAre
  <2> HIDE DEF n, p, found
  <2>3. ~Waiting(events, queue_, running)
    <3>1. \A x : <<x>> # <<>> /\ {x} # {}
      OBVIOUS
    <3> QED
      BY <1>1, <3>1 DEF Waiting
  <2>4. PICK q \in 0..Len(found) : \E d \in 0..q :
          Posting(events, queue_, running, found, n, d, q) /\ ImagesAt(images, found, n, d)
    BY <2>1, <2>3
  <2>5. PICK d \in 0..q : Posting(events, queue_, running, found, n, d, q) /\ ImagesAt(images, found, n, d)
    BY <2>4
  <2>6. q = Len(found)
    <3>1. ~(q < Len(found))
      BY <1>1, <2>5 DEF Posting
    <3> QED
      BY <2>2, <3>1
  <2>7. d = q
    <3>1. Len(events) = 0 /\ Len(events) = q - d
      BY <1>1, <2>5 DEF Posting
    <3> QED
      BY <2>2, <3>1
  <2>8. ImagesAt(images, found, n, Len(found)) /\ DOMAIN found = 1..Len(found)
    BY <2>2, <2>5, <2>6, <2>7
  <2>9. ImageShown(n, p.ip)
    BY <1>4, <1>10, <2>8, PacketFacts, ImagesShown DEF found, p
  <2>10. Shown(n, p)
    BY <1>10, <2>9 DEF Shown
  <2> QED
    BY <2>10 DEF n, p
<1>11. CASE p.type = "ASSIGN"
  <2>1. p.ok => users = n
    BY <1>2, <1>11 DEF LoneInv, LoneUsers
  <2> HIDE DEF n, p
  <2>2. Shown(n, p)
    BY <1>11, <2>1 DEF Shown
  <2> QED
    BY <2>2 DEF n, p
<1> QED
  BY <1>5, <1>6, <1>7, <1>8, <1>9, <1>10, <1>11

\* The program starts with no packet and nothing shown.
LEMMA LoneInit == Init => LoneInv
<1> SUFFICES ASSUME Init PROVE LoneInv
  OBVIOUS
<1>1. /\ lone = <<>> /\ cleared = FALSE /\ events = <<>> /\ queue_ = <<>> /\ running = {}
      /\ deviceRows = <<>> /\ images = [c \in Cameras |-> <<>>]
  BY DEF Init
<1>2. ~LonePacket
  BY <1>1 DEF LonePacket
<1>3. Work = {} /\ Calls = {}
  BY <1>1 DEF Work, Calls, Range
<1>4. Copies = {}
  BY <1>1, <1>3 DEF Copies, CarryingTasks, CarryingCalls
<1>5. AddressInv
  <2>1. \A ip \in Ips : Rows(deviceRows, ip) = {}
    BY <1>1 DEF Rows
  <2> QED
    BY <1>4, <2>1 DEF AddressInv
<1>6. FreshInv
  BY <1>1, <1>3 DEF FreshInv
<1>7. ClearedInv
  BY <1>1 DEF ClearedInv
<1> QED
  BY <1>2, <1>5, <1>6, <1>7 DEF LoneInv, LoneWork, LoneElse, LoneServer, LoneAlarm, LoneUsers, LoneSensors, LoneCount,
     LoneList, LoneRows, LoneReadings, LoneImage

\* Every step keeps all of it.
LEMMA LoneStep == DataTypes /\ LoneInv /\ [Next]_vars => LoneInv'
<1> SUFFICES ASSUME DataTypes, LoneInv, [Next]_vars PROVE LoneInv'
  OBVIOUS
<1>1. /\ LoneWork /\ ClearedInv /\ AddressInv /\ FreshInv
      /\ LoneElse /\ LoneServer /\ LoneAlarm /\ LoneUsers /\ LoneSensors /\ LoneCount
      /\ LoneList /\ LoneRows /\ LoneReadings /\ LoneImage
  BY DEF LoneInv
<1>2. LoneWork' /\ ClearedInv' /\ AddressInv' /\ FreshInv'
  BY <1>1, LoneWorkStep, ClearedStep, AddressStep, FreshStep
<1>3. LoneElse' /\ LoneServer' /\ LoneAlarm' /\ LoneUsers' /\ LoneSensors' /\ LoneCount'
  BY <1>1, LoneElseStep, LoneServerStep, LoneAlarmStep, LoneUsersStep, LoneSensorsStep, LoneCountStep
<1>4. LoneList' /\ LoneRows' /\ LoneReadings' /\ LoneImage'
  BY <1>1, LoneListStep, LoneRowsStep, LoneReadingsStep, LoneImageStep
<1> QED
  BY <1>2, <1>3, <1>4 DEF LoneInv

\* A packet that finds nothing under way is shown in full once its work is done: every
\* camera, device, sensor value, count, alarm and image of it, through the two tasks of
\* its signal that run side by side, whatever was in the stores and the models before;
\* and nothing else is shown with the first packet after a logout that found no work.
THEOREM LonePacketsAreShown == Spec => []LonePacketIsShown
<1>1. DataTypes /\ LoneInv => LonePacketIsShown
  <2> SUFFICES ASSUME DataTypes, LoneInv, process = "up", Idle, lone # <<>>, lone[2].form = "ok"
               PROVE  Shown(lone[1], lone[2]) /\ (lone[3] => NothingElse(lone[2]))
    BY DEF LonePacketIsShown
  <2>1. LonePacket
    BY DEF LonePacket
  <2>2. Shown(lone[1], lone[2])
    BY <2>1, LoneShown
  <2>3. lone[3] => NothingElse(lone[2])
    BY <2>1 DEF LoneInv, LoneElse
  <2> QED
    BY <2>2, <2>3
<1> QED
  BY <1>1, LoneInit, LoneStep, TypesInvariant, PTL DEF Spec

===============================================================================
