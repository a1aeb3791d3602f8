-------------------------- MODULE VideoManagerProofs --------------------------
(***************************************************************************)
(* Proofs about live video, for any finite set of cameras, any number of   *)
(* slots and any number of frames.                                         *)
(***************************************************************************)
EXTENDS VideoManager, SequenceFacts, FiniteSetTheorems, TLAPS

-------------------------------------------------------------------------------
(* The inductive invariant *)

\* What a handler may have left to do.
Steps ==
  [op : {"restart"}, slot : Slots, cam : Cameras] \union [op : {"offline"}, slot : Slots]
    \union [op : {"insert"}, fresh : Snapshots] \union [op : {"delete"}, cam : Cameras]
    \union {Cleared, Fetch}

\* The steps of onStoreUpdated are about rows that are there, the last one about
\* cameras that have none and for which there are slots.
UpdateStep(t) ==
  \/ t.op = "restart" /\ t.slot \in DOMAIN rows /\ t.cam = rows[t.slot].cam
  \/ t.op = "offline" /\ t.slot \in DOMAIN rows
  \/ /\ t.op = "insert" /\ t.fresh \in Snapshots
     /\ nextSlot + Cardinality(DOMAIN t.fresh) <= MaxSlots

\* The steps of a logout.
ClearStep(t) == (t.op = "delete" /\ t.cam \in Cameras) \/ t.op = "cleared"

Clearing == \E n \in DOMAIN todo : ClearStep(todo[n])

\* What is left of a handler.
TodoOK ==
  /\ todo \in Seq(Steps)
  /\ \/ \A n \in DOMAIN todo : UpdateStep(todo[n])
     \/ /\ \A n \in DOMAIN todo : ClearStep(todo[n])
        /\ todo # <<>> /\ todo[Len(todo)].op = "cleared"
     \/ todo = <<Fetch>>
  /\ \A n \in DOMAIN todo : todo[n].op \in {"insert", "cleared"} => n = Len(todo)

\* Slot ids are given out in order; except in a logout, VideoManager knows every row,
\* and every camera of a row has a worker.
GridOK ==
  /\ \A s \in DOMAIN rows : s < nextSlot
  /\ ~Clearing => CamerasOf(rows) \subseteq workers /\ slotToCameraId_ = SlotMap(rows)

\* A frame is counted after it was stored, and before the next one is.
Counted(v) == v.latest = v.frameSeq + (IF v.decoder = "stored" THEN 1 ELSE 0)

FramesOK == \A c \in Cameras : Counted(video[c])

\* An item that shows a row is bound to it, except in a logout; one whose row is
\* gone will not find another in its slot.
Bound(i, rs) ==
  i.active /\ i.slot \in DOMAIN rs =>
    /\ rs[i.slot].online
    /\ i.camera = rs[i.slot].cam /\ i.worker = rs[i.slot].cam

ItemOK ==
  item.kind # None =>
    /\ item.slot < nextSlot
    /\ item.worker \in workers \union {None}
    /\ ~Clearing => Bound(item, rows)

\* What the item has seen was counted, and is on the screen unless timerEvent is
\* about to put it there.
SeenOK ==
  /\ Shows(item) /\ item.worker # None =>
       /\ item.lastSeq <= video[item.worker].frameSeq
       /\ item.lastSeq > 0 /\ todo # <<Fetch>> =>
            item.shown[1] = item.worker /\ item.shown[2] >= item.lastSeq
  /\ todo = <<Fetch>> => Shows(item) /\ item.worker # None /\ item.lastSeq > 0

VideoInv ==
  /\ TypeOK /\ TodoOK /\ GridOK /\ FramesOK /\ ItemOK /\ SeenOK /\ DecoderHasWorker

-------------------------------------------------------------------------------
(* The parts of TypeOK *)

Videos == [decoder: Decoders, stopThread: BOOLEAN,
           frameSeq: 0..MaxFrames, latest: 0..MaxFrames]

Items == [kind: Kinds, slot: Slots, camera: Cameras \cup {None},
          source: Row \cup {NoRow}, active: BOOLEAN,
          worker: Cameras \cup {None}, lastSeq: 0..MaxFrames,
          shown: (Cameras \cup {None}) \X (0..MaxFrames), listening: BOOLEAN]

RowsOK(rs) == DOMAIN rs \subseteq Slots /\ \A s \in DOMAIN rs : rs[s] \in Row

MapOK(map) == DOMAIN map \subseteq Slots /\ \A s \in DOMAIN map : map[s] \in Cameras

GridTypes ==
  /\ RowsOK(rows) /\ nextSlot \in 0..MaxSlots
  /\ workers \subseteq Cameras /\ MapOK(slotToCameraId_)

VideoTypes == video \in [Cameras -> Videos]

ItemTypes == item = NoItem \/ item \in Items

\* They are TypeOK, before and after a step.
LEMMA TypeParts ==
  /\ TypeOK <=> GridTypes /\ VideoTypes /\ ItemTypes
  /\ TypeOK' <=> GridTypes' /\ VideoTypes' /\ ItemTypes'
BY Zenon DEF TypeOK, GridTypes, VideoTypes, ItemTypes, RowsOK, MapOK, Videos, Items

-------------------------------------------------------------------------------
(* What is left of a handler *)

\* A handler that goes on is one of three, and is told apart by its next step.
LEMMA NextOfHandler ==
  ASSUME TodoOK, todo # <<>>
  PROVE  /\ Head(todo) \in Steps
         /\ Head(todo).op \in {"restart", "offline", "insert"} =>
              /\ ~Clearing /\ todo # <<Fetch>> /\ UpdateStep(Head(todo))
              /\ \A n \in DOMAIN todo : UpdateStep(todo[n])
         /\ Head(todo).op \in {"delete", "cleared"} =>
              /\ Clearing /\ todo # <<Fetch>> /\ ClearStep(Head(todo))
              /\ \A n \in DOMAIN todo : ClearStep(todo[n])
         /\ Head(todo).op = "delete" =>
              Tail(todo) # <<>> /\ Tail(todo)[Len(Tail(todo))].op = "cleared"
         /\ Head(todo).op = "fetch" => todo = <<Fetch>> /\ ~Clearing
         /\ Head(todo).op \in {"insert", "cleared", "fetch"} => Tail(todo) = <<>>
         /\ Tail(todo) \in Seq(Steps)
         /\ \A n \in DOMAIN Tail(todo) :
              /\ n + 1 \in DOMAIN todo /\ Tail(todo)[n] = todo[n + 1]
              /\ n + 1 = Len(todo) => n = Len(Tail(todo))
<1>1. /\ todo \in Seq(Steps) /\ Head(todo) = todo[1] /\ Len(todo) \in Nat /\ Len(todo) > 0
      /\ DOMAIN todo = 1..Len(todo) /\ 1 \in DOMAIN todo
  BY QueueFacts DEF TodoOK
<1>2. /\ Tail(todo) \in Seq(Steps) /\ DOMAIN Tail(todo) = 1..(Len(todo) - 1)
      /\ Len(Tail(todo)) = Len(todo) - 1
      /\ \A n \in DOMAIN Tail(todo) : Tail(todo)[n] = todo[n + 1]
  BY <1>1
<1>3. Head(todo) \in Steps
  BY <1>1
<1>4. \A n \in DOMAIN Tail(todo) : /\ n + 1 \in DOMAIN todo
                                   /\ n + 1 = Len(todo) => n = Len(Tail(todo))
  BY <1>1, <1>2
<1>5. \A t : ~(UpdateStep(t) /\ ClearStep(t))
  BY DEF UpdateStep, ClearStep
<1>6. \A t : /\ UpdateStep(t) => t.op \in {"restart", "offline", "insert"}
             /\ ClearStep(t) => t.op \in {"delete", "cleared"}
  BY DEF UpdateStep, ClearStep
<1>7. todo = <<Fetch>> => Head(todo).op = "fetch" /\ \A n \in DOMAIN todo : todo[n] = Fetch
  BY DEF Fetch
<1>8. CASE \A n \in DOMAIN todo : UpdateStep(todo[n])
  <2>1. UpdateStep(Head(todo)) /\ ~Clearing
    BY <1>1, <1>5, <1>8 DEF Clearing
  <2>2. todo # <<Fetch>> /\ Head(todo).op \in {"restart", "offline", "insert"}
    BY <1>6, <1>7, <2>1
  <2>3. Head(todo).op = "insert" => Tail(todo) = <<>>
    <3>1. Head(todo).op = "insert" => Len(todo) = 1
      BY <1>1 DEF TodoOK
    <3> QED
      BY <3>1, <1>2
  <2> QED
    BY <1>2, <1>3, <1>4, <1>8, <2>1, <2>2, <2>3
<1>9. CASE /\ \A n \in DOMAIN todo : ClearStep(todo[n])
           /\ todo # <<>> /\ todo[Len(todo)].op = "cleared"
  <2>1. ClearStep(Head(todo)) /\ Clearing
    BY <1>1, <1>9 DEF Clearing
  <2>2. todo # <<Fetch>> /\ Head(todo).op \in {"delete", "cleared"}
    BY <1>6, <1>7, <2>1
  <2>3. Head(todo).op = "cleared" => Tail(todo) = <<>>
    <3>1. Head(todo).op = "cleared" => Len(todo) = 1
      BY <1>1 DEF TodoOK
    <3> QED
      BY <3>1, <1>2
  <2>4. Head(todo).op = "delete" =>
          Tail(todo) # <<>> /\ Tail(todo)[Len(Tail(todo))].op = "cleared"
    <3>1. Head(todo).op = "delete" => Len(todo) # 1
      BY <1>1, <1>9
    <3>2. Len(todo) > 1 => /\ Tail(todo) # <<>>
                           /\ Tail(todo)[Len(Tail(todo))] = todo[Len(todo)]
      BY <1>1, <1>2
    <3> QED
      BY <1>1, <1>9, <3>1, <3>2
  <2> QED
    BY <1>2, <1>3, <1>4, <1>9, <2>1, <2>2, <2>3, <2>4
<1>10. CASE todo = <<Fetch>>
  <2>1. Head(todo).op = "fetch" /\ ~ClearStep(Fetch)
    BY <1>6, <1>7, <1>10 DEF Fetch
  <2>2. ~Clearing
    BY <1>7, <1>10, <2>1 DEF Clearing
  <2>3. Tail(todo) = <<>>
    BY <1>10
  <2> QED
    BY <1>2, <1>3, <1>4, <1>10, <2>1, <2>2, <2>3
<1> QED
  BY <1>8, <1>9, <1>10 DEF TodoOK

\* Between two handlers.
LEMMA NothingToDo ==
  ASSUME todo = <<>>
  PROVE  ~Clearing /\ todo # <<Fetch>> /\ TodoOK
BY DEF Clearing, TodoOK

\* A handler that has begun keeps its plan while the slots stay as they are.
LEMMA PlanKept ==
  ASSUME TodoOK, todo # <<>>, todo' = Tail(todo),
         Head(todo).op \in {"restart", "offline", "insert"} /\
           Tail(todo) # <<>> =>
             /\ DOMAIN rows' = DOMAIN rows /\ nextSlot' = nextSlot
             /\ \A s \in DOMAIN rows : rows'[s].cam = rows[s].cam
  PROVE  /\ TodoOK'
         /\ Head(todo).op \in {"restart", "offline", "insert", "fetch"} => ~Clearing'
         /\ todo' # <<Fetch>>
<1>0. /\ Tail(todo) \in Seq(Steps)
      /\ \A n \in DOMAIN Tail(todo) :
           /\ n + 1 \in DOMAIN todo /\ Tail(todo)[n] = todo[n + 1]
           /\ n + 1 = Len(todo) => n = Len(Tail(todo))
  BY NextOfHandler
<1>1. \A n \in DOMAIN todo' : todo'[n].op \in {"insert", "cleared"} => n = Len(todo')
  BY <1>0 DEF TodoOK
<1>2. CASE todo' = <<>>
  BY <1>2 DEF TodoOK, Clearing
<1>3. CASE todo' # <<>> /\ Head(todo).op \in {"restart", "offline", "insert"}
  <2>1. \A n \in DOMAIN todo : UpdateStep(todo[n])
    BY <1>3, NextOfHandler
  <2>2. /\ DOMAIN rows' = DOMAIN rows /\ nextSlot' = nextSlot
        /\ \A s \in DOMAIN rows : rows'[s].cam = rows[s].cam
    BY <1>3
  <2>4. \A n \in DOMAIN todo' : UpdateStep(todo[n + 1])
    BY <1>0, <2>1
  <2>5. \A n \in DOMAIN todo' : UpdateStep(todo[n])'
    <3> SUFFICES ASSUME NEW n \in DOMAIN todo' PROVE UpdateStep(todo[n])'
      OBVIOUS
    <3>1. UpdateStep(todo[n + 1]) /\ todo'[n] = todo[n + 1]
      BY <1>0, <2>4
    <3> QED
      BY <2>2, <3>1 DEF UpdateStep
  <2>6. ~Clearing'
    BY <2>5 DEF Clearing, UpdateStep, ClearStep
  <2>7. todo' # <<Fetch>>
    <3>1. todo' = <<Fetch>> => 1 \in DOMAIN todo' /\ todo'[1].op = "fetch"
      BY DEF Fetch
    <3> QED
      BY <2>5, <3>1 DEF UpdateStep
  <2> QED
    BY <1>0, <1>1, <2>5, <2>6, <2>7 DEF TodoOK
<1>4. CASE todo' # <<>> /\ Head(todo).op \in {"delete", "cleared", "fetch"}
  <2>1. \A n \in DOMAIN todo : ClearStep(todo[n])
    BY <1>4, NextOfHandler
  <2>2. \A n \in DOMAIN todo' : ClearStep(todo'[n])
    BY <1>0, <2>1
  <2>3. todo' # <<Fetch>>
    <3>1. todo' = <<Fetch>> => 1 \in DOMAIN todo' /\ todo'[1].op = "fetch"
      BY DEF Fetch
    <3> QED
      BY <2>2, <3>1 DEF ClearStep
  <2>4. Head(todo).op = "delete"
    BY <1>4, NextOfHandler
  <2>5. todo'[Len(todo')].op = "cleared"
    BY <2>4, NextOfHandler
  <2> QED
    BY <1>0, <1>1, <1>4, <2>2, <2>3, <2>4, <2>5 DEF TodoOK, ClearStep
<1>5. Head(todo).op \in {"restart", "offline", "insert", "delete", "cleared", "fetch"}
  BY NextOfHandler DEF Steps, Cleared, Fetch
<1> QED
  BY <1>2, <1>3, <1>4, <1>5

\* A handler begins with a list of steps and one that ends it.
LEMMA PlanMade ==
  ASSUME NEW p \in Seq(Steps), NEW t \in Steps, todo' = p \o <<t>>,
         \A n \in DOMAIN p : p[n].op \notin {"insert", "cleared"}
  PROVE  /\ todo' \in Seq(Steps) /\ todo' # <<>>
         /\ \A n \in DOMAIN todo' : todo'[n].op \in {"insert", "cleared"} => n = Len(todo')
         /\ \A n \in DOMAIN todo' : todo'[n] = t \/ \E k \in DOMAIN p : todo'[n] = p[k]
         /\ todo'[Len(todo')] = t
<1>1. /\ <<t>> \in Seq(Steps) /\ Len(p) \in Nat /\ Len(todo') = Len(p) + 1
      /\ todo' \in Seq(Steps) /\ todo'[Len(p) + 1] = t
      /\ \A k \in DOMAIN <<t>> : k = 1 /\ <<t>>[k] = t
  OBVIOUS
<1>2. \A n \in DOMAIN todo' : \/ n \in DOMAIN p /\ todo'[n] = p[n]
                              \/ n = Len(p) + 1 /\ todo'[n] = t
  BY <1>1, ConcatFacts
<1>3. todo' # <<>>
  BY <1>1
<1> QED
  BY <1>1, <1>2, <1>3

\* onStoreUpdated plans steps for rows that are there.
LEMMA UpdatePlanned ==
  ASSUME GridTypes, NEW snapshot \in Snapshots, onStoreUpdated(snapshot),
         nextSlot + Cardinality(DOMAIN snapshot \ CamerasOf(rows)) <= MaxSlots
  PROVE  TodoOK' /\ ~Clearing' /\ todo' # <<Fetch>>
<1> DEFINE S == {s \in DOMAIN rows : rows[s].online # Online(snapshot, rows[s].cam)}
           order == SetToSeq(S)
           D == DOMAIN snapshot \ CamerasOf(rows)
           fresh == [c \in D |-> snapshot[c]]
           t == Insert(fresh)
           p == [n \in DOMAIN order |->
                   IF rows[order[n]].online THEN Offline(order[n]) ELSE Restart(order[n])]
<1>1. todo' = p \o <<t>> /\ UNCHANGED grid
  BY DEF onStoreUpdated
<1>2. IsFiniteSet(S) /\ \A s \in S : s \in DOMAIN rows
  <2>1. IsFiniteSet(Slots)
    <3>1. 0 \in Int /\ MaxSlots - 1 \in Int
      BY VideoAssumption
    <3> QED
      BY <3>1, FS_Interval DEF Slots
  <2>2. S \subseteq Slots
    BY DEF GridTypes, RowsOK
  <2> QED
    BY <2>1, <2>2, FS_Subset
<1>3. /\ Cardinality(S) \in Nat /\ DOMAIN order = 1..Cardinality(S)
      /\ \A n \in DOMAIN order : order[n] \in S
  BY <1>2, Listing
<1>4. \A s \in DOMAIN rows : s \in Slots /\ rows[s].cam \in Cameras
  BY DEF GridTypes, RowsOK, Row
<1>5. fresh \in Snapshots /\ DOMAIN fresh = D
  <2>1. PICK T \in SUBSET Cameras : snapshot \in [T -> BOOLEAN]
    BY DEF Snapshots
  <2>2. D \in SUBSET Cameras /\ fresh \in [D -> BOOLEAN]
    BY <2>1
  <2> QED
    BY <2>2, Zenon DEF Snapshots
<1>6. t.op = "insert" /\ t.fresh = fresh
  BY DEF Insert
<1>7. t \in Steps
  <2>1. t \in [op : {"insert"}, fresh : Snapshots]
    BY <1>5 DEF Insert
  <2> HIDE DEF t
  <2> QED
    BY <2>1 DEF Steps
<1> HIDE DEF S, order, fresh
<1>8. ASSUME NEW n \in DOMAIN p
      PROVE  p[n] \in Steps /\ p[n].op \in {"restart", "offline"} /\ UpdateStep(p[n])
  <2> DEFINE s == order[n]
  <2>1. s \in DOMAIN rows /\ s \in Slots /\ rows[s].cam \in Cameras
    BY <1>2, <1>3, <1>4
  <2>2. p[n] = Offline(s) \/ p[n] = Restart(s)
    OBVIOUS
  <2> HIDE DEF s, p
  <2>3. Offline(s) \in Steps /\ Offline(s).op = "offline" /\ UpdateStep(Offline(s))
    BY <2>1 DEF Offline, Steps, UpdateStep
  <2>4. Restart(s) \in Steps /\ Restart(s).op = "restart" /\ UpdateStep(Restart(s))
    BY <2>1 DEF Restart, Steps, UpdateStep
  <2> QED
    BY <2>2, <2>3, <2>4
<1>9. p \in Seq(Steps)
  <2>1. p \in [1..Cardinality(S) -> Steps]
    BY <1>3, <1>8
  <2> HIDE DEF p
  <2> QED
    BY <1>3, <2>1
<1> HIDE DEF p, t
<1>10. /\ todo' \in Seq(Steps)
       /\ \A n \in DOMAIN todo' : todo'[n].op \in {"insert", "cleared"} => n = Len(todo')
       /\ \A n \in DOMAIN todo' : todo'[n] = t \/ \E k \in DOMAIN p : todo'[n] = p[k]
  BY <1>1, <1>7, <1>8, <1>9, PlanMade
<1>11. UpdateStep(t)
  BY <1>5, <1>6 DEF UpdateStep
<1>12. \A n \in DOMAIN todo' : UpdateStep(todo[n])'
  <2> SUFFICES ASSUME NEW n \in DOMAIN todo' PROVE UpdateStep(todo[n])'
    OBVIOUS
  <2>1. UpdateStep(todo'[n])
    BY <1>8, <1>10, <1>11
  <2>2. rows' = rows /\ nextSlot' = nextSlot
    BY <1>1 DEF grid
  <2> QED
    BY <2>1, <2>2 DEF UpdateStep
<1>13. ~Clearing'
  BY <1>12 DEF Clearing, UpdateStep, ClearStep
<1>14. todo' # <<Fetch>>
  <2>1. todo' = <<Fetch>> => 1 \in DOMAIN todo' /\ todo'[1].op = "fetch"
    BY DEF Fetch
  <2> QED
    BY <1>12, <2>1 DEF UpdateStep
<1> QED
  BY <1>10, <1>12, <1>13, <1>14 DEF TodoOK

\* A logout plans to delete every worker and then to clear the rest.
LEMMA LogoutPlanned ==
  ASSUME GridTypes, logoutRequested
  PROVE  TodoOK' /\ Clearing' /\ todo' # <<Fetch>>
<1> DEFINE order == SetToSeq(workers)
           p == [n \in DOMAIN order |-> Delete(order[n])]
           t == Cleared
<1>1. todo' = p \o <<t>>
  BY DEF logoutRequested
<1>2. IsFiniteSet(workers) /\ workers \subseteq Cameras
  BY VideoAssumption, FS_Subset DEF GridTypes
<1>3. /\ Cardinality(workers) \in Nat /\ DOMAIN order = 1..Cardinality(workers)
      /\ \A n \in DOMAIN order : order[n] \in Cameras
  BY <1>2, Listing
<1>4. t \in Steps /\ ClearStep(t) /\ t.op = "cleared"
  BY DEF Steps, Cleared, ClearStep
<1> HIDE DEF order
<1>5. ASSUME NEW n \in DOMAIN p
      PROVE  p[n] \in Steps /\ p[n].op = "delete" /\ ClearStep(p[n])
  <2>1. p[n] = Delete(order[n]) /\ order[n] \in Cameras
    BY <1>3
  <2> HIDE DEF p
  <2> QED
    BY <2>1 DEF Delete, Steps, ClearStep
<1>6. p \in Seq(Steps)
  <2>1. p \in [1..Cardinality(workers) -> Steps]
    BY <1>3, <1>5
  <2> HIDE DEF p
  <2> QED
    BY <1>3, <2>1
<1> HIDE DEF p, t
<1>7. /\ todo' \in Seq(Steps) /\ todo' # <<>>
      /\ \A n \in DOMAIN todo' : todo'[n].op \in {"insert", "cleared"} => n = Len(todo')
      /\ \A n \in DOMAIN todo' : todo'[n] = t \/ \E k \in DOMAIN p : todo'[n] = p[k]
      /\ todo'[Len(todo')] = t
  BY <1>1, <1>4, <1>5, <1>6, PlanMade
<1>8. \A n \in DOMAIN todo' : ClearStep(todo'[n])
  BY <1>4, <1>5, <1>7
<1>9. 1 \in DOMAIN todo'
  BY <1>7
<1>10. todo' # <<Fetch>>
  <2>1. todo' = <<Fetch>> => todo'[1].op = "fetch"
    BY DEF Fetch
  <2> QED
    BY <1>8, <1>9, <2>1 DEF ClearStep
<1> QED
  BY <1>4, <1>7, <1>8, <1>9, <1>10 DEF TodoOK, Clearing, ClearStep

-------------------------------------------------------------------------------
(* The rows and the workers *)

\* registerSlots: VideoManager knows the rows it is given, and has a worker for each.
LEMMA RegisterFacts ==
  ASSUME GridTypes, NEW rs, RowsOK(rs), NEW i, registerSlots(rs, i)
  PROVE  /\ workers \subseteq workers' /\ workers' \subseteq Cameras
         /\ CamerasOf(rs) \subseteq workers'
         /\ slotToCameraId_' = SlotMap(rs) /\ MapOK(slotToCameraId_')
<1>1. CamerasOf(rs) \subseteq Cameras
  BY DEF RowsOK, Row, CamerasOf
<1>2. MapOK(SlotMap(rs))
  BY DEF RowsOK, Row, MapOK, SlotMap
<1>3. slotToCameraId_' = SlotMap(rs) /\ workers' = workers \cup (CamerasOf(rs) \ workers)
  BY DEF registerSlots
<1> QED
  BY <1>1, <1>2, <1>3 DEF GridTypes

\* A row that goes online or offline keeps its slot and its camera.
LEMMA OnlineFacts ==
  ASSUME NEW rs, RowsOK(rs), NEW s \in DOMAIN rs, NEW b \in BOOLEAN,
         NEW new, DOMAIN new = DOMAIN rs, new[s] = [rs[s] EXCEPT !.online = b],
         \A q \in DOMAIN rs \ {s} : new[q] = rs[q]
  PROVE  /\ RowsOK(new) /\ new[s].online = b
         /\ \A q \in DOMAIN rs : new[q].cam = rs[q].cam
         /\ SlotMap(new) = SlotMap(rs) /\ CamerasOf(new) = CamerasOf(rs)
<1>1. rs[s] \in Row
  BY DEF RowsOK
<1>2. new[s] \in Row /\ new[s].cam = rs[s].cam /\ new[s].online = b
  BY <1>1 DEF Row
<1>3. \A q \in DOMAIN rs : new[q].cam = rs[q].cam
  BY <1>2
<1>4. RowsOK(new)
  BY <1>2 DEF RowsOK
<1>5. SlotMap(new) = SlotMap(rs) /\ CamerasOf(new) = CamerasOf(rs)
  BY <1>3 DEF SlotMap, CamerasOf
<1> QED
  BY <1>2, <1>3, <1>4, <1>5

\* The rows after the actions that change more than one.
Swapped(a, b) == [rows EXCEPT ![a] = rows[b], ![b] = rows[a]]

Split(s) ==
  [q \in (DOMAIN rows \ {s}) \cup {nextSlot, nextSlot + 1} |->
     IF q \in DOMAIN rows \ {s} THEN rows[q] ELSE rows[s]]

Merged(s) ==
  LET gone == {q \in DOMAIN rows \ {s} : rows[q].cam = rows[s].cam}
  IN  [q \in DOMAIN rows \ gone |-> rows[q]]

Inserted(order, fresh) ==
  [s \in DOMAIN rows \cup {nextSlot + n - 1 : n \in DOMAIN order} |->
     IF s \in DOMAIN rows THEN rows[s]
     ELSE LET c == order[s - nextSlot + 1] IN [cam |-> c, online |-> fresh[c]]]

\* Swapping two rows changes no set of slots and no set of cameras.
LEMMA SwapFacts ==
  ASSUME GridTypes, NEW a \in DOMAIN rows, NEW b \in DOMAIN rows
  PROVE  /\ RowsOK(Swapped(a, b)) /\ DOMAIN Swapped(a, b) = DOMAIN rows
         /\ CamerasOf(Swapped(a, b)) \subseteq CamerasOf(rows)
         /\ MapOK(SlotMap(Swapped(a, b)))
         /\ \A q \in DOMAIN rows \ {a, b} : Swapped(a, b)[q] = rows[q]
<1> DEFINE new == Swapped(a, b)
<1>1. DOMAIN new = DOMAIN rows /\ \A q \in DOMAIN rows \ {a, b} : new[q] = rows[q]
  BY DEF Swapped
<1>2. \A q \in DOMAIN rows : \E r \in DOMAIN rows : new[q] = rows[r]
  BY DEF Swapped
<1> HIDE DEF new
<1>3. RowsOK(new)
  BY <1>1, <1>2 DEF GridTypes, RowsOK
<1>4. CamerasOf(new) \subseteq CamerasOf(rows)
  BY <1>1, <1>2 DEF CamerasOf
<1>5. MapOK(SlotMap(new))
  BY <1>3 DEF RowsOK, Row, MapOK, SlotMap
<1> QED
  BY <1>1, <1>3, <1>4, <1>5 DEF new

\* A split takes two fresh slots; what is left of the rows is as it was.
LEMMA SplitFacts ==
  ASSUME GridTypes, \A q \in DOMAIN rows : q < nextSlot,
         NEW s \in DOMAIN rows, nextSlot + 2 <= MaxSlots
  PROVE  /\ RowsOK(Split(s)) /\ CamerasOf(Split(s)) \subseteq CamerasOf(rows)
         /\ \A q \in DOMAIN Split(s) : q < nextSlot + 2
         /\ \A q \in DOMAIN Split(s) : q < nextSlot =>
              q \in DOMAIN rows /\ Split(s)[q] = rows[q]
<1> DEFINE new == Split(s)
<1>1. DOMAIN new = (DOMAIN rows \ {s}) \cup {nextSlot, nextSlot + 1}
  BY DEF Split
<1>2. \A q \in DOMAIN new : \/ q \in DOMAIN rows /\ new[q] = rows[q]
                            \/ q \in {nextSlot, nextSlot + 1} /\ new[q] = rows[s]
  BY DEF Split
<1> HIDE DEF new
<1>3. nextSlot \in Slots /\ nextSlot + 1 \in Slots
  BY VideoAssumption DEF GridTypes, Slots
<1>4. RowsOK(new)
  BY <1>1, <1>2, <1>3 DEF GridTypes, RowsOK
<1>5. CamerasOf(new) \subseteq CamerasOf(rows)
  BY <1>2 DEF CamerasOf
<1>6. \A q \in DOMAIN rows : q \in Int
  BY DEF GridTypes, RowsOK, Slots
<1>7. nextSlot \in Int
  BY DEF GridTypes
<1>8. \A q \in DOMAIN new : /\ q < nextSlot + 2
                            /\ q < nextSlot => q \in DOMAIN rows /\ new[q] = rows[q]
  BY <1>2, <1>6, <1>7
<1> QED
  BY <1>4, <1>5, <1>8 DEF new

\* A merge only removes rows.
LEMMA MergeFacts ==
  ASSUME GridTypes, NEW s \in DOMAIN rows
  PROVE  /\ RowsOK(Merged(s)) /\ CamerasOf(Merged(s)) \subseteq CamerasOf(rows)
         /\ s \in DOMAIN Merged(s)
         /\ \A q \in DOMAIN Merged(s) : q \in DOMAIN rows /\ Merged(s)[q] = rows[q]
<1> DEFINE new == Merged(s)
<1>1. /\ \A q \in DOMAIN new : q \in DOMAIN rows /\ new[q] = rows[q]
      /\ s \in DOMAIN new
  BY DEF Merged
<1> HIDE DEF new
<1>2. RowsOK(new)
  BY <1>1 DEF GridTypes, RowsOK
<1>3. CamerasOf(new) \subseteq CamerasOf(rows)
  BY <1>1 DEF CamerasOf
<1> QED
  BY <1>1, <1>2, <1>3 DEF new

\* New cameras take the next slots.
LEMMA InsertFacts ==
  ASSUME GridTypes, \A q \in DOMAIN rows : q < nextSlot,
         NEW fresh \in Snapshots, NEW order \in SetToSeqs(DOMAIN fresh),
         nextSlot + Cardinality(DOMAIN fresh) <= MaxSlots
  PROVE  /\ Len(order) \in Nat /\ nextSlot + Len(order) <= MaxSlots
         /\ RowsOK(Inserted(order, fresh))
         /\ \A q \in DOMAIN Inserted(order, fresh) : q < nextSlot + Len(order)
         /\ \A q \in DOMAIN Inserted(order, fresh) : q < nextSlot =>
              q \in DOMAIN rows /\ Inserted(order, fresh)[q] = rows[q]
         /\ \A q \in DOMAIN rows : q \in DOMAIN Inserted(order, fresh)
<1> DEFINE new == Inserted(order, fresh)
           N == Cardinality(DOMAIN fresh)
<1>1. PICK T \in SUBSET Cameras : fresh \in [T -> BOOLEAN]
  BY DEF Snapshots
<1>2. N \in Nat
  BY <1>1, VideoAssumption, FS_Subset, FS_CardinalityType
<1>3. order \in [1..N -> DOMAIN fresh]
  BY Zenon DEF SetToSeqs
<1> HIDE DEF N
<1>4. Len(order) = N /\ DOMAIN order = 1..N
  BY <1>2, <1>3
<1>5. DOMAIN new = DOMAIN rows \cup {nextSlot + n - 1 : n \in DOMAIN order}
  BY DEF Inserted
<1>6. \A q \in DOMAIN rows : new[q] = rows[q]
  BY DEF Inserted
<1>7. nextSlot \in Nat /\ \A q \in DOMAIN rows : q \in Nat /\ q \in Slots
  BY DEF GridTypes, RowsOK, Slots
<1>8. ASSUME NEW n \in 1..N
      PROVE  /\ nextSlot + n - 1 \in Slots /\ nextSlot + n - 1 \notin DOMAIN rows
             /\ new[nextSlot + n - 1] \in Row
  <2> DEFINE q == nextSlot + n - 1
  <2>1. q \in Slots /\ q \notin DOMAIN rows /\ q - nextSlot + 1 = n
    BY <1>2, <1>7, VideoAssumption DEF Slots, N
  <2>2. q \in DOMAIN new
    BY <1>4, <1>5
  <2>3. new[q] = [cam |-> order[q - nextSlot + 1],
                  online |-> fresh[order[q - nextSlot + 1]]]
    BY <2>1, <2>2 DEF Inserted
  <2>4. order[n] \in Cameras /\ fresh[order[n]] \in BOOLEAN
    BY <1>1, <1>3
  <2> HIDE DEF q, new
  <2> QED
    BY <2>1, <2>3, <2>4 DEF Row, q
<1> HIDE DEF new
<1>9. RowsOK(new)
  BY <1>4, <1>5, <1>6, <1>7, <1>8 DEF GridTypes, RowsOK
<1>10. \A q \in DOMAIN new : /\ q < nextSlot + Len(order)
                             /\ q < nextSlot => q \in DOMAIN rows
  BY <1>2, <1>4, <1>5, <1>7
<1>11. nextSlot + Len(order) <= MaxSlots
  BY <1>4 DEF N
<1> QED
  BY <1>2, <1>4, <1>5, <1>6, <1>9, <1>10, <1>11 DEF new

\* With the rows, the workers and the rest of the handler as they were.
LEMMA GridSame ==
  ASSUME GridTypes, GridOK, TodoOK, UNCHANGED <<grid, manager, todo>>
  PROVE  GridTypes' /\ GridOK' /\ TodoOK' /\ (Clearing' <=> Clearing)
<1>1. UNCHANGED <<rows, nextSlot, workers, slotToCameraId_, todo>>
  BY DEF grid, manager
<1>2. Clearing' <=> Clearing
  BY <1>1 DEF Clearing
<1>3. GridTypes'
  BY <1>1 DEF GridTypes
<1>4. GridOK'
  BY <1>1, <1>2 DEF GridOK
<1>5. TodoOK'
  BY <1>1 DEF TodoOK, UpdateStep
<1> QED
  BY <1>2, <1>3, <1>4, <1>5

\* Every step leaves VideoManager with a worker for each camera of a row, and the
\* handler that has begun with a plan it can follow.
LEMMA GridInvStep ==
  ASSUME TypeOK, GridOK, TodoOK, [Next]_vars
  PROVE  GridTypes' /\ GridOK' /\ TodoOK'
<1>0. GridTypes
  BY TypeParts
<1> USE <1>0
<1>1. ASSUME NEW a \in DOMAIN rows, NEW b \in DOMAIN rows, swapSlots(a, b)
      PROVE  GridTypes' /\ GridOK' /\ TodoOK'
  <2>1. /\ todo = <<>> /\ rows' = Swapped(a, b) /\ slotToCameraId_' = SlotMap(rows')
        /\ UNCHANGED <<nextSlot, workers, todo>>
    BY <1>1 DEF swapSlots, Swapped
  <2>2. ~Clearing /\ ~Clearing' /\ TodoOK'
    BY <2>1, NothingToDo DEF Clearing, TodoOK
  <2> QED
    BY <2>1, <2>2, SwapFacts DEF GridTypes, GridOK
<1>2. ASSUME NEW s \in DOMAIN rows, splitSlot(s) PROVE GridTypes' /\ GridOK' /\ TodoOK'
  <2>1. /\ todo = <<>> /\ rows' = Split(s) /\ nextSlot + 2 <= MaxSlots
        /\ nextSlot' = nextSlot + 2 /\ UNCHANGED todo
        /\ \E i : registerSlots(Split(s), i)
    BY <1>2 DEF splitSlot, Split
  <2>2. TodoOK'
    BY <2>1 DEF TodoOK
  <2>3. /\ RowsOK(Split(s)) /\ \A q \in DOMAIN Split(s) : q < nextSlot + 2
    BY <2>1, SplitFacts DEF GridOK
  <2>4. /\ workers' \subseteq Cameras /\ CamerasOf(Split(s)) \subseteq workers'
        /\ slotToCameraId_' = SlotMap(Split(s)) /\ MapOK(slotToCameraId_')
    BY <2>1, <2>3, RegisterFacts
  <2>5. nextSlot' \in 0..MaxSlots
    BY <2>1, VideoAssumption DEF GridTypes
  <2> QED
    BY <2>1, <2>2, <2>3, <2>4, <2>5 DEF GridTypes, GridOK
<1>3. ASSUME NEW s \in DOMAIN rows, mergeSlots(s) PROVE GridTypes' /\ GridOK' /\ TodoOK'
  <2>1. /\ todo = <<>> /\ rows' = Merged(s) /\ UNCHANGED <<nextSlot, todo>>
        /\ \E i : registerSlots(Merged(s), i)
    BY <1>3 DEF mergeSlots, Merged
  <2>2. TodoOK'
    BY <2>1 DEF TodoOK
  <2>3. /\ RowsOK(Merged(s)) /\ \A q \in DOMAIN Merged(s) : q < nextSlot
    BY <2>1, MergeFacts DEF GridOK
  <2>4. /\ workers' \subseteq Cameras /\ CamerasOf(Merged(s)) \subseteq workers'
        /\ slotToCameraId_' = SlotMap(Merged(s)) /\ MapOK(slotToCameraId_')
    BY <2>1, <2>3, RegisterFacts
  <2> QED
    BY <2>1, <2>2, <2>3, <2>4 DEF GridTypes, GridOK
<1>4. CASE CameraList
  <2>1. PICK snapshot \in Snapshots :
          /\ nextSlot + Cardinality(DOMAIN snapshot \ CamerasOf(rows)) <= MaxSlots
          /\ onStoreUpdated(snapshot)
    BY <1>4 DEF CameraList
  <2>2. TodoOK' /\ ~Clearing'
    BY <2>1, UpdatePlanned
  <2>3. todo = <<>> /\ UNCHANGED <<rows, nextSlot, workers, slotToCameraId_>>
    BY <2>1 DEF onStoreUpdated, grid, manager
  <2>4. ~Clearing
    BY <2>3, NothingToDo
  <2> QED
    BY <2>2, <2>3, <2>4 DEF GridTypes, GridOK
<1>5. CASE logoutRequested
  <2>1. TodoOK' /\ Clearing'
    BY <1>5, LogoutPlanned
  <2>2. UNCHANGED <<rows, nextSlot, workers, slotToCameraId_>>
    BY <1>5 DEF logoutRequested, grid, manager
  <2> QED
    BY <2>1, <2>2 DEF GridTypes, GridOK
<1>6. CASE UNCHANGED <<grid, manager, todo>>
  BY <1>6, GridSame
<1>7. CASE RestartWorker \/ GoOffline
  <2> DEFINE s == Head(todo).slot
  <2>1. /\ todo # <<>> /\ Head(todo).op \in {"restart", "offline"} /\ todo' = Tail(todo)
        /\ UNCHANGED <<nextSlot, workers, slotToCameraId_>>
    BY <1>7 DEF RestartWorker, GoOffline, Doing, manager
  <2>2. ~Clearing /\ s \in DOMAIN rows
    BY <2>1, NextOfHandler DEF UpdateStep
  <2>3. PICK b \in BOOLEAN : rows' = [rows EXCEPT ![s].online = b]
    BY <1>7, Zenon DEF RestartWorker, GoOffline
  <2>4. /\ RowsOK(rows') /\ DOMAIN rows' = DOMAIN rows
        /\ \A q \in DOMAIN rows : rows'[q].cam = rows[q].cam
        /\ SlotMap(rows') = SlotMap(rows) /\ CamerasOf(rows') = CamerasOf(rows)
    <3> HIDE DEF s
    <3>1. RowsOK(rows)
      BY DEF GridTypes
    <3>2. /\ DOMAIN rows' = DOMAIN rows /\ rows'[s] = [rows[s] EXCEPT !.online = b]
          /\ \A q \in DOMAIN rows \ {s} : rows'[q] = rows[q]
      BY <2>2, <2>3
    <3> QED
      BY <2>2, <3>1, <3>2, OnlineFacts
  <2>5. TodoOK'
    BY <2>1, <2>4, PlanKept
  <2> QED
    BY <2>1, <2>2, <2>4, <2>5 DEF GridTypes, GridOK
<1>8. CASE DeleteWorker
  <2>1. /\ todo # <<>> /\ Head(todo).op = "delete" /\ todo' = Tail(todo)
        /\ UNCHANGED <<rows, nextSlot, slotToCameraId_>> /\ workers' \subseteq workers
    BY <1>8 DEF DeleteWorker, Doing, grid
  <2>2. TodoOK'
    BY <2>1, PlanKept
  <2>3. Clearing'
    <3>1. todo' # <<>> /\ todo'[Len(todo')].op = "cleared" /\ todo' \in Seq(Steps)
      BY <2>1, NextOfHandler
    <3>2. Len(todo') \in DOMAIN todo'
      BY <3>1
    <3> QED
      BY <3>1, <3>2 DEF Clearing, ClearStep
  <2> QED
    BY <2>1, <2>2, <2>3 DEF GridTypes, GridOK
<1>9. CASE InsertRows
  <2> DEFINE fresh == Head(todo).fresh
  <2>1. /\ todo # <<>> /\ Head(todo).op = "insert" /\ todo' = Tail(todo)
    BY <1>9 DEF InsertRows, Doing
  <2>2. PICK order \in SetToSeqs(DOMAIN fresh) :
          /\ rows' = Inserted(order, fresh) /\ nextSlot' = nextSlot + Len(order)
          /\ \E i : registerSlots(Inserted(order, fresh), i)
    BY <1>9 DEF InsertRows, Inserted
  <2>3. /\ fresh \in Snapshots /\ nextSlot + Cardinality(DOMAIN fresh) <= MaxSlots
        /\ todo' = <<>>
    BY <2>1, NextOfHandler DEF UpdateStep
  <2>4. TodoOK'
    BY <2>3 DEF TodoOK
  <2> HIDE DEF fresh
  <2>5. /\ Len(order) \in Nat /\ nextSlot + Len(order) <= MaxSlots
        /\ RowsOK(Inserted(order, fresh))
        /\ \A q \in DOMAIN Inserted(order, fresh) : q < nextSlot + Len(order)
    BY <2>3, InsertFacts DEF GridOK
  <2>6. /\ workers' \subseteq Cameras /\ CamerasOf(Inserted(order, fresh)) \subseteq workers'
        /\ slotToCameraId_' = SlotMap(Inserted(order, fresh)) /\ MapOK(slotToCameraId_')
    BY <2>2, <2>5, RegisterFacts
  <2>7. nextSlot' \in 0..MaxSlots
    BY <2>2, <2>5, VideoAssumption DEF GridTypes
  <2> QED
    BY <2>2, <2>4, <2>5, <2>6, <2>7 DEF GridTypes, GridOK
<1>10. CASE ClearGrid
  <2>1. /\ todo # <<>> /\ Head(todo).op = "cleared" /\ todo' = Tail(todo)
        /\ rows' = <<>> /\ nextSlot' = 0 /\ slotToCameraId_' = <<>> /\ UNCHANGED workers
    BY <1>10 DEF ClearGrid, Doing
  <2>2. TodoOK'
    BY <2>1, PlanKept
  <2>3. DOMAIN rows' = {} /\ DOMAIN slotToCameraId_' = {}
    BY <2>1
  <2>4. slotToCameraId_' = SlotMap(rows')
    BY <2>1, <2>3 DEF SlotMap
  <2> QED
    BY <2>1, <2>2, <2>3, <2>4, VideoAssumption DEF GridTypes, GridOK, RowsOK, MapOK, CamerasOf
<1>11. CASE timerEvent
  <2>1. /\ todo = <<>> /\ todo' = <<Fetch>>
        /\ UNCHANGED <<rows, nextSlot, workers, slotToCameraId_>>
    BY <1>11 DEF timerEvent, grid, manager
  <2>2. TodoOK'
    <3>1. Fetch \in Steps /\ Fetch.op = "fetch"
      BY DEF Steps, Fetch
    <3> HIDE DEF Fetch
    <3>2. todo' \in Seq(Steps) /\ \A n \in DOMAIN todo' : todo'[n] = Fetch
      BY <2>1, <3>1
    <3> QED
      BY <2>1, <3>1, <3>2 DEF TodoOK
  <2>3. ~Clearing
    BY <2>1, NothingToDo
  <2> QED
    BY <2>1, <2>2, <2>3 DEF GridTypes, GridOK
<1>12. CASE getLatestFrame
  <2>1. /\ todo # <<>> /\ Head(todo).op = "fetch" /\ todo' = Tail(todo)
        /\ UNCHANGED <<rows, nextSlot, workers, slotToCameraId_>>
    BY <1>12 DEF getLatestFrame, Doing, grid, manager
  <2>2. TodoOK' /\ ~Clearing
    BY <2>1, PlanKept, NextOfHandler
  <2> QED
    BY <2>1, <2>2 DEF GridTypes, GridOK
<1>13. ViewStep \/ StopThread => UNCHANGED <<grid, manager, todo>>
  BY DEF ViewStep, CreateItem, CloseItem, ReuseCard, StopThread
<1>14. (\E c \in Cameras : DecoderStep(c) \/ NetworkStep(c)) => UNCHANGED <<grid, manager, todo>>
  BY DEF DecoderStep, NetworkStep, SleepEnds, onFrameReady, PacketDone, OpenFails, ReadEnds,
    Opened, Packet, SetDecoder
<1>15. UNCHANGED vars => UNCHANGED <<grid, manager, todo>>
  BY DEF vars
<1> QED
  BY <1>1, <1>2, <1>3, <1>4, <1>5, <1>6, <1>7, <1>8, <1>9, <1>10, <1>11, <1>12, <1>13,
     <1>14, <1>15 DEF Next, GridStep, HandlerStep

-------------------------------------------------------------------------------
(* The decoders *)

\* What is to hold of the Video of every camera.
DecodersOK == VideoTypes /\ FramesOK /\ DecoderHasWorker

\* The Video of one camera changes.
LEMMA OneVideo ==
  ASSUME DecodersOK, NEW c \in Cameras, NEW w \in Videos, Counted(w),
         w.decoder # "none" => c \in workers',
         video' = [video EXCEPT ![c] = w], workers \ {c} \subseteq workers'
  PROVE  DecodersOK'
<1>1. /\ video' \in [Cameras -> Videos] /\ video'[c] = w
      /\ \A d \in Cameras \ {c} : video'[d] = video[d]
  BY DEF DecodersOK, VideoTypes
<1>2. FramesOK'
  BY <1>1 DEF DecodersOK, FramesOK
<1>3. DecoderHasWorker'
  BY <1>1 DEF DecodersOK, DecoderHasWorker
<1> QED
  BY <1>1, <1>2, <1>3 DEF DecodersOK, VideoTypes

\* A decoder goes on from one state to another, which is no end and no beginning.
LEMMA DecoderMoves ==
  ASSUME DecodersOK, NEW c \in Cameras, NEW d \in Decoders \ {"none", "stored"},
         video[c].decoder \notin {"none", "stored"}, SetDecoder(c, d)
  PROVE  DecodersOK'
<1> DEFINE w == [video[c] EXCEPT !.decoder = d]
<1>1. video' = [video EXCEPT ![c] = w] /\ workers' = workers
  BY DEF SetDecoder, manager
<1>2. video[c] \in Videos /\ Counted(video[c]) /\ c \in workers
  BY DEF DecodersOK, VideoTypes, FramesOK, DecoderHasWorker
<1>3. w \in Videos /\ Counted(w)
  BY <1>2 DEF Videos, Counted
<1> HIDE DEF w
<1> QED
  BY <1>1, <1>2, <1>3, OneVideo

\* registerSlots starts the workers that are new.
LEMMA RegisterDecoders ==
  ASSUME DecodersOK, NEW rs, NEW i, registerSlots(rs, i)
  PROVE  DecodersOK'
<1> DEFINE new == CamerasOf(rs) \ workers
<1>1. /\ workers' = workers \cup new
      /\ video' = [c \in Cameras |-> IF c \in new THEN Started(NewVideo, c) ELSE video[c]]
  BY DEF registerSlots
<1>2. \A c \in Cameras : Started(NewVideo, c) \in Videos /\ Counted(Started(NewVideo, c))
  <2> SUFFICES ASSUME NEW c \in Cameras
               PROVE  Started(NewVideo, c) \in Videos /\ Counted(Started(NewVideo, c))
    OBVIOUS
  <2> DEFINE r(d) == [decoder |-> d, stopThread |-> FALSE, frameSeq |-> 0, latest |-> 0]
  <2>1. Started(NewVideo, c) = r("open") \/ Started(NewVideo, c) = r("none")
    BY DEF Started, NewVideo
  <2>2. 0 \in 0..MaxFrames
    BY VideoAssumption
  <2>3. \A d \in Decoders : r(d) \in Videos
    BY <2>2 DEF Videos
  <2>4. Counted(r("open")) /\ Counted(r("none"))
    BY DEF Counted
  <2> QED
    BY <2>1, <2>3, <2>4 DEF Decoders
<1> HIDE DEF new
<1>3. VideoTypes'
  BY <1>1, <1>2 DEF DecodersOK, VideoTypes
<1>4. FramesOK'
  BY <1>1, <1>2 DEF DecodersOK, FramesOK
<1>5. DecoderHasWorker'
  BY <1>1 DEF DecodersOK, DecoderHasWorker
<1> QED
  BY <1>3, <1>4, <1>5 DEF DecodersOK

\* After every step a decoder has a worker, and its frames are counted.
LEMMA DecodersStep ==
  ASSUME TypeOK, GridOK, TodoOK, DecodersOK, [Next]_vars
  PROVE  DecodersOK'
<1>0. GridTypes
  BY TypeParts
<1>1. CASE UNCHANGED <<workers, video>>
  BY <1>1 DEF DecodersOK, VideoTypes, FramesOK, DecoderHasWorker
<1>2. CASE \E rs : \E i : registerSlots(rs, i)
  BY <1>2, RegisterDecoders
<1>3. CASE StopThread
  <2> DEFINE c == Head(todo).cam
             w == [video[c] EXCEPT !.stopThread = TRUE]
  <2>1. video' = [video EXCEPT ![c] = w] /\ workers' = workers
    BY <1>3 DEF StopThread, manager
  <2>2. todo # <<>> /\ Head(todo).op \in {"restart", "delete"}
    BY <1>3 DEF StopThread, Doing
  <2>3. c \in Cameras
    BY <1>0, <2>2, NextOfHandler DEF UpdateStep, ClearStep, GridTypes, RowsOK, Row
  <2> HIDE DEF c
  <2>4. video[c] \in Videos /\ Counted(video[c]) /\ (video[c].decoder # "none" => c \in workers)
    BY <2>3 DEF DecodersOK, VideoTypes, FramesOK, DecoderHasWorker
  <2>5. w \in Videos /\ Counted(w) /\ w.decoder = video[c].decoder
    BY <2>4 DEF Videos, Counted
  <2> HIDE DEF w
  <2> QED
    BY <2>1, <2>3, <2>4, <2>5, OneVideo
<1>4. CASE RestartWorker
  <2> DEFINE c == Head(todo).cam
             v == [video[c] EXCEPT !.decoder = "none"]
             w == Started(v, c)
  <2>1. video' = [video EXCEPT ![c] = w] /\ workers' = workers /\ Joined(c)
    BY <1>4 DEF RestartWorker, manager
  <2>2. todo # <<>> /\ Head(todo).op = "restart"
    BY <1>4 DEF RestartWorker, Doing
  <2>3. c \in CamerasOf(rows) /\ ~Clearing
    BY <2>2, NextOfHandler DEF UpdateStep, CamerasOf
  <2>4. c \in workers /\ c \in Cameras
    BY <1>0, <2>3 DEF GridOK, GridTypes
  <2> HIDE DEF c
  <2>5. video[c] \in Videos /\ Counted(video[c]) /\ video[c].decoder # "stored"
    BY <2>1, <2>4 DEF DecodersOK, VideoTypes, FramesOK, Joined
  <2>6. v \in Videos /\ Counted(v)
    BY <2>5 DEF Videos, Counted, Decoders
  <2> HIDE DEF v
  <2>7. w \in Videos /\ Counted(w)
    <3>1. CASE c \in Addressed
      <4>1. w = [v EXCEPT !.stopThread = FALSE, !.decoder = "open"]
        BY <3>1 DEF Started
      <4>2. v.decoder = "none"
        BY <2>5 DEF v, Videos
      <4> QED
        BY <2>6, <4>1, <4>2 DEF Videos, Counted, Decoders
    <3>2. CASE c \notin Addressed
      BY <2>6, <3>2 DEF Started
    <3> QED
      BY <3>1, <3>2
  <2> HIDE DEF w
  <2> QED
    BY <2>1, <2>4, <2>7, OneVideo
<1>5. CASE DeleteWorker
  <2> DEFINE c == Head(todo).cam
             w == [NewVideo EXCEPT !.decoder =
                     IF video[c].decoder = "exited" THEN "none" ELSE video[c].decoder]
  <2>1. /\ video' = [video EXCEPT ![c] = w] /\ workers' = workers \ {c}
        /\ video[c].decoder \in {"none", "exited"}
    BY <1>5 DEF DeleteWorker, Joined
  <2>2. todo # <<>> /\ Head(todo).op = "delete"
    BY <1>5 DEF DeleteWorker, Doing
  <2>3. c \in Cameras
    BY <2>2, NextOfHandler DEF ClearStep
  <2> HIDE DEF c
  <2>4. w \in Videos /\ Counted(w) /\ w.decoder = "none"
    <3>1. w = NewVideo
      BY <2>1 DEF NewVideo
    <3>2. 0 \in 0..MaxFrames
      BY VideoAssumption
    <3>3. NewVideo \in Videos
      BY <3>2 DEF NewVideo, Videos, Decoders
    <3> QED
      BY <3>1, <3>3 DEF NewVideo, Counted
  <2> HIDE DEF w
  <2> QED
    BY <2>1, <2>3, <2>4, OneVideo
<1>6. ASSUME NEW c \in Cameras, onFrameReady(c) PROVE DecodersOK'
  <2>1. video[c] \in Videos /\ Counted(video[c]) /\ (video[c].decoder # "none" => c \in workers)
    BY DEF DecodersOK, VideoTypes, FramesOK, DecoderHasWorker
  <2>2. workers' = workers
    BY <1>6 DEF onFrameReady, manager
  <2>3. CASE video[c].decoder = "frames"
    <3> DEFINE w == [video[c] EXCEPT !.latest = video[c].latest + 1, !.decoder = "stored"]
    <3>1. video[c].latest < MaxFrames /\ video' = [video EXCEPT ![c] = w]
      BY <1>6, <2>3 DEF onFrameReady, DecodersOK, VideoTypes
    <3>2. w \in Videos /\ Counted(w)
      <4>1. /\ w.latest = video[c].latest + 1 /\ w.frameSeq = video[c].frameSeq
            /\ w.decoder = "stored"
        BY <2>1 DEF Videos
      <4>2. video[c].latest + 1 \in 0..MaxFrames
        BY <2>1, <3>1, VideoAssumption DEF Videos
      <4>3. w \in Videos
        BY <2>1, <4>2 DEF Videos, Decoders
      <4>4. video[c].latest = video[c].frameSeq
        BY <2>1, <2>3 DEF Counted, Videos
      <4> HIDE DEF w
      <4> QED
        BY <4>1, <4>3, <4>4 DEF Counted
    <3> HIDE DEF w
    <3> QED
      BY <2>1, <2>2, <2>3, <3>1, <3>2, OneVideo
  <2>4. CASE video[c].decoder = "stored"
    <3> DEFINE w == [video[c] EXCEPT !.frameSeq = video[c].frameSeq + 1, !.decoder = "frames"]
    <3>1. video' = [video EXCEPT ![c] = w]
      BY <1>6, <2>4 DEF onFrameReady, DecodersOK, VideoTypes
    <3>2. w \in Videos /\ Counted(w)
      <4>1. /\ w.latest = video[c].latest /\ w.frameSeq = video[c].frameSeq + 1
            /\ w.decoder = "frames"
        BY <2>1 DEF Videos
      <4>2. video[c].latest = video[c].frameSeq + 1
        BY <2>1, <2>4 DEF Counted, Videos
      <4>3. video[c].frameSeq + 1 \in 0..MaxFrames
        BY <2>1, <4>2 DEF Videos
      <4>4. w \in Videos
        BY <2>1, <4>3 DEF Videos, Decoders
      <4>5. w.frameSeq \in Int
        BY <4>1, <4>3
      <4> HIDE DEF w
      <4>6. w.latest = w.frameSeq + 0
        BY <4>1, <4>2, <4>5
      <4> QED
        BY <4>1, <4>4, <4>6 DEF Counted
    <3> HIDE DEF w
    <3> QED
      BY <2>1, <2>2, <2>4, <3>1, <3>2, OneVideo
  <2> QED
    BY <1>6, <2>3, <2>4 DEF onFrameReady
<1>7. ASSUME NEW c \in Cameras,
             \/ SleepEnds(c) \/ PacketDone(c) \/ OpenFails(c) \/ ReadEnds(c)
             \/ Opened(c) \/ Packet(c)
      PROVE  DecodersOK'
  <2>1. /\ video[c].decoder \notin {"none", "stored"}
        /\ \E d \in Decoders \ {"none", "stored"} : SetDecoder(c, d)
    BY <1>7 DEF SleepEnds, PacketDone, OpenFails, ReadEnds, Opened, Packet, UnlessStopped,
      Decoders
  <2> QED
    BY <2>1, DecoderMoves
<1>8. /\ \A s \in DOMAIN rows : splitSlot(s) \/ mergeSlots(s) =>
           \E rs : \E i : registerSlots(rs, i)
      /\ InsertRows => \E rs : \E i : registerSlots(rs, i)
  BY DEF splitSlot, mergeSlots, InsertRows
<1>9. (\E a, b \in DOMAIN rows : swapSlots(a, b)) => UNCHANGED <<workers, video>>
  BY DEF swapSlots
<1>10. CameraList \/ logoutRequested \/ ViewStep => UNCHANGED <<workers, video>>
  BY DEF CameraList, onStoreUpdated, logoutRequested, ViewStep, CreateItem, CloseItem,
    ReuseCard, manager
<1>11. GoOffline \/ ClearGrid \/ getLatestFrame \/ timerEvent => UNCHANGED <<workers, video>>
  BY DEF GoOffline, ClearGrid, getLatestFrame, timerEvent, manager
<1>12. UNCHANGED vars => UNCHANGED <<workers, video>>
  BY DEF vars, manager
<1>13. Next => \/ GridStep \/ ViewStep \/ HandlerStep \/ timerEvent
               \/ \E c \in Cameras : \/ onFrameReady(c) \/ SleepEnds(c) \/ PacketDone(c)
                                     \/ OpenFails(c) \/ ReadEnds(c) \/ Opened(c) \/ Packet(c)
  BY DEF Next, DecoderStep, NetworkStep
<1> QED
  BY <1>1, <1>2, <1>3, <1>4, <1>5, <1>6, <1>7, <1>8, <1>9, <1>10, <1>11, <1>12, <1>13
     DEF GridStep, HandlerStep

-------------------------------------------------------------------------------
(* What happens to the item on the screen *)

\* j is what i becomes when something changes: its stream goes on as it was, has seen
\* nothing of its worker, has none, or is gone.
StreamFollows(i, j, ws) ==
  /\ j \in Items /\ j.worker \in ws \cup {None}
  /\ j.active /\ j.worker # None =>
       \/ j.lastSeq = 0
       \/ /\ i.active /\ j.worker = i.worker
          /\ j.lastSeq = i.lastSeq /\ j.shown = i.shown

\* It is still the item of the same row.
Follows(i, j, ws) ==
  /\ j.kind = i.kind /\ j.slot = i.slot /\ j.source = i.source
  /\ StreamFollows(i, j, ws)

\* Nothing changes.
LEMMA FollowsSelf ==
  ASSUME NEW i \in Items, NEW ws, i.worker \in ws \cup {None}
  PROVE  Follows(i, i, ws)
BY DEF Follows, StreamFollows

\* One thing after the other.
LEMMA FollowsTransitive ==
  ASSUME NEW i, NEW j, NEW k, NEW ws, NEW vs, Follows(i, j, ws), Follows(j, k, vs)
  PROVE  Follows(i, k, vs)
BY DEF Follows, StreamFollows

\* tryAttach looks for the worker of the row, which is there when the row is known.
LEMMA FoundFacts ==
  ASSUME NEW i \in Items, NEW ws \in SUBSET Cameras, NEW map, MapOK(map)
  PROVE  /\ Found(i, ws, map) \in ws \cup {None}
         /\ i.camera \in ws /\ (i.slot \in DOMAIN map => map[i.slot] = i.camera) =>
              Found(i, ws, map) = i.camera
         /\ i.kind # "list" /\ i.slot \in DOMAIN map /\ map[i.slot] \in ws =>
              Found(i, ws, map) = map[i.slot]
BY VideoAssumption DEF Found, getWorker, getWorkerBySlot, MapOK

\* tryAttach: the item follows the worker it finds, and keeps its camera and whether
\* it is active.
LEMMA AttachFacts ==
  ASSUME NEW i \in Items, NEW ws \in SUBSET Cameras, NEW map, MapOK(map),
         i.worker \in ws \cup {None}
  PROVE  /\ Follows(i, tryAttach(i, ws, map), ws)
         /\ tryAttach(i, ws, map).worker = Found(i, ws, map)
         /\ tryAttach(i, ws, map).camera = i.camera
         /\ tryAttach(i, ws, map).active = i.active
<1> DEFINE new == Found(i, ws, map)
           l == i.listening \/ new = None
           j == [i EXCEPT !.worker = new, !.lastSeq = 0, !.listening = l]
<1>1. new \in ws \cup {None}
  BY FoundFacts
<1>2. l \in BOOLEAN
  BY Zenon
<1>3. tryAttach(i, ws, map) = IF new = i.worker THEN i ELSE j
  BY DEF tryAttach
<1>4. 0 \in 0..MaxFrames
  BY VideoAssumption
<1> HIDE DEF new, l
<1>5. /\ j \in Items /\ j.kind = i.kind /\ j.slot = i.slot /\ j.source = i.source
      /\ j.worker = new /\ j.lastSeq = 0 /\ j.camera = i.camera /\ j.active = i.active
  BY <1>1, <1>2, <1>4 DEF Items
<1> HIDE DEF j
<1>6. CASE new = i.worker
  BY <1>3, <1>6, FollowsSelf DEF new
<1>7. CASE new # i.worker
  BY <1>1, <1>3, <1>5, <1>7 DEF Follows, StreamFollows, new
<1> QED
  BY <1>6, <1>7

\* A stream that gets the camera of its row finds the worker.
LEMMA CameraFacts ==
  ASSUME NEW i \in Items, NEW ws \in SUBSET Cameras, NEW map, MapOK(map),
         i.worker \in ws \cup {None}, NEW c \in Cameras
  PROVE  /\ Follows(i, setCameraId(i, c, ws, map), ws)
         /\ setCameraId(i, c, ws, map).camera = c
         /\ setCameraId(i, c, ws, map).active = i.active
         /\ /\ c \in ws /\ (i.slot \in DOMAIN map => map[i.slot] = c)
            /\ i.camera = i.worker \/ i.worker = c
            => setCameraId(i, c, ws, map).worker = c
<1> DEFINE k == [i EXCEPT !.camera = c]
<1>1. CASE c = i.camera
  BY <1>1, FollowsSelf DEF setCameraId
<1>2. CASE c # i.camera
  <2>1. setCameraId(i, c, ws, map) = tryAttach(k, ws, map)
    BY <1>2 DEF setCameraId
  <2>2. /\ k \in Items /\ k.camera = c /\ k.slot = i.slot /\ k.worker = i.worker
        /\ k.kind = i.kind /\ k.source = i.source /\ k.active = i.active
        /\ k.lastSeq = i.lastSeq /\ k.shown = i.shown
    BY DEF Items
  <2> HIDE DEF k
  <2>3. Follows(i, k, ws)
    BY <2>2 DEF Follows, StreamFollows
  <2>4. /\ Follows(k, tryAttach(k, ws, map), ws)
        /\ tryAttach(k, ws, map).worker = Found(k, ws, map)
        /\ tryAttach(k, ws, map).camera = k.camera
        /\ tryAttach(k, ws, map).active = k.active
    BY <2>2, AttachFacts
  <2>5. c \in ws /\ (i.slot \in DOMAIN map => map[i.slot] = c) => Found(k, ws, map) = c
    BY <2>2, FoundFacts
  <2>6. Follows(i, tryAttach(k, ws, map), ws)
    BY <2>3, <2>4, FollowsTransitive
  <2> QED
    BY <2>1, <2>2, <2>4, <2>5, <2>6
<1> QED
  BY <1>1, <1>2

\* So does a new one.
LEMMA NewStreamFacts ==
  ASSUME NEW i \in Items, NEW ws \in SUBSET Cameras, NEW map, MapOK(map), NEW c \in Cameras
  PROVE  /\ Follows(i, NewStream(i, c, ws, map), ws)
         /\ NewStream(i, c, ws, map).camera = c
         /\ c \in ws /\ (i.slot \in DOMAIN map => map[i.slot] = c) =>
              NewStream(i, c, ws, map).worker = c
<1> DEFINE k == [i EXCEPT !.camera = c, !.active = TRUE, !.worker = None, !.lastSeq = 0,
                          !.shown = <<None, 0>>, !.listening = FALSE]
<1>1. NewStream(i, c, ws, map) = tryAttach(k, ws, map)
  BY DEF NewStream
<1>2. 0 \in 0..MaxFrames /\ <<None, 0>> \in (Cameras \cup {None}) \X (0..MaxFrames)
  BY VideoAssumption
<1>3. /\ k \in Items /\ k.camera = c /\ k.slot = i.slot /\ k.worker = None
      /\ k.kind = i.kind /\ k.source = i.source /\ k.lastSeq = 0
  BY <1>2 DEF Items
<1> HIDE DEF k
<1>4. Follows(i, k, ws)
  BY <1>3 DEF Follows, StreamFollows
<1>5. /\ Follows(k, tryAttach(k, ws, map), ws)
      /\ tryAttach(k, ws, map).worker = Found(k, ws, map)
      /\ tryAttach(k, ws, map).camera = k.camera
  BY <1>3, AttachFacts
<1>6. c \in ws /\ (i.slot \in DOMAIN map => map[i.slot] = c) => Found(k, ws, map) = c
  BY <1>3, FoundFacts
<1>7. Follows(i, tryAttach(k, ws, map), ws)
  BY <1>4, <1>5, FollowsTransitive
<1> QED
  BY <1>1, <1>3, <1>5, <1>6, <1>7

\* The item of a row that it is bound to, or is about to be, is bound to it after
\* Refresh.
LEMMA RefreshFacts ==
  ASSUME NEW i \in Items, NEW ws \in SUBSET Cameras, NEW map, MapOK(map), NEW rs, RowsOK(rs),
         i.worker \in ws \cup {None},
         i.slot \in DOMAIN rs =>
           /\ rs[i.slot].cam \in ws
           /\ i.slot \in DOMAIN map => map[i.slot] = rs[i.slot].cam
           /\ i.active => i.camera = i.worker
  PROVE  /\ Follows(i, Refresh(i, rs, ws, map), ws)
         /\ Bound(Refresh(i, rs, ws, map), rs)
<1> DEFINE v == Shown(i, rs)
           none == <<None, 0>>
           k == [i EXCEPT !.active = FALSE, !.worker = None, !.camera = None, !.lastSeq = 0,
                          !.shown = none, !.listening = FALSE]
<1>1. /\ i.slot \in DOMAIN rs => v = rs[i.slot]
      /\ v.online => v.cam \in Cameras
  <2>1. v \in Row \cup {NoRow}
    BY DEF Shown, RowsOK, Items
  <2>2. i.slot \in DOMAIN rs => v = rs[i.slot]
    BY DEF Shown
  <2> HIDE DEF v
  <2>3. CASE v \in Row
    BY <2>2, <2>3 DEF Row
  <2>4. CASE v = NoRow
    BY <2>2, <2>4 DEF NoRow
  <2> QED
    BY <2>1, <2>3, <2>4
<1>3. CASE ~v.online
  <2>1. Refresh(i, rs, ws, map) = k
    BY <1>3 DEF Refresh
  <2>2. 0 \in 0..MaxFrames /\ none \in (Cameras \cup {None}) \X (0..MaxFrames)
    BY VideoAssumption
  <2> HIDE DEF none
  <2>3. /\ k \in Items /\ k.slot = i.slot /\ k.kind = i.kind /\ k.source = i.source
        /\ k.worker = None /\ k.active = FALSE
    BY <2>2 DEF Items
  <2> HIDE DEF k
  <2> QED
    BY <2>1, <2>3 DEF Follows, StreamFollows, Bound
<1>4. CASE v.online /\ ~i.active
  <2>1. Refresh(i, rs, ws, map) = NewStream(i, v.cam, ws, map)
    BY <1>4 DEF Refresh
  <2> HIDE DEF v
  <2>2. /\ Follows(i, NewStream(i, v.cam, ws, map), ws)
        /\ NewStream(i, v.cam, ws, map).camera = v.cam
        /\ v.cam \in ws /\ (i.slot \in DOMAIN map => map[i.slot] = v.cam) =>
             NewStream(i, v.cam, ws, map).worker = v.cam
    BY <1>1, <1>4, NewStreamFacts
  <2> QED
    BY <1>1, <1>4, <2>1, <2>2 DEF Bound, Follows
<1>5. CASE v.online /\ i.active
  <2>1. Refresh(i, rs, ws, map) = setCameraId(i, v.cam, ws, map)
    BY <1>5 DEF Refresh
  <2> HIDE DEF v
  <2>2. /\ Follows(i, setCameraId(i, v.cam, ws, map), ws)
        /\ setCameraId(i, v.cam, ws, map).camera = v.cam
        /\ /\ v.cam \in ws /\ (i.slot \in DOMAIN map => map[i.slot] = v.cam)
           /\ i.camera = i.worker \/ i.worker = v.cam
           => setCameraId(i, v.cam, ws, map).worker = v.cam
    BY <1>1, <1>5, CameraFacts
  <2> QED
    BY <1>1, <1>5, <2>1, <2>2 DEF Bound, Follows
<1> QED
  BY <1>3, <1>4, <1>5

\* The rows rs that the item is told of: VideoManager knows the camera of its row, and
\* it was bound to that row, as it was in old, before.
Told(i, old, rs, ws, map) ==
  i.slot \in DOMAIN rs =>
    /\ rs[i.slot].cam \in ws /\ i.slot \in DOMAIN old
    /\ i.slot \in DOMAIN map => map[i.slot] = rs[i.slot].cam

\* After dataChanged of a row that is different, the item is bound.
LEMMA DataChangedFacts ==
  ASSUME NEW i \in Items, NEW ws \in SUBSET Cameras, NEW map, MapOK(map), NEW rs, RowsOK(rs),
         i.worker \in ws \cup {None}, NEW old, Bound(i, old), Told(i, old, rs, ws, map),
         NEW s, i.slot \in DOMAIN rs /\ i.slot # s => rs[i.slot] = old[i.slot]
  PROVE  /\ Follows(i, DataChanged(i, s, rs, ws, map), ws)
         /\ Bound(DataChanged(i, s, rs, ws, map), rs)
<1>1. i.kind # None
  BY VideoAssumption DEF Items, Kinds
<1>2. CASE i.slot = s
  <2>1. DataChanged(i, s, rs, ws, map) = Refresh(i, rs, ws, map)
    BY <1>1, <1>2 DEF DataChanged
  <2> QED
    BY <2>1, RefreshFacts DEF Told, Bound
<1>3. CASE i.slot # s
  <2>1. DataChanged(i, s, rs, ws, map) = i
    BY <1>3 DEF DataChanged
  <2> QED
    BY <1>3, <2>1, FollowsSelf DEF Told, Bound
<1> QED
  BY <1>2, <1>3

\* Rows that come or go leave an item bound to a row that stays.
LEMMA RowsChangedFacts ==
  ASSUME NEW i \in Items, NEW ws \in SUBSET Cameras, NEW map, MapOK(map), NEW rs, RowsOK(rs),
         i.worker \in ws \cup {None}, NEW old, Bound(i, old), Told(i, old, rs, ws, map),
         i.slot \in DOMAIN rs => rs[i.slot] = old[i.slot]
  PROVE  /\ Follows(i, RowsChanged(i, rs, ws, map), ws)
         /\ Bound(RowsChanged(i, rs, ws, map), rs)
<1>1. CASE i.kind = "window"
  <2>1. RowsChanged(i, rs, ws, map) = Refresh(i, rs, ws, map)
    BY <1>1 DEF RowsChanged
  <2>2. i.slot \in DOMAIN rs =>
          /\ rs[i.slot].cam \in ws
          /\ i.slot \in DOMAIN map => map[i.slot] = rs[i.slot].cam
          /\ i.active => i.camera = i.worker
    BY DEF Told, Bound
  <2> QED
    BY <2>1, <2>2, RefreshFacts
<1>2. CASE i.kind # "window"
  <2>1. RowsChanged(i, rs, ws, map) = i
    BY <1>2 DEF RowsChanged
  <2> QED
    BY <2>1, FollowsSelf DEF Told, Bound
<1> QED
  BY <1>1, <1>2

\* workerRegistered makes no bound item look for another camera.
LEMMA RegisteredFacts ==
  ASSUME NEW i \in Items, NEW ws \in SUBSET Cameras, NEW rs, RowsOK(rs),
         CamerasOf(rs) \subseteq ws, i.worker \in ws \cup {None}, Bound(i, rs), NEW c
  PROVE  /\ Follows(i, onWorkerRegistered(i, c, ws, SlotMap(rs)), ws)
         /\ Bound(onWorkerRegistered(i, c, ws, SlotMap(rs)), rs)
<1> DEFINE map == SlotMap(rs)
           k == [i EXCEPT !.listening = FALSE]
<1>1. MapOK(map) /\ DOMAIN map = DOMAIN rs /\ \A s \in DOMAIN rs : map[s] = rs[s].cam
  BY DEF MapOK, SlotMap, RowsOK, Row
<1>2. onWorkerRegistered(i, c, ws, map) = i \/ onWorkerRegistered(i, c, ws, map) = tryAttach(k, ws, map)
  BY DEF onWorkerRegistered
<1>3. /\ k \in Items /\ k.slot = i.slot /\ k.kind = i.kind /\ k.source = i.source
      /\ k.worker = i.worker /\ k.camera = i.camera /\ k.active = i.active
      /\ k.lastSeq = i.lastSeq /\ k.shown = i.shown
  BY DEF Items
<1> HIDE DEF k, map
<1>4. /\ Follows(k, tryAttach(k, ws, map), ws)
      /\ tryAttach(k, ws, map).worker = Found(k, ws, map)
      /\ tryAttach(k, ws, map).camera = k.camera
      /\ tryAttach(k, ws, map).active = k.active
  BY <1>1, <1>3, AttachFacts
<1>5. Follows(i, k, ws)
  BY <1>3 DEF Follows, StreamFollows
<1>6. Follows(i, tryAttach(k, ws, map), ws)
  BY <1>4, <1>5, FollowsTransitive
<1>7. Bound(tryAttach(k, ws, map), rs)
  <2> SUFFICES ASSUME i.active, i.slot \in DOMAIN rs
               PROVE  /\ rs[i.slot].online
                      /\ i.camera = rs[i.slot].cam /\ Found(k, ws, map) = rs[i.slot].cam
    BY <1>3, <1>4 DEF Bound, Follows
  <2>1. rs[i.slot].online /\ i.camera = rs[i.slot].cam /\ i.camera \in ws
    BY DEF Bound, CamerasOf
  <2>2. Found(k, ws, map) = k.camera
    BY <1>1, <1>3, <2>1, FoundFacts
  <2> QED
    BY <1>3, <2>1, <2>2
<1>8. Follows(i, i, ws)
  BY FollowsSelf
<1> QED
  BY <1>2, <1>6, <1>7, <1>8 DEF map

\* registerSlots: the item that has seen the changes of the rows stays bound, or is a
\* card that goes with its row.
LEMMA RegisterItem ==
  ASSUME GridTypes, NEW rs, RowsOK(rs), NEW i \in Items, registerSlots(rs, i),
         i.worker \in workers \cup {None}, Bound(i, rs)
  PROVE  item' = NoItem \/ (Follows(i, item', workers') /\ Bound(item', rs))
<1> DEFINE new == CamerasOf(rs) \ workers
           j == Registered(i, new, workers', SlotMap(rs))
<1>1. /\ workers \subseteq workers' /\ workers' \in SUBSET Cameras
      /\ CamerasOf(rs) \subseteq workers'
  BY RegisterFacts
<1>2. item' = WithoutGoneCard(j, rs)
  BY DEF registerSlots
<1>3. j = i \/ \E c : j = onWorkerRegistered(i, c, workers', SlotMap(rs))
  BY DEF Registered
<1> HIDE DEF j
<1>4. i.worker \in workers' \cup {None}
  BY <1>1
<1>5. Follows(i, j, workers') /\ Bound(j, rs)
  BY <1>1, <1>3, <1>4, RegisteredFacts, FollowsSelf
<1> QED
  BY <1>2, <1>5 DEF WithoutGoneCard

\* The frames a worker has counted do not become fewer while it exists.
FramesGrow == \A c \in workers \cap workers' : video'[c].frameSeq >= video[c].frameSeq

\* An item that follows what happens, bound to its row, has seen what its new worker
\* has counted.
LEMMA ItemFollows ==
  ASSUME TypeOK, VideoTypes', nextSlot' \in Nat, SeenOK, FramesGrow, workers' \subseteq Cameras,
         NEW i \in Items, NEW j, StreamFollows(i, j, workers'),
         i.active => item # NoItem /\ item.active /\ item.worker = i.worker
                       /\ item.lastSeq = i.lastSeq /\ item.shown = i.shown,
         i.active => i.worker \in workers \cup {None},
         item' = j, j.slot < nextSlot', ~Clearing' => Bound(j, rows'),
         todo # <<Fetch>>, todo' # <<Fetch>>
  PROVE  ItemTypes' /\ ItemOK' /\ SeenOK'
<1>1. j \in Items /\ j.worker \in workers' \cup {None} /\ j.kind # None
  BY VideoAssumption DEF StreamFollows, Items, Kinds
<1>2. ItemTypes' /\ ItemOK'
  BY <1>1 DEF ItemTypes, ItemOK
<1>3. ASSUME j.active, j.worker # None
      PROVE  /\ j.lastSeq <= video'[j.worker].frameSeq
             /\ j.lastSeq > 0 => j.shown[1] = j.worker /\ j.shown[2] >= j.lastSeq
  <2>1. j.worker \in workers' /\ j.worker \in Cameras
    BY <1>1, <1>3
  <2>2. video'[j.worker].frameSeq \in 0..MaxFrames
    BY <2>1 DEF VideoTypes, Videos
  <2>3. CASE j.lastSeq = 0
    BY <2>2, <2>3
  <2>4. CASE /\ i.active /\ j.worker = i.worker
             /\ j.lastSeq = i.lastSeq /\ j.shown = i.shown
    <3>1. j.worker \in workers /\ item.worker = j.worker
      BY <1>3, <2>4
    <3>2. Shows(item)
      BY <2>4, VideoAssumption, TypeParts DEF Shows, ItemTypes, Items, Kinds
    <3>3. /\ j.lastSeq <= video[j.worker].frameSeq
          /\ j.lastSeq > 0 => j.shown[1] = j.worker /\ j.shown[2] >= j.lastSeq
      BY <1>3, <2>4, <3>1, <3>2 DEF SeenOK
    <3>4. video'[j.worker].frameSeq >= video[j.worker].frameSeq
      BY <2>1, <3>1 DEF FramesGrow
    <3>5. video[j.worker].frameSeq \in 0..MaxFrames /\ j.lastSeq \in 0..MaxFrames
      BY <1>1, <2>1, TypeParts DEF VideoTypes, Videos, Items
    <3> QED
      BY <2>2, <3>3, <3>4, <3>5
  <2> QED
    BY <1>3, <2>3, <2>4 DEF StreamFollows
<1>4. SeenOK'
  BY <1>3 DEF SeenOK, Shows
<1> QED
  BY <1>2, <1>4

\* No item, nothing to show.
LEMMA ItemGone ==
  ASSUME item' = NoItem, todo' # <<Fetch>>
  PROVE  ItemTypes' /\ ItemOK' /\ SeenOK'
BY DEF ItemTypes, ItemOK, SeenOK, NoItem, Shows

\* The item that is there goes on.
LEMMA ItemKept ==
  ASSUME TypeOK, VideoTypes', GridTypes', nextSlot <= nextSlot', ItemOK, SeenOK, FramesGrow,
         item \in Items, todo # <<Fetch>>, todo' # <<Fetch>>,
         item' = NoItem \/ (Follows(item, item', workers') /\ (~Clearing' => Bound(item', rows')))
  PROVE  ItemTypes' /\ ItemOK' /\ SeenOK'
<1>1. CASE item' = NoItem
  BY <1>1, ItemGone
<1>2. CASE Follows(item, item', workers') /\ (~Clearing' => Bound(item', rows'))
  <2>1. item.kind # None
    BY VideoAssumption DEF Items, Kinds
  <2>2. item # NoItem /\ item.slot < nextSlot /\ item.worker \in workers \cup {None}
    BY <2>1 DEF ItemOK, NoItem
  <2>3. nextSlot \in Nat /\ nextSlot' \in Nat /\ item.slot \in Nat /\ workers' \subseteq Cameras
    BY TypeParts DEF GridTypes, Items, Slots
  <2>4. item'.slot < nextSlot' /\ StreamFollows(item, item', workers')
    BY <1>2, <2>2, <2>3 DEF Follows
  <2> QED
    BY <1>2, <2>2, <2>3, <2>4, ItemFollows
<1> QED
  BY <1>1, <1>2

\* Only deleting a worker loses its count.
LEMMA FramesStep ==
  ASSUME TypeOK, TodoOK, GridOK, [Next]_vars
  PROVE  FramesGrow
<1>0. /\ video \in [Cameras -> Videos] /\ workers \subseteq Cameras
      /\ \A c \in Cameras : video[c].frameSeq \in Int
  BY TypeParts DEF VideoTypes, Videos, GridTypes
<1>1. CASE UNCHANGED video
  BY <1>0, <1>1 DEF FramesGrow
<1>2. CASE \E rs : \E i : registerSlots(rs, i)
  BY <1>0, <1>2 DEF FramesGrow, registerSlots
<1>3. ASSUME NEW c, NEW w, video' = [video EXCEPT ![c] = w],
             c \in Cameras => c \notin workers' \/ w.frameSeq >= video[c].frameSeq
      PROVE  FramesGrow
  <2>1. \A d \in Cameras : video'[d] = IF d = c THEN w ELSE video[d]
    BY <1>0, <1>3
  <2>2. \A d \in Cameras \cap workers' : video'[d].frameSeq >= video[d].frameSeq
    BY <1>0, <1>3, <2>1
  <2> QED
    BY <1>0, <2>2 DEF FramesGrow
<1>4. CASE StopThread
  <2> DEFINE c == Head(todo).cam
             w == [video[c] EXCEPT !.stopThread = TRUE]
  <2>1. video' = [video EXCEPT ![c] = w]
    BY <1>4 DEF StopThread
  <2> HIDE DEF c
  <2>2. c \in Cameras => w.frameSeq >= video[c].frameSeq
    BY <1>0 DEF Videos
  <2> HIDE DEF w
  <2> QED
    BY <1>3, <2>1, <2>2
<1>5. CASE RestartWorker
  <2> DEFINE c == Head(todo).cam
             v == [video[c] EXCEPT !.decoder = "none"]
             w == Started(v, c)
  <2>1. video' = [video EXCEPT ![c] = w]
    BY <1>5 DEF RestartWorker
  <2> HIDE DEF c
  <2>2. c \in Cameras => w.frameSeq >= video[c].frameSeq
    BY <1>0 DEF Videos, Started
  <2> HIDE DEF w
  <2> QED
    BY <1>3, <2>1, <2>2
<1>6. CASE DeleteWorker
  <2> DEFINE c == Head(todo).cam
  <2>1. PICK w : video' = [video EXCEPT ![c] = w]
    BY <1>6 DEF DeleteWorker
  <2>2. c \notin workers'
    BY <1>6 DEF DeleteWorker
  <2> HIDE DEF c
  <2> QED
    BY <1>3, <2>1, <2>2
<1>7. ASSUME NEW c \in Cameras, NEW d, SetDecoder(c, d) PROVE FramesGrow
  <2> DEFINE w == [video[c] EXCEPT !.decoder = d]
  <2>1. video' = [video EXCEPT ![c] = w]
    BY <1>7 DEF SetDecoder
  <2>2. w.frameSeq >= video[c].frameSeq
    BY <1>0 DEF Videos
  <2> HIDE DEF w
  <2> QED
    BY <1>3, <2>1, <2>2
<1>8. ASSUME NEW c \in Cameras, onFrameReady(c) PROVE FramesGrow
  <2>1. PICK w : /\ video' = [video EXCEPT ![c] = w]
                 /\ w.frameSeq >= video[c].frameSeq
    <3>1. CASE video[c].decoder = "frames"
      <4> DEFINE w == [video[c] EXCEPT !.latest = video[c].latest + 1, !.decoder = "stored"]
      <4>1. video' = [video EXCEPT ![c] = w]
        BY <1>0, <1>8, <3>1 DEF onFrameReady
      <4>2. w.frameSeq >= video[c].frameSeq
        BY <1>0 DEF Videos
      <4> HIDE DEF w
      <4> QED
        BY <4>1, <4>2
    <3>2. CASE video[c].decoder = "stored"
      <4> DEFINE w == [video[c] EXCEPT !.frameSeq = video[c].frameSeq + 1, !.decoder = "frames"]
      <4>1. video' = [video EXCEPT ![c] = w]
        BY <1>0, <1>8, <3>2 DEF onFrameReady
      <4>2. w.frameSeq >= video[c].frameSeq
        BY <1>0 DEF Videos
      <4> HIDE DEF w
      <4> QED
        BY <4>1, <4>2
    <3> QED
      BY <1>8, <3>1, <3>2 DEF onFrameReady
  <2> QED
    BY <1>3, <2>1
<1>9. /\ \A s \in DOMAIN rows : splitSlot(s) \/ mergeSlots(s) =>
           \E rs : \E i : registerSlots(rs, i)
      /\ InsertRows => \E rs : \E i : registerSlots(rs, i)
  BY DEF splitSlot, mergeSlots, InsertRows
<1>10. (\E a, b \in DOMAIN rows : swapSlots(a, b)) => UNCHANGED video
  BY DEF swapSlots
<1>11. CameraList \/ logoutRequested \/ ViewStep => UNCHANGED video
  BY DEF CameraList, onStoreUpdated, logoutRequested, ViewStep, CreateItem, CloseItem,
    ReuseCard
<1>12. GoOffline \/ ClearGrid \/ getLatestFrame \/ timerEvent => UNCHANGED video
  BY DEF GoOffline, ClearGrid, getLatestFrame, timerEvent
<1>13. UNCHANGED vars => UNCHANGED video
  BY DEF vars
<1>14. ASSUME NEW c \in Cameras, DecoderStep(c) \/ NetworkStep(c)
       PROVE  onFrameReady(c) \/ \E d : SetDecoder(c, d)
  BY <1>14 DEF DecoderStep, NetworkStep, SleepEnds, PacketDone, OpenFails, ReadEnds,
    Opened, Packet
<1> QED
  BY <1>1, <1>2, <1>4, <1>5, <1>6, <1>7, <1>8, <1>9, <1>10, <1>11, <1>12, <1>13, <1>14
     DEF Next, GridStep, HandlerStep

\* Where there is no item none comes by itself.
LEMMA NoItemStays ==
  ASSUME NEW s, NEW c, NEW rs, NEW new, NEW ws, NEW map
  PROVE  /\ DataChanged(NoItem, s, rs, ws, map) = NoItem
         /\ RowsChanged(NoItem, rs, ws, map) = NoItem
         /\ onWorkerRegistered(NoItem, c, ws, map) = NoItem
         /\ Registered(NoItem, new, ws, map) = NoItem
         /\ WithoutGoneCard(NoItem, rs) = NoItem
<1>1. NoItem.kind = None /\ None \notin {"card", "list", "window"}
  BY VideoAssumption DEF NoItem
<1> QED
  BY <1>1 DEF DataChanged, RowsChanged, onWorkerRegistered, Registered, WithoutGoneCard, Shows

\* What there is to say about the item before a step of its handler.
ItemBefore ==
  /\ item \in Items /\ item.slot < nextSlot /\ item.slot \in Nat
  /\ item.worker \in workers \cup {None}

\* Either no handler of an item is under way, or its item is well formed and, unless
\* the grid is being cleared, bound to its row.
LEMMA ItemThere ==
  ASSUME TypeOK, ItemOK
  PROVE  \/ item = NoItem
         \/ ItemBefore /\ (~Clearing => Bound(item, rows))
BY TypeParts, VideoAssumption DEF ItemTypes, ItemBefore, ItemOK, Items, Kinds, Slots

\* swapSlots: VideoManager knows the new places when the items of the two rows are
\* told, so that each finds the camera that is in its row now.
LEMMA SwapItem ==
  ASSUME GridTypes, GridOK, todo = <<>>, ItemBefore, Bound(item, rows),
         NEW a \in DOMAIN rows, NEW b \in DOMAIN rows, swapSlots(a, b)
  PROVE  Follows(item, item', workers') /\ Bound(item', rows')
<1> DEFINE new == Swapped(a, b)
           map == SlotMap(new)
           ia == DataChanged(item, a, new, workers, map)
<1>1. /\ rows' = new /\ workers' = workers /\ a # b
      /\ item' = DataChanged(ia, b, new, workers, map)
  BY DEF swapSlots, Swapped
<1>2. /\ RowsOK(new) /\ DOMAIN new = DOMAIN rows /\ CamerasOf(new) \subseteq workers
      /\ MapOK(map) /\ \A q \in DOMAIN rows \ {a, b} : new[q] = rows[q]
  BY SwapFacts, NothingToDo DEF GridOK
<1>3. workers \in SUBSET Cameras
  BY DEF GridTypes
<1> HIDE DEF new
<1>4. \A i : i.slot = item.slot => Told(i, rows, new, workers, map)
  BY <1>2 DEF Told, SlotMap, CamerasOf
<1> HIDE DEF map, ia
<1>5. CASE item.slot = b
  <2>1. ia = item
    BY <1>1, <1>5 DEF ia, DataChanged
  <2> QED
    BY <1>1, <1>2, <1>3, <1>4, <1>5, <2>1, DataChangedFacts DEF ItemBefore
<1>6. CASE item.slot # b
  <2>1. item.slot \in DOMAIN new /\ item.slot # a => new[item.slot] = rows[item.slot]
    BY <1>2, <1>6
  <2>2. Follows(item, ia, workers) /\ Bound(ia, new)
    BY <1>2, <1>3, <1>4, <2>1, DataChangedFacts DEF ItemBefore, ia
  <2>3. item' = ia
    BY <1>1, <1>6, <2>2 DEF DataChanged, Follows
  <2> QED
    BY <1>1, <2>2, <2>3
<1> QED
  BY <1>5, <1>6

\* The rows change and are registered: an item whose row stays as it was stays with it.
LEMMA RowsItem ==
  ASSUME GridTypes, ~Clearing, GridOK, NEW i \in Items, i.worker \in workers \cup {None},
         NEW old, Bound(i, old), NEW rs, RowsOK(rs),
         i.slot \in DOMAIN rs => /\ i.slot \in DOMAIN old /\ rs[i.slot] = old[i.slot]
                                /\ i.slot \in DOMAIN rows /\ rs[i.slot] = rows[i.slot]
  PROVE  /\ Follows(i, RowsChanged(i, rs, workers, slotToCameraId_), workers)
         /\ Bound(RowsChanged(i, rs, workers, slotToCameraId_), rs)
<1>1. slotToCameraId_ = SlotMap(rows) /\ CamerasOf(rows) \subseteq workers
  BY DEF GridOK
<1>2. Told(i, old, rs, workers, slotToCameraId_)
  BY <1>1 DEF Told, SlotMap, CamerasOf
<1>3. workers \in SUBSET Cameras /\ MapOK(slotToCameraId_)
  BY DEF GridTypes
<1> QED
  BY <1>2, <1>3, RowsChangedFacts

\* splitSlot: a window of the row that was split goes back to its source, and no other
\* item notices.
LEMMA SplitItem ==
  ASSUME GridTypes, GridOK, todo = <<>>, ItemBefore, Bound(item, rows),
         NEW s \in DOMAIN rows, splitSlot(s)
  PROVE  item' = NoItem \/ (Follows(item, item', workers') /\ Bound(item', rows'))
<1> DEFINE removed == [q \in DOMAIN rows \ {s} |-> rows[q]]
           new == Split(s)
           i1 == RowsChanged(item, removed, workers, slotToCameraId_)
           i2 == RowsChanged(i1, new, workers, slotToCameraId_)
<1>1. rows' = new /\ registerSlots(new, i2) /\ nextSlot + 2 <= MaxSlots
  <2>1. DOMAIN removed = DOMAIN rows \ {s}
    OBVIOUS
  <2> QED
    BY <2>1 DEF splitSlot, Split
<1>2. ~Clearing
  BY NothingToDo
<1>3. /\ RowsOK(new)
      /\ \A q \in DOMAIN new : q < nextSlot => q \in DOMAIN rows /\ new[q] = rows[q]
      /\ \A q \in DOMAIN new : q < nextSlot => q # s
  <2>1. s # nextSlot /\ s # nextSlot + 1 /\ s \notin DOMAIN new
    BY DEF GridOK, GridTypes, RowsOK, Slots, Split
  <2> QED
    BY <1>1, <2>1, SplitFacts DEF GridOK
<1>4. /\ RowsOK(removed) /\ DOMAIN removed = DOMAIN rows \ {s}
      /\ \A q \in DOMAIN removed : removed[q] = rows[q]
  BY DEF GridTypes, RowsOK
<1> HIDE DEF removed, new, i1, i2
<1>5. Follows(item, i1, workers) /\ Bound(i1, removed)
  BY <1>2, <1>4, RowsItem DEF ItemBefore, i1
<1>6. i1 \in Items /\ i1.slot = item.slot /\ i1.worker \in workers \cup {None}
  BY <1>5 DEF Follows, StreamFollows
<1>7. i1.slot \in DOMAIN new => /\ i1.slot \in DOMAIN removed
                                /\ new[i1.slot] = removed[i1.slot]
                                /\ i1.slot \in DOMAIN rows /\ new[i1.slot] = rows[i1.slot]
  BY <1>3, <1>4, <1>6 DEF ItemBefore
<1>8. Follows(i1, i2, workers) /\ Bound(i2, new)
  BY <1>2, <1>3, <1>5, <1>6, <1>7, RowsItem DEF i2
<1>9. Follows(item, i2, workers)
  BY <1>5, <1>8, FollowsTransitive
<1>10. item' = NoItem \/ (Follows(i2, item', workers') /\ Bound(item', new))
  BY <1>1, <1>3, <1>8, RegisterItem DEF Follows, StreamFollows
<1> QED
  BY <1>1, <1>9, <1>10, FollowsTransitive

\* mergeSlots: the tile that stays is the same row; the windows of the others go back
\* to their source, and the cards go.
LEMMA MergeItem ==
  ASSUME GridTypes, GridOK, todo = <<>>, ItemBefore, Bound(item, rows),
         NEW s \in DOMAIN rows, mergeSlots(s)
  PROVE  item' = NoItem \/ (Follows(item, item', workers') /\ Bound(item', rows'))
<1> DEFINE new == Merged(s)
           i1 == RowsChanged(item, new, workers, slotToCameraId_)
           i2 == DataChanged(i1, s, new, workers, slotToCameraId_)
<1>1. rows' = new /\ registerSlots(new, i2)
  BY DEF mergeSlots, Merged
<1>2. ~Clearing
  BY NothingToDo
<1>3. RowsOK(new) /\ \A q \in DOMAIN new : q \in DOMAIN rows /\ new[q] = rows[q]
  BY MergeFacts
<1> HIDE DEF new, i1, i2
<1>4. Follows(item, i1, workers) /\ Bound(i1, new)
  BY <1>2, <1>3, RowsItem DEF ItemBefore, i1
<1>5. i1 \in Items /\ i1.slot = item.slot /\ i1.worker \in workers \cup {None}
  BY <1>4 DEF Follows, StreamFollows
<1>6. slotToCameraId_ = SlotMap(rows) /\ CamerasOf(rows) \subseteq workers
  BY <1>2 DEF GridOK
<1>7. Told(i1, new, new, workers, slotToCameraId_)
  BY <1>3, <1>6 DEF Told, SlotMap, CamerasOf
<1>8. workers \in SUBSET Cameras /\ MapOK(slotToCameraId_)
  BY DEF GridTypes
<1>9. Follows(i1, i2, workers) /\ Bound(i2, new)
  BY <1>3, <1>4, <1>5, <1>7, <1>8, DataChangedFacts DEF i2
<1>10. Follows(item, i2, workers)
  BY <1>4, <1>9, FollowsTransitive
<1>11. item' = NoItem \/ (Follows(i2, item', workers') /\ Bound(item', new))
  BY <1>1, <1>3, <1>9, RegisterItem DEF Follows, StreamFollows
<1> QED
  BY <1>1, <1>10, <1>11, FollowsTransitive

\* New rows come in slots that no item has had.
LEMMA InsertItem ==
  ASSUME GridTypes, GridOK, ~Clearing, ItemBefore, Bound(item, rows),
         NEW fresh \in Snapshots, nextSlot + Cardinality(DOMAIN fresh) <= MaxSlots,
         NEW order \in SetToSeqs(DOMAIN fresh), NEW i,
         i = item \/ i = RowsChanged(item, Inserted(order, fresh), workers, slotToCameraId_),
         registerSlots(Inserted(order, fresh), i)
  PROVE  item' = NoItem
           \/ (Follows(item, item', workers') /\ Bound(item', Inserted(order, fresh)))
<1> DEFINE new == Inserted(order, fresh)
<1>1. /\ RowsOK(new)
      /\ \A q \in DOMAIN new : q < nextSlot => q \in DOMAIN rows /\ new[q] = rows[q]
  BY InsertFacts DEF GridOK
<1> HIDE DEF new
<1>2. item.slot \in DOMAIN new => item.slot \in DOMAIN rows /\ new[item.slot] = rows[item.slot]
  BY <1>1 DEF ItemBefore
<1>3. Follows(item, i, workers) /\ Bound(i, new)
  <2>1. CASE i = item
    BY <1>2, <2>1, FollowsSelf DEF ItemBefore, Bound
  <2>2. CASE i = RowsChanged(item, new, workers, slotToCameraId_)
    BY <1>1, <1>2, <2>2, RowsItem DEF ItemBefore
  <2> QED
    BY <2>1, <2>2 DEF new
<1>4. item' = NoItem \/ (Follows(i, item', workers') /\ Bound(item', new))
  BY <1>1, <1>3, RegisterItem DEF Follows, StreamFollows, new
<1> QED
  BY <1>3, <1>4, FollowsTransitive DEF new

\* A card that is reused for another row finds the worker of that row, in whichever
\* order its properties change.
LEMMA ReuseItem ==
  ASSUME GridTypes, GridOK, todo = <<>>, ItemBefore, Bound(item, rows),
         NEW s \in DOMAIN rows, ReuseCard(s)
  PROVE  StreamFollows(item, item', workers) /\ item'.slot = s /\ Bound(item', rows)
<1> DEFINE c == rows[s].cam
           ws == workers
           map == slotToCameraId_
           k == [item EXCEPT !.slot = s]
           k1 == tryAttach(k, ws, map)
           one == setCameraId(k1, c, ws, map)
           m == setCameraId(item, c, ws, map)
           m1 == [m EXCEPT !.slot = s]
           two == tryAttach(m1, ws, map)
<1>1. item' \in {one, two} /\ item.kind = "card" /\ rows[s].online
  BY DEF ReuseCard
<1>2. /\ ws \in SUBSET Cameras /\ MapOK(map) /\ c \in Cameras /\ c \in ws
      /\ s \in DOMAIN map /\ map[s] = c /\ s \in Slots
  <2>1. map = SlotMap(rows) /\ CamerasOf(rows) \subseteq ws
    BY NothingToDo DEF GridOK
  <2> QED
    BY <2>1 DEF GridTypes, RowsOK, Row, SlotMap, CamerasOf
<1> HIDE DEF c, ws, map
<1>3. item \in Items /\ item.worker \in ws \cup {None}
  BY DEF ItemBefore, ws
<1>4. /\ k \in Items /\ k.slot = s /\ k.kind = "card" /\ k.worker = item.worker
      /\ k.active = item.active /\ k.lastSeq = item.lastSeq /\ k.shown = item.shown
  BY <1>1, <1>2, <1>3 DEF Items
<1> HIDE DEF k
<1>5. /\ Follows(k, k1, ws) /\ k1.worker = Found(k, ws, map)
  BY <1>2, <1>3, <1>4, AttachFacts
<1>6. k1.worker = c
  BY <1>2, <1>4, <1>5, FoundFacts
<1>7. k1 \in Items /\ k1.slot = s /\ k1.worker \in ws \cup {None}
  BY <1>4, <1>5 DEF Follows, StreamFollows
<1> HIDE DEF k1
<1>8. Follows(k1, one, ws) /\ one.camera = c /\ one.worker = c
  BY <1>2, <1>6, <1>7, CameraFacts
<1> HIDE DEF one
<1>9. Follows(k, one, ws)
  BY <1>5, <1>8, FollowsTransitive
<1>10. StreamFollows(item, one, ws) /\ one.slot = s
  BY <1>4, <1>9 DEF Follows, StreamFollows
<1>11. Follows(item, m, ws) /\ m.camera = c
  <2>1. ws \in SUBSET Cameras /\ MapOK(map) /\ c \in Cameras
    BY <1>2
  <2> QED
    BY <1>3, <2>1, CameraFacts
<1> HIDE DEF m
<1>12. /\ m1 \in Items /\ m1.slot = s /\ m1.camera = c /\ m1.worker = m.worker
       /\ m1.active = m.active /\ m1.lastSeq = m.lastSeq /\ m1.shown = m.shown
       /\ m.worker \in ws \cup {None}
  BY <1>2, <1>11 DEF Follows, StreamFollows, Items
<1> HIDE DEF m1
<1>13. /\ Follows(m1, two, ws) /\ two.worker = Found(m1, ws, map) /\ two.camera = c
  BY <1>2, <1>12, AttachFacts
<1>14. two.worker = c
  BY <1>2, <1>12, <1>13, FoundFacts
<1> HIDE DEF two
<1>15. StreamFollows(item, m1, ws)
  BY <1>11, <1>12 DEF Follows, StreamFollows
<1>16. StreamFollows(item, two, ws) /\ two.slot = s
  BY <1>12, <1>13, <1>15 DEF Follows, StreamFollows
<1> QED
  BY <1>1, <1>8, <1>10, <1>13, <1>14, <1>16 DEF Bound, c, ws

\* A new card, or a window that is detached, is bound to the row it is made for.
LEMMA CreateFacts ==
  ASSUME GridTypes, GridOK, NEW kind \in Kinds, NEW s \in DOMAIN rows, CreateItem(kind, s)
  PROVE  \E i \in Items : ~i.active /\ i.slot = s /\ Follows(i, item', workers)
                            /\ Bound(item', rows)
<1> DEFINE src == IF kind = "window" THEN rows[s] ELSE NoRow
           i == [kind |-> kind, slot |-> s, camera |-> rows[s].cam, source |-> src,
                 active |-> FALSE, worker |-> None,
                 lastSeq |-> 0, shown |-> <<None, 0>>, listening |-> FALSE]
<1>1. /\ item' = Refresh(i, rows, workers, slotToCameraId_) /\ todo = <<>>
  BY DEF CreateItem
<1>2. src \in Row \cup {NoRow} /\ rows[s].cam \in Cameras /\ s \in Slots
  BY DEF GridTypes, RowsOK, Row
<1> HIDE DEF src
<1>3. 0 \in 0..MaxFrames /\ <<None, 0>> \in (Cameras \cup {None}) \X (0..MaxFrames)
  BY VideoAssumption
<1>4. i \in Items /\ ~i.active /\ i.slot = s /\ i.worker = None
  BY <1>2, <1>3 DEF Items
<1> HIDE DEF i
<1>5. slotToCameraId_ = SlotMap(rows) /\ CamerasOf(rows) \subseteq workers
  BY <1>1, NothingToDo DEF GridOK
<1>6. /\ workers \in SUBSET Cameras /\ MapOK(slotToCameraId_) /\ RowsOK(rows)
      /\ rows[s].cam \in workers /\ slotToCameraId_[s] = rows[s].cam
  BY <1>5 DEF GridTypes, SlotMap, CamerasOf
<1>7. /\ Follows(i, Refresh(i, rows, workers, slotToCameraId_), workers)
      /\ Bound(Refresh(i, rows, workers, slotToCameraId_), rows)
  BY <1>4, <1>6, RefreshFacts
<1> QED
  BY <1>1, <1>4, <1>7

\* A row that goes online or offline takes its item with it.
LEMMA OnlineItem ==
  ASSUME GridTypes, GridOK, ~Clearing, ItemBefore, Bound(item, rows),
         NEW s \in DOMAIN rows, NEW b \in BOOLEAN,
         DOMAIN rows' = DOMAIN rows, rows'[s] = [rows[s] EXCEPT !.online = b],
         \A q \in DOMAIN rows \ {s} : rows'[q] = rows[q],
         NEW i, Follows(item, i, workers), Bound(i, rows),
         item' = DataChanged(i, s, rows', workers, slotToCameraId_)
  PROVE  Follows(item, item', workers) /\ Bound(item', rows')
<1>2. /\ RowsOK(rows') /\ SlotMap(rows') = SlotMap(rows) /\ CamerasOf(rows') = CamerasOf(rows)
  <2>1. RowsOK(rows)
    BY DEF GridTypes
  <2> QED
    BY <2>1, OnlineFacts
<1>3. slotToCameraId_ = SlotMap(rows) /\ CamerasOf(rows) \subseteq workers
  BY DEF GridOK
<1>4. Told(i, rows, rows', workers, slotToCameraId_)
  <2>1. i.slot \in DOMAIN rows' => rows'[i.slot].cam \in workers /\ i.slot \in DOMAIN rows
    BY <1>2, <1>3 DEF CamerasOf
  <2>2. slotToCameraId_ = SlotMap(rows')
    BY <1>2, <1>3
  <2>3. i.slot \in DOMAIN rows' => slotToCameraId_[i.slot] = rows'[i.slot].cam
    BY <2>2 DEF SlotMap
  <2> QED
    BY <2>1, <2>3 DEF Told
<1>5. workers \in SUBSET Cameras /\ MapOK(slotToCameraId_)
  BY DEF GridTypes
<1>6. i \in Items /\ i.worker \in workers \cup {None}
  BY DEF Follows, StreamFollows
<1>7. Follows(i, item', workers) /\ Bound(item', rows')
  BY <1>2, <1>4, <1>5, <1>6, DataChangedFacts
<1> QED
  BY <1>7, FollowsTransitive

\* The item while its decoder or the handler goes on without it.
LEMMA ItemSame ==
  ASSUME TypeOK, VideoTypes', ItemOK, SeenOK, FramesGrow,
         UNCHANGED <<rows, nextSlot, workers, item, todo>>
  PROVE  ItemTypes' /\ ItemOK' /\ SeenOK'
<1>1. ItemTypes' /\ (Clearing' <=> Clearing)
  BY TypeParts DEF ItemTypes, Clearing
<1>2. ItemOK'
  BY <1>1 DEF ItemOK
<1>3. ASSUME Shows(item), item.worker # None
      PROVE  item.lastSeq <= video'[item.worker].frameSeq
  <2>1. item \in Items
    BY <1>3, TypeParts DEF ItemTypes, Shows, NoItem
  <2>2. item.kind # None
    BY VideoAssumption, <2>1 DEF Items, Kinds
  <2>3. item.worker \in workers /\ item.worker \in Cameras /\ item.lastSeq \in Int
    BY <1>3, <2>1, <2>2 DEF ItemOK, Items
  <2>4. video'[item.worker].frameSeq >= video[item.worker].frameSeq
    BY <2>3 DEF FramesGrow
  <2>5. video'[item.worker].frameSeq \in Int /\ video[item.worker].frameSeq \in Int
    BY <2>3, TypeParts DEF VideoTypes, Videos
  <2>6. item.lastSeq <= video[item.worker].frameSeq
    BY <1>3 DEF SeenOK
  <2> QED
    BY <2>3, <2>4, <2>5, <2>6
<1>4. SeenOK'
  BY <1>3 DEF SeenOK, Shows
<1> QED
  BY <1>1, <1>2, <1>4

\* After every step the item is bound to its row, and has shown what it has seen.
LEMMA ItemStep ==
  ASSUME VideoInv, [Next]_vars
  PROVE  ItemTypes' /\ ItemOK' /\ SeenOK'
<1>0. /\ TypeOK /\ TodoOK /\ GridOK /\ FramesOK /\ ItemOK /\ SeenOK /\ DecoderHasWorker
      /\ GridTypes /\ VideoTypes
  BY TypeParts DEF VideoInv
<1>1. GridTypes' /\ GridOK' /\ TodoOK' /\ VideoTypes' /\ FramesGrow
  BY <1>0, GridInvStep, DecodersStep, FramesStep DEF DecodersOK
<1>2. \/ item = NoItem
      \/ item \in Items /\ ItemBefore /\ (~Clearing => Bound(item, rows))
  BY <1>0, ItemThere DEF ItemBefore
<1>3. ASSUME todo # <<Fetch>>, todo' # <<Fetch>>, nextSlot <= nextSlot',
             item = NoItem => item' = NoItem,
             ItemBefore => item' = NoItem \/ (Follows(item, item', workers')
                                                /\ (~Clearing' => Bound(item', rows')))
      PROVE  ItemTypes' /\ ItemOK' /\ SeenOK'
  <2>1. CASE item = NoItem
    BY <1>3, <2>1, ItemGone
  <2>2. CASE ItemBefore
    BY <1>0, <1>1, <1>3, <2>2, ItemKept DEF ItemBefore
  <2> QED
    BY <1>2, <2>1, <2>2
<1>4. ItemBefore /\ ~Clearing => Bound(item, rows)
  BY <1>2, VideoAssumption DEF ItemBefore, Items, Kinds, NoItem
<1>5. nextSlot \in Nat /\ nextSlot <= nextSlot
  BY <1>0 DEF GridTypes
<1>6. ASSUME NEW a \in DOMAIN rows, NEW b \in DOMAIN rows, swapSlots(a, b)
      PROVE  ItemTypes' /\ ItemOK' /\ SeenOK'
  <2>1. todo = <<>> /\ todo' = <<>> /\ nextSlot' = nextSlot
    BY <1>6 DEF swapSlots
  <2>2. todo # <<Fetch>> /\ todo' # <<Fetch>> /\ ~Clearing
    BY <2>1, NothingToDo
  <2>3. item = NoItem => item' = NoItem
    BY <1>6, NoItemStays DEF swapSlots
  <2>4. ItemBefore => Follows(item, item', workers') /\ Bound(item', rows')
    BY <1>0, <1>4, <1>6, <2>1, <2>2, SwapItem
  <2> QED
    BY <1>3, <1>5, <2>1, <2>2, <2>3, <2>4
<1>7. ASSUME NEW s \in DOMAIN rows, splitSlot(s) PROVE ItemTypes' /\ ItemOK' /\ SeenOK'
  <2>1. todo = <<>> /\ todo' = <<>> /\ nextSlot' = nextSlot + 2
    BY <1>7 DEF splitSlot
  <2>2. todo # <<Fetch>> /\ todo' # <<Fetch>> /\ ~Clearing /\ nextSlot <= nextSlot'
    BY <1>5, <2>1, NothingToDo
  <2>3. item = NoItem => item' = NoItem
    <3>1. PICK i, rs, qs : /\ i = RowsChanged(RowsChanged(item, qs, workers, slotToCameraId_),
                                              rs, workers, slotToCameraId_)
                           /\ registerSlots(rs, i)
      BY <1>7 DEF splitSlot
    <3>2. item = NoItem => i = NoItem
      BY <3>1, NoItemStays
    <3> QED
      BY <3>1, <3>2, NoItemStays DEF registerSlots
  <2>4. ItemBefore => item' = NoItem \/ (Follows(item, item', workers') /\ Bound(item', rows'))
    BY <1>0, <1>4, <1>7, <2>1, <2>2, SplitItem
  <2> QED
    BY <1>3, <2>2, <2>3, <2>4
<1>8. ASSUME NEW s \in DOMAIN rows, mergeSlots(s) PROVE ItemTypes' /\ ItemOK' /\ SeenOK'
  <2>1. todo = <<>> /\ todo' = <<>> /\ nextSlot' = nextSlot
    BY <1>8 DEF mergeSlots
  <2>2. todo # <<Fetch>> /\ todo' # <<Fetch>> /\ ~Clearing
    BY <2>1, NothingToDo
  <2>3. item = NoItem => item' = NoItem
    BY <1>8, NoItemStays DEF mergeSlots, registerSlots
  <2>4. ItemBefore => item' = NoItem \/ (Follows(item, item', workers') /\ Bound(item', rows'))
    BY <1>0, <1>4, <1>8, <2>1, <2>2, MergeItem
  <2> QED
    BY <1>3, <1>5, <2>1, <2>2, <2>3, <2>4
<1>9. CASE CameraList
  <2>1. PICK snapshot \in Snapshots :
          /\ nextSlot + Cardinality(DOMAIN snapshot \ CamerasOf(rows)) <= MaxSlots
          /\ onStoreUpdated(snapshot)
    BY <1>9 DEF CameraList
  <2>2. todo' # <<Fetch>> /\ ~Clearing'
    BY <1>0, <2>1, UpdatePlanned
  <2>3. todo = <<>> /\ UNCHANGED <<rows, nextSlot, workers, item>>
    BY <2>1 DEF onStoreUpdated, grid, manager
  <2>4. todo # <<Fetch>> /\ ~Clearing
    BY <2>3, NothingToDo
  <2>5. ItemBefore => Follows(item, item', workers') /\ Bound(item', rows')
    BY <1>4, <2>3, <2>4, FollowsSelf DEF ItemBefore
  <2> QED
    BY <1>3, <1>5, <2>2, <2>3, <2>4, <2>5
<1>10. CASE logoutRequested
  <2>1. todo' # <<Fetch>> /\ Clearing'
    BY <1>0, <1>10, LogoutPlanned
  <2>2. todo = <<>> /\ UNCHANGED <<rows, nextSlot, workers>> /\ item' \in {item, NoItem}
    BY <1>10 DEF logoutRequested, grid, manager
  <2>3. todo # <<Fetch>>
    BY <2>2
  <2>4. ItemBefore => Follows(item, item, workers)
    BY FollowsSelf DEF ItemBefore
  <2> QED
    BY <1>3, <1>5, <2>1, <2>2, <2>3, <2>4
<1>11. ASSUME NEW kind \in Kinds, NEW s \in DOMAIN rows, CreateItem(kind, s)
       PROVE  ItemTypes' /\ ItemOK' /\ SeenOK'
  <2>1. todo = <<>> /\ todo' = <<>> /\ UNCHANGED <<rows, nextSlot, workers>>
    BY <1>11 DEF CreateItem, grid, manager
  <2>2. todo # <<Fetch>> /\ todo' # <<Fetch>>
    BY <2>1
  <2>3. PICK i \in Items : ~i.active /\ i.slot = s /\ Follows(i, item', workers)
                            /\ Bound(item', rows)
    BY <1>0, <1>11, CreateFacts
  <2>4. item'.slot < nextSlot' /\ StreamFollows(i, item', workers')
    BY <1>0, <2>1, <2>3 DEF GridOK, Follows
  <2>5. nextSlot' \in Nat /\ workers' \subseteq Cameras
    BY <1>1 DEF GridTypes
  <2> QED
    BY <1>0, <1>1, <2>1, <2>2, <2>3, <2>4, <2>5, ItemFollows
<1>12. CASE CloseItem
  BY <1>12, ItemGone DEF CloseItem
<1>13. ASSUME NEW s \in DOMAIN rows, ReuseCard(s) PROVE ItemTypes' /\ ItemOK' /\ SeenOK'
  <2>1. todo = <<>> /\ todo' = <<>> /\ UNCHANGED <<rows, nextSlot, workers>>
        /\ item.kind = "card"
    BY <1>13 DEF ReuseCard, grid, manager
  <2>2. todo # <<Fetch>> /\ todo' # <<Fetch>> /\ ~Clearing
    BY <2>1, NothingToDo
  <2>3. ItemBefore /\ item # NoItem /\ Bound(item, rows)
    BY <1>2, <1>4, <2>1, <2>2, VideoAssumption DEF NoItem
  <2>4. StreamFollows(item, item', workers') /\ item'.slot = s /\ Bound(item', rows')
    BY <1>0, <1>13, <2>1, <2>3, ReuseItem
  <2>5. nextSlot' \in Nat /\ workers' \subseteq Cameras /\ item'.slot < nextSlot'
    BY <1>0, <1>1, <2>1, <2>4 DEF GridTypes, GridOK
  <2>6. item \in Items /\ item.worker \in workers \cup {None}
    BY <2>3 DEF ItemBefore
  <2> QED
    BY <1>0, <1>1, <2>2, <2>3, <2>4, <2>5, <2>6, ItemFollows
<1>14. CASE RestartWorker \/ GoOffline
  <2> DEFINE s == Head(todo).slot
             c == Head(todo).cam
  <2>1. /\ todo # <<>> /\ Head(todo).op \in {"restart", "offline"} /\ todo' = Tail(todo)
        /\ UNCHANGED <<nextSlot, workers, slotToCameraId_>>
    BY <1>14 DEF RestartWorker, GoOffline, Doing, manager
  <2>2. ~Clearing /\ s \in DOMAIN rows /\ todo # <<Fetch>>
    BY <1>0, <2>1, NextOfHandler DEF UpdateStep
  <2>3. PICK b \in BOOLEAN : rows' = [rows EXCEPT ![s].online = b]
    BY <1>14, Zenon DEF RestartWorker, GoOffline
  <2>4. \E i \in {item, onWorkerRegistered(item, c, workers, slotToCameraId_)} :
          item' = DataChanged(i, s, rows', workers, slotToCameraId_)
    BY <1>14 DEF RestartWorker, GoOffline
  <2> HIDE DEF s, c
  <2>5. /\ DOMAIN rows' = DOMAIN rows /\ rows'[s] = [rows[s] EXCEPT !.online = b]
        /\ \A q \in DOMAIN rows \ {s} : rows'[q] = rows[q]
    BY <2>2, <2>3
  <2>6. RowsOK(rows) /\ slotToCameraId_ = SlotMap(rows) /\ CamerasOf(rows) \subseteq workers
    BY <1>0, <2>2 DEF GridTypes, GridOK
  <2>7. \A q \in DOMAIN rows : rows'[q].cam = rows[q].cam
    BY <2>2, <2>5, <2>6, OnlineFacts
  <2>8. todo' # <<Fetch>>
    BY <1>0, <2>1, <2>5, <2>7, PlanKept
  <2>9. item = NoItem => item' = NoItem
    BY <2>4, NoItemStays
  <2>10. ASSUME ItemBefore PROVE Follows(item, item', workers') /\ Bound(item', rows')
    <3>1. Bound(item, rows) /\ item \in Items /\ item.worker \in workers \cup {None}
      BY <1>4, <2>2, <2>10 DEF ItemBefore
    <3>2. workers \in SUBSET Cameras
      BY <1>0 DEF GridTypes
    <3>3. \A i \in {item, onWorkerRegistered(item, c, workers, slotToCameraId_)} :
            Follows(item, i, workers) /\ Bound(i, rows)
      BY <2>6, <3>1, <3>2, RegisteredFacts, FollowsSelf
    <3> QED
      BY <1>0, <2>1, <2>2, <2>4, <2>5, <2>10, <3>1, <3>3, OnlineItem
  <2> QED
    BY <1>3, <1>5, <2>1, <2>2, <2>8, <2>9, <2>10
<1>15. CASE DeleteWorker
  <2> DEFINE c == Head(todo).cam
             k == [item EXCEPT !.worker = None]
  <2>1. /\ todo # <<>> /\ Head(todo).op = "delete" /\ todo' = Tail(todo)
        /\ UNCHANGED <<rows, nextSlot, slotToCameraId_>> /\ workers' = workers \ {c}
        /\ item' = IF item.kind # None /\ item.worker = c THEN k ELSE item
    BY <1>15 DEF DeleteWorker, Doing, grid
  <2>2. todo # <<Fetch>> /\ todo' # <<Fetch>>
    BY <1>0, <2>1, NextOfHandler, PlanKept
  <2>3. Clearing'
    <3>1. todo' # <<>> /\ todo'[Len(todo')].op = "cleared" /\ todo' \in Seq(Steps)
      BY <1>0, <2>1, NextOfHandler
    <3>2. Len(todo') \in DOMAIN todo'
      BY <3>1
    <3> QED
      BY <3>1, <3>2 DEF Clearing, ClearStep
  <2> HIDE DEF c
  <2>4. item = NoItem => item' = NoItem
    BY <2>1 DEF NoItem
  <2>5. ASSUME ItemBefore PROVE Follows(item, item', workers')
    <3>1. item \in Items /\ item.worker \in workers \cup {None} /\ item.kind # None
      BY <2>5, VideoAssumption DEF ItemBefore, Items, Kinds
    <3>2. /\ k \in Items /\ k.kind = item.kind /\ k.slot = item.slot /\ k.source = item.source
          /\ k.worker = None
      BY <3>1 DEF Items
    <3> HIDE DEF k
    <3>3. CASE item.worker = c
      BY <2>1, <3>1, <3>2, <3>3 DEF Follows, StreamFollows
    <3>4. CASE item.worker # c
      BY <2>1, <3>1, <3>4 DEF Follows, StreamFollows
    <3> QED
      BY <3>3, <3>4
  <2> QED
    BY <1>3, <1>5, <2>1, <2>2, <2>3, <2>4, <2>5
<1>16. CASE InsertRows
  <2> DEFINE fresh == Head(todo).fresh
  <2>1. /\ todo # <<>> /\ Head(todo).op = "insert" /\ todo' = Tail(todo)
    BY <1>16 DEF InsertRows, Doing
  <2>2. PICK order \in SetToSeqs(DOMAIN fresh) :
          /\ rows' = Inserted(order, fresh) /\ nextSlot' = nextSlot + Len(order)
          /\ \E i : /\ \/ i = item
                     \/ i = RowsChanged(item, Inserted(order, fresh), workers, slotToCameraId_)
                  /\ registerSlots(Inserted(order, fresh), i)
    BY <1>16 DEF InsertRows, Inserted
  <2>3. /\ fresh \in Snapshots /\ nextSlot + Cardinality(DOMAIN fresh) <= MaxSlots
        /\ todo' = <<>> /\ ~Clearing /\ todo # <<Fetch>>
    BY <1>0, <2>1, NextOfHandler DEF UpdateStep
  <2>4. todo' # <<Fetch>>
    BY <2>3
  <2> HIDE DEF fresh
  <2>5. Len(order) \in Nat
    BY <1>0, <2>3, InsertFacts DEF GridOK
  <2>6. nextSlot <= nextSlot'
    BY <1>5, <2>2, <2>5
  <2>7. item = NoItem => item' = NoItem
    BY <2>2, NoItemStays DEF registerSlots
  <2>8. ItemBefore => item' = NoItem \/ (Follows(item, item', workers') /\ Bound(item', rows'))
    BY <1>0, <1>4, <2>2, <2>3, InsertItem
  <2> QED
    BY <1>3, <2>3, <2>4, <2>6, <2>7, <2>8
<1>17. CASE ClearGrid
  <2>1. item' = NoItem /\ todo # <<>> /\ Head(todo).op = "cleared" /\ todo' = Tail(todo)
    BY <1>17 DEF ClearGrid, Doing
  <2>2. todo' # <<Fetch>>
    BY <1>0, <2>1, PlanKept
  <2> QED
    BY <2>1, <2>2, ItemGone
<1>18. CASE timerEvent
  <2> DEFINE w == item.worker
             n == video[w].frameSeq
             k == [item EXCEPT !.lastSeq = n]
  <2>1. /\ todo = <<>> /\ Shows(item) /\ w # None /\ n > item.lastSeq /\ item' = k
        /\ todo' = <<Fetch>> /\ UNCHANGED <<rows, nextSlot, workers, video>>
    BY <1>18 DEF timerEvent, grid, manager
  <2>2. ItemBefore /\ ~Clearing /\ Bound(item, rows)
    BY <1>2, <1>4, <2>1, NothingToDo DEF Shows, NoItem
  <2>3. item \in Items /\ w \in Cameras
    BY <2>1, <2>2 DEF ItemBefore, Items
  <2>4. n \in 0..MaxFrames /\ item.lastSeq \in 0..MaxFrames
    BY <1>0, <2>3 DEF VideoTypes, Videos, Items
  <2> HIDE DEF n
  <2>5. /\ k \in Items /\ k.kind = item.kind /\ k.slot = item.slot /\ k.active = item.active
        /\ k.worker = w /\ k.camera = item.camera /\ k.lastSeq = n
    BY <2>3, <2>4 DEF Items
  <2> HIDE DEF k
  <2>6. ItemTypes'
    BY <2>1, <2>5 DEF ItemTypes
  <2>7. ItemOK'
    <3>1. item'.slot < nextSlot' /\ item'.worker \in workers' \cup {None}
      BY <2>1, <2>2, <2>5 DEF ItemBefore
    <3>2. Bound(item', rows')
      BY <2>1, <2>2, <2>5 DEF Bound
    <3> QED
      BY <3>1, <3>2 DEF ItemOK
  <2>8. SeenOK'
    <3>1. Shows(item)' /\ item'.worker # None /\ item'.lastSeq > 0
      BY <2>1, <2>4, <2>5 DEF Shows
    <3>2. item'.lastSeq <= video'[item'.worker].frameSeq
      BY <2>1, <2>4, <2>5 DEF n
    <3> QED
      BY <2>1, <3>1, <3>2 DEF SeenOK
  <2> QED
    BY <2>6, <2>7, <2>8
<1>19. CASE getLatestFrame
  <2> DEFINE w == item.worker
             v == video[w]
             sh == <<w, v.latest>>
             k == [item EXCEPT !.shown = sh]
  <2>1. /\ todo # <<>> /\ Head(todo).op = "fetch" /\ todo' = Tail(todo)
        /\ item' = (IF v.latest = 0 THEN item ELSE k)
        /\ UNCHANGED <<rows, nextSlot, workers, video>>
    BY <1>19 DEF getLatestFrame, Doing, grid, manager
  <2>2. todo = <<Fetch>> /\ ~Clearing /\ todo' # <<Fetch>>
    BY <1>0, <2>1, NextOfHandler, PlanKept
  <2>3. Shows(item) /\ w # None /\ item.lastSeq > 0 /\ item.lastSeq <= v.frameSeq
    BY <1>0, <2>2 DEF SeenOK
  <2>4. ItemBefore /\ Bound(item, rows)
    BY <1>2, <1>4, <2>2, <2>3 DEF Shows, NoItem
  <2>5. item \in Items /\ w \in Cameras
    BY <2>3, <2>4 DEF ItemBefore, Items
  <2>6. /\ v.latest \in 0..MaxFrames /\ v.frameSeq \in 0..MaxFrames
        /\ item.lastSeq \in 0..MaxFrames /\ v.latest >= v.frameSeq
    <3>1. v \in Videos /\ Counted(v)
      BY <1>0, <2>5 DEF VideoTypes, FramesOK
    <3> HIDE DEF v
    <3> QED
      BY <2>5, <3>1 DEF Videos, Counted, Items
  <2> HIDE DEF v, w
  <2>7. item' = k /\ v.latest >= item.lastSeq
    BY <2>1, <2>3, <2>6
  <2>8. /\ sh \in (Cameras \cup {None}) \X (0..MaxFrames) /\ sh[1] = w /\ sh[2] = v.latest
    BY <2>5, <2>6
  <2> HIDE DEF sh
  <2>9. /\ k \in Items /\ k.kind = item.kind /\ k.slot = item.slot /\ k.active = item.active
        /\ k.worker = w /\ k.camera = item.camera /\ k.lastSeq = item.lastSeq /\ k.shown = sh
    BY <2>5, <2>8 DEF Items, w
  <2> HIDE DEF k
  <2>10. ItemTypes'
    BY <2>7, <2>9 DEF ItemTypes
  <2>11. ItemOK'
    <3>1. item'.slot < nextSlot' /\ item'.worker \in workers' \cup {None}
      BY <2>1, <2>4, <2>7, <2>9 DEF ItemBefore, w
    <3>2. Bound(item', rows')
      BY <2>1, <2>4, <2>7, <2>9 DEF Bound, w
    <3> QED
      BY <3>1, <3>2 DEF ItemOK
  <2>12. SeenOK'
    BY <2>1, <2>2, <2>3, <2>7, <2>8, <2>9 DEF SeenOK, v
  <2> QED
    BY <2>10, <2>11, <2>12
<1>20. CASE UNCHANGED <<grid, manager, item, todo>>
  BY <1>0, <1>1, <1>20, ItemSame DEF grid, manager
<1>21. StopThread \/ UNCHANGED vars => UNCHANGED <<grid, manager, item, todo>>
  BY DEF StopThread, vars
<1>22. (\E c \in Cameras : DecoderStep(c) \/ NetworkStep(c)) =>
         UNCHANGED <<grid, manager, item, todo>>
  BY DEF DecoderStep, NetworkStep, SleepEnds, onFrameReady, PacketDone, OpenFails, ReadEnds,
    Opened, Packet, SetDecoder
<1> QED
  BY <1>6, <1>7, <1>8, <1>9, <1>10, <1>11, <1>12, <1>13, <1>14, <1>15, <1>16, <1>17, <1>18,
     <1>19, <1>20, <1>21, <1>22 DEF Next, GridStep, ViewStep, HandlerStep

-------------------------------------------------------------------------------
(* The theorems *)

\* VideoManager starts without rows, workers or items.
LEMMA VideoInit == Init => VideoInv
<1> SUFFICES ASSUME Init PROVE VideoInv
  OBVIOUS
<1>1. /\ rows = <<>> /\ nextSlot = 0 /\ workers = {} /\ slotToCameraId_ = <<>>
      /\ video = [c \in Cameras |-> NewVideo] /\ item = NoItem /\ todo = <<>>
  BY DEF Init
<1>2. DOMAIN rows = {} /\ DOMAIN slotToCameraId_ = {} /\ DOMAIN todo = {}
  BY <1>1
<1>3. TodoOK /\ ~Clearing /\ todo # <<Fetch>>
  BY <1>1, NothingToDo
<1>4. GridTypes /\ GridOK
  <2>1. slotToCameraId_ = SlotMap(rows) /\ CamerasOf(rows) = {}
    BY <1>1, <1>2 DEF SlotMap, CamerasOf
  <2> QED
    BY <1>1, <1>2, <2>1, VideoAssumption DEF GridTypes, GridOK, RowsOK, MapOK
<1>5. NewVideo \in Videos /\ Counted(NewVideo) /\ NewVideo.decoder = "none"
  <2>1. 0 \in 0..MaxFrames
    BY VideoAssumption
  <2> QED
    BY <2>1 DEF NewVideo, Videos, Decoders, Counted
<1> HIDE DEF NewVideo
<1>6. VideoTypes /\ FramesOK /\ DecoderHasWorker
  BY <1>1, <1>5 DEF VideoTypes, FramesOK, DecoderHasWorker
<1>7. ItemTypes /\ ItemOK /\ SeenOK
  BY <1>1, <1>3 DEF ItemTypes, ItemOK, SeenOK, NoItem, Shows
<1> QED
  BY <1>3, <1>4, <1>6, <1>7, TypeParts DEF VideoInv

\* Every step keeps the inductive invariant, part by part.
LEMMA VideoStep == VideoInv /\ [Next]_vars => VideoInv'
<1> SUFFICES ASSUME VideoInv, [Next]_vars PROVE VideoInv'
  OBVIOUS
<1>1. TypeOK /\ GridOK /\ TodoOK /\ DecodersOK
  BY TypeParts DEF VideoInv, DecodersOK
<1>2. GridTypes' /\ GridOK' /\ TodoOK'
  BY <1>1, GridInvStep
<1>3. DecodersOK'
  BY <1>1, DecodersStep
<1>4. ItemTypes' /\ ItemOK' /\ SeenOK'
  BY ItemStep
<1> QED
  BY <1>2, <1>3, <1>4, TypeParts DEF VideoInv, DecodersOK

\* The invariant holds of every state that the video part can be in.
LEMMA VideoInvariant == Spec => []VideoInv
BY VideoInit, VideoStep, PTL DEF Spec

\* Every variable of the video part has its type, for any number of cameras, slots and
\* frames: the slots stay below the bound, and no handler leaves a row, a worker or a
\* stream with a camera that does not exist.
THEOREM VideoTypeCorrect == Spec => []TypeOK
<1>1. VideoInv => TypeOK
  BY DEF VideoInv
<1> QED
  BY <1>1, VideoInvariant, PTL

\* Between two handlers a stream that shows a row is attached to the worker of the
\* camera of that row, whatever splits, merges, swaps, reuses of cards, restarts and
\* new lists of cameras came before.
THEOREM StreamsShowTheirCamera == Spec => []StreamShowsItsCamera
<1>1. VideoInv => StreamShowsItsCamera
  BY NothingToDo DEF VideoInv, ItemOK, Bound, StreamShowsItsCamera, Shows
<1> QED
  BY <1>1, VideoInvariant, PTL

\* No decoder thread outlives its worker.
THEOREM DecodersHaveWorkers == Spec => []DecoderHasWorker
<1>1. VideoInv => DecoderHasWorker
  BY DEF VideoInv
<1> QED
  BY <1>1, VideoInvariant, PTL

\* No frame is marked as seen that has not been put on the screen, and none that the
\* worker has not counted, however timerEvent and the frame callback interleave.
THEOREM SeenFramesAreShown == Spec => []SeenIsShown
<1>1. VideoInv => SeenIsShown
  BY NothingToDo DEF VideoInv, SeenOK, SeenIsShown
<1> QED
  BY <1>1, VideoInvariant, PTL

===============================================================================
