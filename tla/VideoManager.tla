---------------------------- MODULE VideoManager ----------------------------
(***************************************************************************)
(* Live video: VideoManager with one VideoWorker per camera, the decoder   *)
(* thread of each worker's Video, and a VideoStream, the item that puts    *)
(* the frames of one worker on the screen (Qt/Back/Services/VideoStream,   *)
(* Src/Network/Video).                                                     *)
(*                                                                         *)
(* Everything except the decoders runs on the GUI thread, driven by what   *)
(* CameraModel emits.  A handler of the GUI thread is one step up to the   *)
(* point where stopStream waits for a decoder to end; what is left of it   *)
(* is kept in todo, and no other handler runs before todo is done.         *)
(*                                                                         *)
(* CameraModel appears as the set of its rows: a slot, the camera in it    *)
(* and whether it is online.  Streams do not influence each other, so one  *)
(* item on the screen stands for all: a card of the dashboard, a card of   *)
(* the device list, or a detached window.  A frame is a number, the place  *)
(* of the frame among the frames of its worker.                            *)
(***************************************************************************)
EXTENDS Integers, FiniteSets, Sequences, SequencesExt

CONSTANTS Cameras,
          Addressed,  \* the cameras whose source_url is not empty
          None,       \* no camera, no worker
          MaxSlots,   \* bound: slot ids given out in a session
          MaxFrames   \* bound: frames a worker delivers

ASSUME VideoAssumption ==
  /\ IsFiniteSet(Cameras) /\ Addressed \subseteq Cameras
  /\ None \notin Cameras /\ None \notin {"card", "list", "window"}
  /\ MaxSlots \in Nat /\ MaxFrames \in Nat

VARIABLES rows,       \* CameraModel: slotId -> [cam, online]
          nextSlot,   \* CameraModel: the next slotId
          workers,    \* workers_: the cameras that have a VideoWorker
          slotToCameraId_,
          video,      \* the Video of each worker, and what the worker publishes
          item,       \* the item on the screen with its VideoStream
          todo        \* the rest of the GUI thread's handler

grid == <<rows, nextSlot>>
manager == <<workers, slotToCameraId_>>
vars == <<grid, manager, video, item, todo>>

Slots == 0..(MaxSlots - 1)
Row == [cam: Cameras, online: BOOLEAN]
NoRow == [cam |-> None, online |-> FALSE]
Kinds == {"card", "list", "window"}

\* A decoder thread is not there, opens the source, sleeps before the next
\* attempt, waits for a packet, delivers the frames of a packet, has stored a
\* frame it has not counted yet, or has returned and is not joined.
Decoders == {"none", "open", "sleep", "reading", "frames", "stored", "exited"}

NewVideo == [decoder |-> "none", stopThread |-> FALSE, frameSeq |-> 0, latest |-> 0]

NoItem == [kind |-> None]
Shows(i) == i.kind # None /\ i.active

Restart(s) == [op |-> "restart", slot |-> s, cam |-> rows[s].cam]
Offline(s) == [op |-> "offline", slot |-> s]
Delete(c)  == [op |-> "delete", cam |-> c]
Insert(fresh) == [op |-> "insert", fresh |-> fresh]
Cleared == [op |-> "cleared"]
Fetch == [op |-> "fetch"]

-----------------------------------------------------------------------------
(* VideoStream *)

getWorker(c, ws) == IF c \in ws THEN c ELSE None

getWorkerBySlot(s, ws, map) == IF s \in DOMAIN map THEN getWorker(map[s], ws) ELSE None

\* The worker tryAttach finds: by slot, else by camera.  Cards of the device
\* list have no slot.
Found(i, ws, map) ==
  LET bySlot == IF i.kind = "list" THEN None ELSE getWorkerBySlot(i.slot, ws, map)
  IN  IF bySlot # None THEN bySlot ELSE getWorker(i.camera, ws)

\* m_lastSeq keeps the count of the worker before.
MutAttachKeepsSeq(i, ws, map) ==
  LET new == Found(i, ws, map)
  IN  IF new = i.worker THEN i
      ELSE [i EXCEPT !.worker = new, !.listening = @ \/ new = None]

tryAttach(i, ws, map) ==
  LET new == Found(i, ws, map)
  IN  IF new = i.worker THEN i
      ELSE [i EXCEPT !.worker = new, !.lastSeq = 0, !.listening = @ \/ new = None]

setCameraId(i, c, ws, map) ==
  IF c = i.camera THEN i ELSE tryAttach([i EXCEPT !.camera = c], ws, map)

\* A new VideoStream in item i, bound to camera c.
NewStream(i, c, ws, map) ==
  tryAttach([i EXCEPT !.camera = c, !.active = TRUE, !.worker = None,
                      !.lastSeq = 0, !.shown = <<None, 0>>, !.listening = FALSE],
            ws, map)

\* The camera whose registration concerns stream i, its isTarget.
Target(i, map) ==
  IF i.kind = "list" THEN i.camera
  ELSE IF i.slot \in DOMAIN map THEN map[i.slot] ELSE None

\* workerRegistered(c), for a stream that listens.
onWorkerRegistered(i, c, ws, map) ==
  IF Shows(i) /\ i.listening /\ Target(i, map) = c
  THEN tryAttach([i EXCEPT !.listening = FALSE], ws, map)
  ELSE i

-----------------------------------------------------------------------------
(* QML: the item follows the row of its slot; a window whose row is gone goes  *)
(* back to what it was detached with.  The Loader holds a VideoStream only     *)
(* while the camera is online.                                                 *)

Shown(i, rs) == IF i.slot \in DOMAIN rs THEN rs[i.slot] ELSE i.source

Refresh(i, rs, ws, map) ==
  LET v == Shown(i, rs)
  IN  CASE ~v.online              -> [i EXCEPT !.active = FALSE, !.worker = None,
                                               !.camera = None, !.lastSeq = 0,
                                               !.shown = <<None, 0>>, !.listening = FALSE]
        [] v.online /\ ~i.active  -> NewStream(i, v.cam, ws, map)
        [] v.online /\ i.active   -> setCameraId(i, v.cam, ws, map)

\* dataChanged reaches the items of that row, rowsInserted and rowsRemoved the
\* windows at once; views create and destroy their cards after the handler.
DataChanged(i, s, rs, ws, map) ==
  IF i.kind # None /\ i.slot = s THEN Refresh(i, rs, ws, map) ELSE i

RowsChanged(i, rs, ws, map) ==
  IF i.kind = "window" THEN Refresh(i, rs, ws, map) ELSE i

WithoutGoneCard(i, rs) ==
  IF i.kind \in {"card", "list"} /\ i.slot \notin DOMAIN rs THEN NoItem ELSE i

-----------------------------------------------------------------------------
(* VideoManager *)

CamerasOf(rs) == {rs[s].cam : s \in DOMAIN rs}
SlotMap(rs) == [s \in DOMAIN rs |-> rs[s].cam]

\* startStream: without an address nothing is started.
Started(v, c) ==
  IF c \in Addressed THEN [v EXCEPT !.stopThread = FALSE, !.decoder = "open"] ELSE v

\* The stream i after workerRegistered of every camera in new, in any order: one of
\* the signals at most is for it.
Registered(i, new, ws, map) ==
  IF Shows(i) /\ Target(i, map) \in new
  THEN onWorkerRegistered(i, Target(i, map), ws, map) ELSE i

\* registerSlots, then registerCameraIds, which finds every worker in place.
\* The item is the one that has seen the signals sent before.
registerSlots(rs, i) ==
  LET new == CamerasOf(rs) \ workers IN
  /\ slotToCameraId_' = SlotMap(rs)
  /\ workers' = workers \cup new
  /\ video' = [c \in Cameras |-> IF c \in new THEN Started(NewVideo, c) ELSE video[c]]
  /\ item' = WithoutGoneCard(Registered(i, new, workers', SlotMap(rs)), rs)

-----------------------------------------------------------------------------
(* What the user and the server make CameraModel do *)

\* The cards are told before VideoManager knows the new places.
MutSwapTellsCardsFirst(a, b) ==
  LET new == [rows EXCEPT ![a] = rows[b], ![b] = rows[a]]
      ia  == DataChanged(item, a, new, workers, slotToCameraId_)
  IN  /\ todo = <<>> /\ a # b
      /\ rows' = new
      /\ slotToCameraId_' = SlotMap(new)
      /\ item' = DataChanged(ia, b, new, workers, slotToCameraId_)
      /\ UNCHANGED <<nextSlot, workers, video, todo>>

\* Every camera of a row has a worker, so registerSlots only moves the slots.
swapSlots(a, b) ==
  LET new == [rows EXCEPT ![a] = rows[b], ![b] = rows[a]]
      ia  == DataChanged(item, a, new, workers, SlotMap(new))
  IN  /\ todo = <<>> /\ a # b
      /\ rows' = new
      /\ slotToCameraId_' = SlotMap(new)
      /\ item' = DataChanged(ia, b, new, workers, SlotMap(new))
      /\ UNCHANGED <<nextSlot, workers, video, todo>>

\* Two tiles for the row of slot s: the row is removed, then the tiles come.
splitSlot(s) ==
  LET removed == [q \in DOMAIN rows \ {s} |-> rows[q]]
      new     == [q \in DOMAIN removed \cup {nextSlot, nextSlot + 1} |->
                    IF q \in DOMAIN removed THEN rows[q] ELSE rows[s]]
      i1      == RowsChanged(item, removed, workers, slotToCameraId_)
  IN  /\ todo = <<>>
      /\ rows[s].online
      /\ \A q \in DOMAIN rows \ {s} : rows[q].cam # rows[s].cam
      /\ nextSlot + 2 <= MaxSlots
      /\ nextSlot' = nextSlot + 2
      /\ rows' = new
      /\ registerSlots(new, RowsChanged(i1, new, workers, slotToCameraId_))
      /\ UNCHANGED todo

\* The tiles of one camera become one again, in the place of slot s.
mergeSlots(s) ==
  LET gone == {q \in DOMAIN rows \ {s} : rows[q].cam = rows[s].cam}
      new  == [q \in DOMAIN rows \ gone |-> rows[q]]
      i1   == RowsChanged(item, new, workers, slotToCameraId_)
  IN  /\ todo = <<>>
      /\ gone # {}
      /\ rows' = new
      /\ registerSlots(new, DataChanged(i1, s, new, workers, slotToCameraId_))
      /\ UNCHANGED <<nextSlot, todo>>

\* Whether a camera is online according to a list; one that is gone is not.
Online(snapshot, c) == c \in DOMAIN snapshot /\ snapshot[c]

\* cameraOnline and dataChanged for a row that goes online, dataChanged for one that
\* goes offline, row after row in the order of the grid, which is not kept here; then
\* the new cameras.
onStoreUpdated(snapshot) ==
  LET order == SetToSeq({s \in DOMAIN rows :
                           rows[s].online # Online(snapshot, rows[s].cam)})
  IN  /\ todo = <<>>
      /\ todo' = [n \in DOMAIN order |->
                    IF rows[order[n]].online THEN Offline(order[n]) ELSE Restart(order[n])]
                 \o <<Insert([c \in DOMAIN snapshot \ CamerasOf(rows) |-> snapshot[c]])>>
      /\ UNCHANGED <<grid, manager, video, item>>

\* AppController::logout has closed the windows; VideoManager::clearAll, then
\* CameraModel::clearAll.
logoutRequested ==
  /\ todo = <<>>
  /\ LET order == SetToSeq(workers)
     IN  todo' = [n \in DOMAIN order |-> Delete(order[n])] \o <<Cleared>>
  /\ item' = IF item.kind = "window" THEN NoItem ELSE item
  /\ UNCHANGED <<grid, manager, video>>

\* A view makes a card for a row, or the user detaches one, or closes it.
CreateItem(kind, s) ==
  /\ todo = <<>> /\ item.kind = None
  /\ item' = LET i == [kind |-> kind, slot |-> s, camera |-> rows[s].cam,
                       source |-> IF kind = "window" THEN rows[s] ELSE NoRow,
                       active |-> FALSE, worker |-> None,
                       lastSeq |-> 0, shown |-> <<None, 0>>, listening |-> FALSE]
             IN  Refresh(i, rows, workers, slotToCameraId_)
  /\ UNCHANGED <<grid, manager, video, todo>>

CloseItem ==
  /\ todo = <<>> /\ item.kind # None
  /\ item' = NoItem
  /\ UNCHANGED <<grid, manager, video, todo>>

\* The dashboard reuses the card of one row for another (reuseItems): its
\* properties change one after the other, in either order.
ReuseCard(s) ==
  LET c   == rows[s].cam
      one == setCameraId(tryAttach([item EXCEPT !.slot = s], workers, slotToCameraId_),
                         c, workers, slotToCameraId_)
      two == tryAttach([setCameraId(item, c, workers, slotToCameraId_) EXCEPT !.slot = s],
                       workers, slotToCameraId_)
  IN  /\ todo = <<>> /\ item.kind = "card" /\ item.slot # s
      /\ item.active /\ rows[s].online
      /\ item' \in {one, two}
      /\ UNCHANGED <<grid, manager, video, todo>>

-----------------------------------------------------------------------------
(* The rest of a handler *)

Doing(o) == todo # <<>> /\ Head(todo).op = o

\* stopStream up to the join.
StopThread ==
  LET c == Head(todo).cam IN
  /\ Doing("restart") \/ Doing("delete")
  /\ ~video[c].stopThread
  /\ video' = [video EXCEPT ![c].stopThread = TRUE]
  /\ UNCHANGED <<grid, manager, item, todo>>

\* stopStream does not wait for the decoder.
MutJoined(c) == video[c].stopThread

\* The join returns: there is no thread, or it has returned.
Joined(c) == video[c].stopThread /\ video[c].decoder \in {"none", "exited"}

\* cameraOnline: restartWorker after its stopStream; then the row's dataChanged.
RestartWorker ==
  LET c == Head(todo).cam
      s == Head(todo).slot
  IN  /\ Doing("restart") /\ Joined(c)
      /\ video' = [video EXCEPT ![c] = Started([@ EXCEPT !.decoder = "none"], c)]
      /\ rows' = [rows EXCEPT ![s].online = TRUE]
      /\ item' = DataChanged(onWorkerRegistered(item, c, workers, slotToCameraId_),
                             s, rows', workers, slotToCameraId_)
      /\ todo' = Tail(todo)
      /\ UNCHANGED <<nextSlot, manager>>

GoOffline ==
  LET s == Head(todo).slot IN
  /\ Doing("offline")
  /\ rows' = [rows EXCEPT ![s].online = FALSE]
  /\ item' = DataChanged(item, s, rows', workers, slotToCameraId_)
  /\ todo' = Tail(todo)
  /\ UNCHANGED <<nextSlot, manager, video>>

\* clearAll for one worker; deleting it clears the QPointers to it.
DeleteWorker ==
  LET c == Head(todo).cam IN
  /\ Doing("delete") /\ Joined(c)
  /\ workers' = workers \ {c}
  /\ item' = IF item.kind # None /\ item.worker = c
             THEN [item EXCEPT !.worker = None] ELSE item
  /\ video' = [video EXCEPT ![c] = [NewVideo EXCEPT !.decoder =
                  IF video[c].decoder = "exited" THEN "none" ELSE video[c].decoder]]
  /\ todo' = Tail(todo)
  /\ UNCHANGED <<grid, slotToCameraId_>>

\* Rows for new cameras, then slotsUpdated and cameraIdsUpdated.
InsertRows ==
  /\ Doing("insert")
  /\ \E order \in SetToSeqs(DOMAIN Head(todo).fresh) :
       LET new == [s \in DOMAIN rows \cup {nextSlot + n - 1 : n \in DOMAIN order} |->
                     IF s \in DOMAIN rows THEN rows[s]
                     ELSE LET c == order[s - nextSlot + 1]
                          IN  [cam |-> c, online |-> Head(todo).fresh[c]]]
       IN  /\ rows' = new
           /\ nextSlot' = nextSlot + Len(order)
           /\ registerSlots(new, IF order = <<>> THEN item
                                 ELSE RowsChanged(item, new, workers, slotToCameraId_))
  /\ todo' = Tail(todo)

\* workers_ and slotToCameraId_ are cleared, then the grid with its cards.
ClearGrid ==
  /\ Doing("cleared")
  /\ rows' = <<>> /\ nextSlot' = 0
  /\ slotToCameraId_' = <<>>
  /\ item' = NoItem
  /\ todo' = Tail(todo)
  /\ UNCHANGED <<workers, video>>

\* The first frame of a worker is taken for one that is already shown.
MutTimerSkips ==
  /\ todo = <<>> /\ Shows(item) /\ item.worker # None
  /\ video[item.worker].frameSeq > item.lastSeq + 1
  /\ item' = [item EXCEPT !.lastSeq = video[item.worker].frameSeq]
  /\ todo' = <<Fetch>>
  /\ UNCHANGED <<grid, manager, video>>

\* timerEvent up to the read of frameSeq ...
timerEvent ==
  /\ todo = <<>> /\ Shows(item) /\ item.worker # None
  /\ video[item.worker].frameSeq > item.lastSeq
  /\ item' = [item EXCEPT !.lastSeq = video[item.worker].frameSeq]
  /\ todo' = <<Fetch>>
  /\ UNCHANGED <<grid, manager, video>>

\* ... and the rest, with the frame the decoder has stored by then.
getLatestFrame ==
  /\ Doing("fetch")
  /\ item' = IF video[item.worker].latest = 0 THEN item
             ELSE [item EXCEPT !.shown = <<item.worker, video[item.worker].latest>>]
  /\ todo' = Tail(todo)
  /\ UNCHANGED <<grid, manager, video>>

-----------------------------------------------------------------------------
(* The decoder threads *)

SetDecoder(c, state) ==
  /\ video' = [video EXCEPT ![c].decoder = state]
  /\ UNCHANGED <<grid, manager, item, todo>>

\* The loops of decodeLoopFFmpeg and tryOnceFFmpeg look at stopThread_.
UnlessStopped(c, state) == IF video[c].stopThread THEN "exited" ELSE state

\* FFmpeg never hears that the stream is to stop.
MutInterrupted(c) == FALSE

\* interrupt_cb makes a blocking call of FFmpeg return with an error.
interrupt_cb(c) == video[c].stopThread

\* Opening the source takes as long as the network likes.
Opened(c) ==
  /\ video[c].decoder = "open" /\ ~interrupt_cb(c)
  /\ SetDecoder(c, UnlessStopped(c, "reading"))

OpenFails(c) ==
  /\ video[c].decoder = "open"
  /\ SetDecoder(c, UnlessStopped(c, "sleep"))

SleepEnds(c) ==
  /\ video[c].decoder = "sleep"
  /\ SetDecoder(c, UnlessStopped(c, "open"))

Packet(c) ==
  /\ video[c].decoder = "reading" /\ ~interrupt_cb(c)
  /\ SetDecoder(c, "frames")

\* The end of the stream is not a failure: the next attempt comes at once.
ReadEnds(c) ==
  /\ video[c].decoder = "reading"
  /\ SetDecoder(c, UnlessStopped(c, "open"))

\* A frame is counted twice.
MutCountTwice(c) ==
  /\ \/ /\ video[c].decoder = "frames" /\ video[c].latest < MaxFrames
        /\ video' = [video EXCEPT ![c].latest = @ + 1, ![c].frameSeq = @ + 1,
                                  ![c].decoder = "stored"]
     \/ /\ video[c].decoder = "stored"
        /\ video' = [video EXCEPT ![c].frameSeq = @ + 1, ![c].decoder = "frames"]
  /\ UNCHANGED <<grid, manager, item, todo>>

\* The frame callback: latestFrame_ under its lock, then frameSeq_.
onFrameReady(c) ==
  /\ \/ /\ video[c].decoder = "frames" /\ video[c].latest < MaxFrames
        /\ video' = [video EXCEPT ![c].latest = @ + 1, ![c].decoder = "stored"]
     \/ /\ video[c].decoder = "stored"
        /\ video' = [video EXCEPT ![c].frameSeq = @ + 1, ![c].decoder = "frames"]
  /\ UNCHANGED <<grid, manager, item, todo>>

\* No more frames in the packet; frames may also have been dropped by the
\* frame rate limit or because they could not be copied from the GPU.
PacketDone(c) ==
  /\ video[c].decoder = "frames"
  /\ SetDecoder(c, UnlessStopped(c, "reading"))

-----------------------------------------------------------------------------
Init ==
  /\ rows = <<>> /\ nextSlot = 0
  /\ workers = {} /\ slotToCameraId_ = <<>>
  /\ video = [c \in Cameras |-> NewVideo]
  /\ item = NoItem /\ todo = <<>>

Snapshots == UNION {[S -> BOOLEAN] : S \in SUBSET Cameras}

\* Bound: a list whose new cameras would need more slots does not come.
CameraList ==
  \E snapshot \in Snapshots :
    /\ nextSlot + Cardinality(DOMAIN snapshot \ CamerasOf(rows)) <= MaxSlots
    /\ onStoreUpdated(snapshot)

GridStep ==
  \/ \E a, b \in DOMAIN rows : swapSlots(a, b)
  \/ \E s \in DOMAIN rows : splitSlot(s)
  \/ \E s \in DOMAIN rows : mergeSlots(s)
  \/ CameraList
  \/ logoutRequested

ViewStep ==
  \/ \E kind \in Kinds, s \in DOMAIN rows : CreateItem(kind, s)
  \/ CloseItem
  \/ \E s \in DOMAIN rows : ReuseCard(s)

HandlerStep ==
  \/ StopThread \/ RestartWorker \/ DeleteWorker
  \/ GoOffline \/ InsertRows \/ ClearGrid \/ getLatestFrame

\* What the decoder does by itself, and what the network does for it.
DecoderStep(c) ==
  \/ SleepEnds(c) \/ onFrameReady(c) \/ PacketDone(c)
  \/ interrupt_cb(c) /\ (OpenFails(c) \/ ReadEnds(c))

NetworkStep(c) == Opened(c) \/ OpenFails(c) \/ Packet(c) \/ ReadEnds(c)

Next ==
  \/ GridStep \/ ViewStep \/ HandlerStep \/ timerEvent
  \/ \E c \in Cameras : DecoderStep(c) \/ NetworkStep(c)

Spec == Init /\ [][Next]_vars

\* Threads are scheduled, the join returns once its thread has ended, and the
\* event loop comes round to the 16 ms timer however many other events there
\* are.  Neither the network nor the user owes anything.
Fairness ==
  /\ WF_vars(HandlerStep)
  /\ SF_vars(timerEvent)
  /\ \A c \in Cameras : WF_vars(DecoderStep(c))

FairSpec == Spec /\ Fairness

-----------------------------------------------------------------------------
(* Properties *)

TypeOK ==
  /\ DOMAIN rows \subseteq Slots /\ \A s \in DOMAIN rows : rows[s] \in Row
  /\ nextSlot \in 0..MaxSlots
  /\ workers \subseteq Cameras
  /\ DOMAIN slotToCameraId_ \subseteq Slots
  /\ \A s \in DOMAIN slotToCameraId_ : slotToCameraId_[s] \in Cameras
  /\ video \in [Cameras -> [decoder: Decoders, stopThread: BOOLEAN,
                            frameSeq: 0..MaxFrames, latest: 0..MaxFrames]]
  /\ item = NoItem \/ item \in
       [kind: Kinds, slot: Slots, camera: Cameras \cup {None},
        source: Row \cup {NoRow}, active: BOOLEAN,
        worker: Cameras \cup {None}, lastSeq: 0..MaxFrames,
        shown: (Cameras \cup {None}) \X (0..MaxFrames), listening: BOOLEAN]

\* Between two handlers a card or window that shows the row of a slot is attached
\* to the worker of the camera in that row: swapSlots announces the new places
\* to VideoManager before it tells the cards, so that tryAttach, which asks by
\* slot first, does not find the camera that was there before.
StreamShowsItsCamera ==
  todo = <<>> /\ Shows(item) /\ item.slot \in DOMAIN rows
    => item.worker = rows[item.slot].cam

\* A decoder thread only runs for a worker that exists: a worker is deleted
\* after its thread has been joined, at logout too, so the frame callback never
\* uses a worker that is gone.
DecoderHasWorker ==
  \A c \in Cameras : video[c].decoder # "none" => c \in workers

\* What a stream has marked as seen it has put on the screen, or something newer
\* of the same camera; and it has not marked more than its worker has counted,
\* which would freeze the picture until the worker catches up.  The worker
\* stores a frame before it counts it and the stream reads in the other order,
\* and a stream that changes its worker starts again.
SeenIsShown ==
  todo = <<>> /\ Shows(item) /\ item.worker # None /\ item.lastSeq > 0
    => /\ item.lastSeq <= video[item.worker].frameSeq
       /\ item.shown[1] = item.worker
       /\ item.shown[2] >= item.lastSeq

\* Every handler of the GUI thread comes to an end: stopStream waits for a decoder
\* that may sleep or wait for the network, and interrupt_cb gets it out.
HandlersEnd == []<>(todo = <<>>)

Behind(c) ==
  /\ Shows(item) /\ item.worker = c
  /\ item.shown # <<c, video[c].latest>>
  /\ video[c].latest > 0

\* The newest frame of the attached worker is put on the screen, also when it is
\* the last one: it is not overlooked because it was published between the two
\* reads of timerEvent, or while a handler held up the GUI thread.
NewestFrameIsShown == \A c \in Addressed : []<>~Behind(c)

=============================================================================
