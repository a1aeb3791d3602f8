---------------------------- MODULE CameraModel ----------------------------
(***************************************************************************)
(* The grid of camera cards (Qt/Back/Models/CameraModel.cpp).              *)
(*                                                                         *)
(* The model is a list of rows.  A row has a slotId, which belongs to the  *)
(* place in the grid, and a content: the camera it shows and, for a tile   *)
(* of a split camera, the part of the frame.  The user swaps, splits and   *)
(* merges rows; the server's camera list arrives as a snapshot that marks  *)
(* rows online or offline, appends rows for new cameras and splits the     *)
(* cameras the deployment lists for automatic splitting.  All of it runs   *)
(* on the GUI thread, so a whole handler is one step.                      *)
(*                                                                         *)
(* Titles, types, descriptions and card sizes are left out.  A sensor      *)
(* reading is represented by the camera that sent it, and a crop rectangle *)
(* is given in twelfths of the frame, in which every split is exact.       *)
(***************************************************************************)
EXTENDS Integers, FiniteSets, Sequences, SequencesExt, FiniteSetsExt

CONSTANTS
    Cameras,     \* camera ids
    SensorCameras, \* the cameras that send sensor readings (META)
    NoReading,   \* the default DeviceInfo: nothing received
    AutoTiles,   \* Config::autoSplitTileCountForCameraId
    MaxSlotId    \* bound: no step that would number more rows is taken

ASSUME CamerasAssumption == IsFiniteSet(Cameras)
\* Config.hpp asks for a tile count of 1 (no automatic split), 2, 3 or 4.
ASSUME AutoTilesAssumption == AutoTiles \in [Cameras -> 1..4]
ASSUME SensorCamerasAssumption == SensorCameras \subseteq Cameras
ASSUME NoReadingAssumption == NoReading \notin Cameras
ASSUME MaxSlotIdAssumption == MaxSlotId \in Nat

VARIABLES
    cameras,                  \* cameras_: the rows, in display order
    nextSlotId,               \* nextSlotId_
    nextSplitGroupId,         \* nextSplitGroupId_
    autoSplitAppliedSlotIds,  \* rows that came out of an automatic split
    retired                   \* history: slot ids of rows removed since clearAll

vars == <<cameras, nextSlotId, nextSplitGroupId, autoSplitAppliedSlotIds, retired>>

-----------------------------------------------------------------------------
Frame == 12     \* a full frame is Frame by Frame
FullFrame == [x |-> 0, y |-> 0, w |-> Frame, h |-> Frame]

Directions == {"Col", "Row", "Grid"}

ValidCount(n, direction) ==
    \/ direction = "Col"  /\ n \in 2..4
    \/ direction = "Row"  /\ n \in 2..3
    \/ direction = "Grid" /\ n = 4

\* The size of a tile computed in integers: 1 / tileCount is zero.
MutCropInteger(i, n, direction) ==
    LET w == Frame * (1 \div n) IN [x |-> i * w, y |-> 0, w |-> w, h |-> Frame]

\* Row-major and column-major mixed up: the second column never shown.
MutCropRect(i, n, direction) ==
    IF direction = "Grid"
    THEN [x |-> (i \div 2) * (Frame \div 2), y |-> (i \div 2) * (Frame \div 2),
          w |-> Frame \div 2, h |-> Frame \div 2]
    ELSE LET w == Frame \div n IN [x |-> i * w, y |-> 0, w |-> w, h |-> Frame]

computeCropRect(i, n, direction) ==
    CASE direction = "Col" /\ n \in 2..4 ->
            [x |-> i * (Frame \div n), y |-> 0, w |-> Frame \div n, h |-> Frame]
      [] direction = "Row" /\ n \in 2..3 ->
            [x |-> 0, y |-> i * (Frame \div n), w |-> Frame, h |-> Frame \div n]
      [] direction = "Grid" /\ n = 4 ->
            [x |-> (i % 2) * (Frame \div 2), y |-> (i \div 2) * (Frame \div 2),
             w |-> Frame \div 2, h |-> Frame \div 2]
      [] OTHER -> FullFrame

-----------------------------------------------------------------------------
CameraEntry ==
    [slotId: Nat, cameraId: Cameras, isOnline: BOOLEAN, splitCount: 1..4,
     splitDirection: Directions \cup {"None"},
     cropRect: [x: 0..Frame, y: 0..Frame, w: 1..Frame, h: 1..Frame],
     splitGroupId: Nat \cup {-1}, splitIndex: 0..3,
     deviceInfo: Cameras \cup {NoReading}]

NewEntry(slotId, cameraId, isOnline) ==
    [slotId |-> slotId, cameraId |-> cameraId, isOnline |-> isOnline,
     splitCount |-> 1, splitDirection |-> "None", cropRect |-> FullFrame,
     splitGroupId |-> -1, splitIndex |-> 0, deviceInfo |-> NoReading]

Tile(e, slotId, group, i, n, direction) ==
    [NewEntry(slotId, e.cameraId, e.isOnline) EXCEPT
        !.splitCount = n, !.splitDirection = direction, !.splitGroupId = group,
        !.splitIndex = i, !.cropRect = computeCropRect(i, n, direction)]

Slots(rows) == {rows[r].slotId : r \in DOMAIN rows}

\* The members a handler works on, as one value.
Grid == [cameras |-> cameras, nextSlotId |-> nextSlotId,
         nextSplitGroupId |-> nextSplitGroupId, auto |-> autoSplitAppliedSlotIds]

\* _emitSlotsUpdated, with which every handler ends, only tells VideoManager.
Become(g) ==
    /\ g.nextSlotId <= MaxSlotId
    /\ cameras' = g.cameras
    /\ nextSlotId' = g.nextSlotId
    /\ nextSplitGroupId' = g.nextSplitGroupId
    /\ autoSplitAppliedSlotIds' = g.auto
    /\ retired' = retired \cup (Slots(cameras) \ Slots(g.cameras))

-----------------------------------------------------------------------------
(* _splitSlotAtIndex *)

CanSplit(g, r, n, direction) ==
    /\ r \in DOMAIN g.cameras
    /\ ValidCount(n, direction)
    /\ g.cameras[r].splitCount = 1
    /\ g.cameras[r].isOnline

\* The mark of the row that was split is left behind.
MutSplitMarks(g, slotId, tiles, autoSplit) ==
    g.auto \cup (IF autoSplit THEN Slots(tiles) ELSE {})

\* autoSplitAppliedSlotIds_ after the split of row slotId.
SplitMarks(g, slotId, tiles, autoSplit) ==
    (g.auto \cup (IF autoSplit THEN Slots(tiles) ELSE {})) \ {slotId}

SplitAt(g, r, n, direction, autoSplit) ==
    LET e     == g.cameras[r]
        tiles == [i \in 1..n |-> Tile(e, g.nextSlotId + i - 1,
                                      g.nextSplitGroupId, i - 1, n, direction)]
    IN  [cameras |-> SubSeq(g.cameras, 1, r - 1) \o tiles
                       \o SubSeq(g.cameras, r + 1, Len(g.cameras)),
         nextSlotId |-> g.nextSlotId + n,
         nextSplitGroupId |-> g.nextSplitGroupId + 1,
         auto |-> SplitMarks(g, e.slotId, tiles, autoSplit)]

(* _mergeGroupByIndex: the first tile in display order stays. *)

\* Only the tiles next to the clicked one are collected.
MutGroupNeighbours(g, r) ==
    {i \in (r - 1)..(r + 1) \cap DOMAIN g.cameras :
        g.cameras[i].splitGroupId = g.cameras[r].splitGroupId}

Group(g, r) == {i \in DOMAIN g.cameras :
                    g.cameras[i].splitGroupId = g.cameras[r].splitGroupId}

CanMerge(g, r) ==
    /\ r \in DOMAIN g.cameras
    /\ g.cameras[r].splitCount > 1
    /\ g.cameras[r].splitGroupId >= 0
    /\ Cardinality(Group(g, r)) >= 2

\* The numbers of the rows that are not removed, in order.
Kept(rows, removed) ==
    FoldLeftDomain(LAMBDA kept, i : IF i \in removed THEN kept ELSE Append(kept, i),
                   <<>>, rows)

MergeAt(g, r) ==
    LET first  == Min(Group(g, r))
        others == Group(g, r) \ {first}
        merged == [g.cameras EXCEPT
                      ![first].splitCount = 1, ![first].cropRect = FullFrame,
                      ![first].splitGroupId = -1, ![first].splitIndex = 0,
                      ![first].splitDirection = "Col"]
        kept   == Kept(g.cameras, others)
    IN  [g EXCEPT !.cameras = [i \in DOMAIN kept |-> merged[kept[i]]],
                  !.auto = @ \ {g.cameras[i].slotId : i \in others}]

(* _autoSplitForIndex, looked up by slotId as applyAutoSplitForSlot does. *)

\* The candidates are walked by a row number, which an earlier split in the
\* same loop has moved.
MutAutoSplitRow(g, slotId) ==
    LET r == CHOOSE i \in 1..Len(cameras) + Cardinality(Cameras) :
                \/ i \in DOMAIN cameras /\ cameras[i].slotId = slotId
                \/ i > Len(cameras) /\ slotId - nextSlotId = i - Len(cameras) - 1
    IN  IF r \in DOMAIN g.cameras
        THEN LET n == AutoTiles[g.cameras[r].cameraId]
             IN  IF g.cameras[r].slotId \notin g.auto /\ CanSplit(g, r, n, "Col")
                 THEN SplitAt(g, r, n, "Col", TRUE) ELSE g
        ELSE g

AutoSplitSlot(g, slotId) ==
    LET rows == {r \in DOMAIN g.cameras : g.cameras[r].slotId = slotId}
        r    == Min(rows)
        n    == AutoTiles[g.cameras[r].cameraId]
    IN  IF /\ rows # {}
           /\ slotId \notin g.auto
           /\ CanSplit(g, r, n, "Col")
        THEN SplitAt(g, r, n, "Col", TRUE)
        ELSE g

-----------------------------------------------------------------------------
(* What the user does on the dashboard *)

Swapped(a, b) ==
    [a EXCEPT !.cameraId = b.cameraId, !.isOnline = b.isOnline,
              !.splitCount = b.splitCount, !.splitDirection = b.splitDirection,
              !.cropRect = b.cropRect, !.splitGroupId = b.splitGroupId,
              !.splitIndex = b.splitIndex]

swapSlots(a, b) ==
    /\ a # b
    /\ Become([Grid EXCEPT !.cameras = [cameras EXCEPT
                  ![a] = Swapped(cameras[a], cameras[b]),
                  ![b] = Swapped(cameras[b], cameras[a])]])

splitSlot(r, n, direction) ==
    /\ CanSplit(Grid, r, n, direction)
    /\ Become(SplitAt(Grid, r, n, direction, FALSE))

mergeSlots(r) ==
    /\ CanMerge(Grid, r)
    /\ Become(MergeAt(Grid, r))

-----------------------------------------------------------------------------
(* What arrives from the server *)

Snapshots == UNION {[S -> BOOLEAN] : S \in SUBSET Cameras}

\* Step 1 of onStoreUpdated: rows of a camera that is not in the snapshot go
\* offline, the others take its flag.
Refreshed(snapshot) ==
    [r \in DOMAIN cameras |-> [cameras[r] EXCEPT !.isOnline =
        cameras[r].cameraId \in DOMAIN snapshot /\ snapshot[cameras[r].cameraId]]]

\* A new row is numbered by its place in the list.
MutNewRows(snapshot, order) ==
    [i \in DOMAIN order |->
        NewEntry(Len(cameras) + i - 1, order[i], snapshot[order[i]])]

NewRows(snapshot, order) ==
    [i \in DOMAIN order |->
        NewEntry(nextSlotId + i - 1, order[i], snapshot[order[i]])]

\* Step 2: one row for each camera that has none, in the order of a hash table.
AppendNew(snapshot, order) ==
    [Grid EXCEPT
        !.cameras = Refreshed(snapshot) \o NewRows(snapshot, order),
        !.nextSlotId = @ + Len(order)]

NewCameras(snapshot) ==
    DOMAIN snapshot \ {cameras[r].cameraId : r \in DOMAIN cameras}

\* Step 3, for a row e as it was when the candidates were collected.
AutoSplitRow(g, e) ==
    IF e.splitCount = 1 /\ e.isOnline THEN AutoSplitSlot(g, e.slotId) ELSE g

AutoSplitRows(g, rows) == FoldLeft(AutoSplitRow, g, rows)

onStoreUpdated(snapshot) ==
    \E order \in SetToSeqs(NewCameras(snapshot)) :
        LET g == AppendNew(snapshot, order)
        IN  Become(AutoSplitRows(g, g.cameras))

updateSensorInfo(cid) ==
    /\ cameras' = [r \in DOMAIN cameras |->
                      IF cameras[r].cameraId = cid
                      THEN [cameras[r] EXCEPT !.deviceInfo = cid]
                      ELSE cameras[r]]
    /\ UNCHANGED <<nextSlotId, nextSplitGroupId, autoSplitAppliedSlotIds, retired>>

\* Logout.
clearAll ==
    /\ cameras' = <<>>
    /\ nextSlotId' = 0
    /\ nextSplitGroupId' = 1
    /\ autoSplitAppliedSlotIds' = {}
    /\ retired' = {}

-----------------------------------------------------------------------------
Init ==
    /\ cameras = <<>>
    /\ nextSlotId = 0
    /\ nextSplitGroupId = 1
    /\ autoSplitAppliedSlotIds = {}
    /\ retired = {}

UserStep ==
    \/ \E a, b \in DOMAIN cameras : swapSlots(a, b)
    \/ \E r \in DOMAIN cameras, n \in 2..4, d \in Directions : splitSlot(r, n, d)
    \/ \E r \in DOMAIN cameras : mergeSlots(r)

ServerStep ==
    \/ \E snapshot \in Snapshots : onStoreUpdated(snapshot)
    \/ \E cid \in SensorCameras : updateSensorInfo(cid)

Next == UserStep \/ ServerStep \/ clearAll

Spec == Init /\ [][Next]_vars

-----------------------------------------------------------------------------
(* Properties *)

TypeOK ==
    /\ cameras \in Seq(CameraEntry)
    /\ nextSlotId \in Nat
    /\ nextSplitGroupId \in Nat
    /\ autoSplitAppliedSlotIds \subseteq Nat
    /\ retired \subseteq Nat

RowsOf(cid) == {r \in DOMAIN cameras : cameras[r].cameraId = cid}

\* A camera is on the grid once: as one whole card, or as all the tiles of one
\* split, each index exactly once and all agreeing on the split and on whether
\* the camera is online, however the tiles have been moved about by swapSlots
\* and whatever snapshots arrived in between.
CameraShownOnce ==
    \A cid \in Cameras : RowsOf(cid) # {} =>
        \E n \in 1..4, group \in {-1} \cup 1..(nextSplitGroupId - 1),
           dir \in Directions \cup {"None"}, online \in BOOLEAN :
            /\ (n > 1) <=> (group # -1)
            /\ \A r \in RowsOf(cid) :
                  /\ cameras[r].splitCount = n
                  /\ cameras[r].splitGroupId = group
                  /\ cameras[r].splitDirection = dir
                  /\ cameras[r].isOnline = online
            /\ Cardinality(RowsOf(cid)) = n
            /\ {cameras[r].splitIndex : r \in RowsOf(cid)} = 0..(n - 1)

Cells(rect) == (rect.x .. rect.x + rect.w - 1) \X (rect.y .. rect.y + rect.h - 1)

\* The rows of a camera show every part of its frame exactly once: the crop
\* rectangles computed by computeCropRect neither overlap nor leave a gap, and
\* a merged card is back to the full frame.
TilesCoverFrame ==
    \A cid \in Cameras : RowsOf(cid) # {} =>
        /\ UNION {Cells(cameras[r].cropRect) : r \in RowsOf(cid)} = Cells(FullFrame)
        /\ \A q, r \in RowsOf(cid) : q # r =>
              Cells(cameras[q].cropRect) \cap Cells(cameras[r].cropRect) = {}

\* "permanent grid position identity (never reused per session)",
\* CameraModel.hpp: until clearAll, no two rows have the same slotId and the id
\* of a row that was split or merged away is never given to another row.
SlotIdNeverReused ==
    /\ \A q, r \in DOMAIN cameras :
          cameras[q].slotId = cameras[r].slotId => q = r
    /\ Slots(cameras) \cap retired = {}

\* autoSplitAppliedSlotIds_ only names rows of the grid: the marks of rows that
\* are split again or merged away are removed with them, so the set cannot grow
\* and no mark waits for a later row.
AutoMarksAreLive == autoSplitAppliedSlotIds \subseteq Slots(cameras)

\* A camera that had no row, or was offline, is online after the step: the
\* step is onStoreUpdated.
ComesOnline(cid) ==
    /\ \E r \in DOMAIN cameras' : cameras'[r].cameraId = cid /\ cameras'[r].isOnline
    /\ \A r \in RowsOf(cid) : ~cameras[r].isOnline

\* A snapshot that brings cameras online leaves no online camera whole that the
\* deployment wants split, except in a slot that is marked already: the splits
\* made in one pass over the grid do not make it miss a row.  A marked slot may
\* hold a camera put together again by hand, or any other camera that swapSlots
\* has since moved there: marks name slots, and that camera is not split.
AutoSplitIsComplete ==
    [][(\E cid \in Cameras : ComesOnline(cid)) =>
          \A r \in DOMAIN cameras' :
              /\ cameras'[r].isOnline
              /\ cameras'[r].splitCount = 1
              /\ AutoTiles[cameras'[r].cameraId] > 1
              => cameras'[r].slotId \in autoSplitAppliedSlotIds]_vars

=============================================================================
