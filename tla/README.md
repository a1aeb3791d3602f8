# AnoMap (withBoost): TLA+ models, checks and proofs

AnoMap is a Qt 6 / C++20 desktop client for a server of security cameras. This
directory holds TLA+ models of its core, TLC configurations that check them on
small instances, and TLAPS proofs of the most important results for instances of
any size. Paths below are relative to the repository root; `src/` in
`PROJECT.json` is that root.

## 1. The system

Three kinds of threads share the program: the **GUI thread** (QML, models,
controllers), the **io thread** of `NetworkService` (boost::asio, one handler at a
time), and the **workers** of `ThreadPool`; every video stream adds a decoder
thread. A message travels

    socket -> TcpSession (io) -> MessageProcessor (io, strand) -> NetworkBridge (queued to GUI)
           -> Core::wireSignals (GUI) -> ThreadPool task: parse into a store
           -> queued call on the GUI thread -> list model -> QML / VideoManager

and images come over a second path, UDP with DTLS, announced and acknowledged
over TCP.

| Component | State | Operations | Interacts with | What is hard | What makes it correct |
|---|---|---|---|---|---|
| `ThreadPool` (Src/Thread) | queue, stop flag, workers | two `Submit`s, `WorkLoop`, destructor | `Core`, `AlarmDispatcher` submit | lost wakeups, shutdown against submission, exceptions | every accepted task once, in order; the destructor returns |
| `UdpSession` (Src/Network) | fragments of the current frame, timer, DTLS session | datagram, timer, completion, metadata | `NetworkService` creates it; control messages go over TCP | loss, repetition, reordering; timer against completion; 8-bit numbers | only whole images; losses are asked for |
| `NetworkService`, `TcpSession` | io_context, strand, session, flags | connect, disconnect, send, reads, failures | `NetworkBridge` calls it and gets its callbacks | teardown against handlers that are queued or pending; join from the GUI thread | status is true; nothing is sent into a handshake; disconnect returns |
| `CameraModel` (Qt/Back/Models) | rows, counters, automatic split marks | swap, split, merge, snapshot, sensor reading, clear | fed by `CameraStore`; tells `VideoManager` | long sequences of user operations mixed with snapshots | a camera is shown once and completely; slot ids are never reused |
| Stores (Src/Domain), `Core`, the list models | tables guarded by mutexes; queued calls; rows | parse, merge, snapshot, logout, shutdown | pool tasks write, the GUI reads | tasks that finish out of order, events of an old session, stores destroyed before the pool | what is shown is what the server sent; readings survive camera lists; logout empties the models; a reading goes to its own device |
| `VideoManager`, `VideoWorker`, `VideoStream`, `Video` | workers by camera and slot, decoder threads | register, restart, attach, stop | `CameraModel`'s signals, QML items | attach before registration, stop during a frame, a join on the GUI thread | a stream shows the camera of its row; no decoder outlives its worker; the newest frame is shown |
| `NetworkBridge`, `LoginController`, `SignupController` | pending device commands, login state | connect, send, debounce, login, logout | `NetworkService`, QML | answers that come after a logout, failures nobody reports | busy ends; commands are not lost |
| `AlarmDispatcher`, `AlarmController` | at most 20 alarms | dispatch, dismiss, clear | pool, QML | identity of alarms | the newest alarms are shown |
| `AppController`, `SettingsController` | page, detached windows; settings file | navigate, register windows, save | QML, side panel | every page is within reach without a login | whoever is logged in is connected |

`PROJECT.json` lists all of them with their status, and under `hazards` what can
go wrong at which line.

## 2. Modules

| Module | Models | Kind |
|---|---|---|
| `TaskService` | what `ThreadPool` promises | abstract specification |
| `ThreadPool` | `Src/Thread/ThreadPool.{hpp,cpp}` | component, refines `TaskService` |
| `ThreadPoolProofs` | | theorems |
| `MCThreadPool` | | constants for TLC |
| `UdpSession` | `Src/Network/UdpSession.hpp`, the gate of `Src/Crypt/MediaDTLS.hpp` | component, open to any network |
| `UdpSessionProofs`, `MCUdpSession` | | theorems, constants for TLC |
| `NetworkService` | `Src/Network/NetworkService.cpp`, `TcpSession.hpp`, dispatch of `MessageProcessor.cpp` | component with its environment |
| `NetworkServiceProofs` | | theorems |
| `CameraModel`, `MCCameraModel` | `Qt/Back/Models/CameraModel.{hpp,cpp}` | component, constants for TLC |
| `CameraModelProofs` | | theorems |
| `VideoManager`, `MCVideoManager` | `Qt/Back/Services/VideoStream.{hpp,cpp}`, `Src/Network/Video.{hpp,cpp}`, what `CameraModel` and the QML cards and windows do to them | composition of GUI thread and decoder threads |
| `VideoManagerProofs` | | theorems |
| `DataPath`, `MCDataPath` | `Core.{hpp,cpp}`, `Src/Domain/{Camera,Device,ServerStatus,Alarm}.cpp`, `DeviceModel`, `ServerStatusModel`, `UserModel`, `AiImageModel`, `AlarmController` | composition of GUI thread, pool, stores and models |
| `DataPathProofs` | | theorems |
| `Session` | `NetworkBridge`, `AuthController.cpp`, page and logout of `AppController` | composition of controllers, bridge, connection and server |
| `SessionProofs` | | theorems |
| `SequenceFacts` | | lemmas on sequences, minima, loops and folds that several proofs use |

Definitions whose name starts with `Mut` are faulty variants of the definition
that follows them; they are used by no specification. They record, for each
property, a plausible mistake in the code that the property catches.

### ThreadPool

`queue_` and `stop_` are the members. `worker[w]` says where a worker is:
about to test the predicate, waiting on `cv_`, running a task, or gone;
`submitter[s]` says whether a submitting thread still owes the `notify_one` that
comes after its critical section; `dtor` follows the destructor through the
critical section, `notify_all` and the joins. `outcome[t]` is what the caller
can learn of a task. `accepted` and `started` are history: the tasks in the
order they were queued, and how many of them were taken. A critical section is
one step, and every gap between two of them is an interleaving point. A wait may
end spuriously.

The two overloads of `Submit` differ where it matters: the template tests `stop_`
and catches what the task throws; the plain one does neither, so an exception
ends the process (`terminated`). That no thread submits with the plain overload
while the pool is destroyed is the guard of `SubmitPlain`: `Core` destroys the
pool on the GUI thread that also makes those submissions.

### UdpSession

All handlers run on the io thread, so a handler is a step. `fragments_` maps
sequence numbers to the image the bytes belong to, which is what the properties
have to tell apart. `timer` is the wait that is set, `expired` holds handlers of
waits that ran out and that `cancel()` no longer reaches. `received` and `images`
are history. The network may deliver any fragment in any order or never; a
fragment that is sent several times is a different DTLS record each time, so
up to `MaxCopies` copies are accepted, as after retransmission requests. The
widths of the counters are constants: 256 values in the code, a few in a
run, so that their edges are reached. `hung` is the io thread inside
`for (uint8_t i = 0; i <= expected_max_seq_; ++i)` with a maximum of 255.

### NetworkService

`gui` is the GUI thread, which blocks inside `disconnect` until the io thread has
ended; `strand_` is the queue of posted handlers, each an action that does what
the handler does; `connecting`, `read` and `udpReceiving` are the asynchronous
operations that keep `io_context::run` from returning. A read that has completed
waits in `read` until its handler runs, so it can no longer be aborted. The
bytes of TLS are left out: a session is in its handshake or open, and nothing is
decrypted before it is open; without a TLS context it starts open (`ConnectPlain`).
`closed` is the socket after `TcpSession::close`. `WriteFails` covers writes of any message.

### CameraModel

A row is a record with the fields of `CameraEntry`; a handler is one step because
everything runs on the GUI thread. The handlers are operators on the value
`Grid` of the members, so that `onStoreUpdated` is literally a fold: a turn for each
row, the new ones included, which splits the row if it is online, whole, to be split
and not marked. `retired` is history: slot ids of removed rows. What the handlers emit
is the subject of `VideoManager`. New cameras are appended in any order, because the code walks a
`QHash`. Rectangles are in twelfths of the frame, in which halves, thirds and
quarters are exact; floating point is not modelled. A sensor reading is
represented by the camera it came from. Titles, types and card sizes are left
out, and so is `cameraOnline`, which concerns `VideoManager` alone. `setOnline` and
`setData` are not modelled: nothing in the repository calls them.

### VideoManager

Two kinds of threads meet here. The GUI thread runs handlers one after the other;
a handler is one step, except where `stopStream` joins a decoder: there it stops,
what is left of it stays in `todo`, and no other handler runs before `todo` is empty.
The decoder of a worker opens its source, sleeps three seconds after a failure,
waits for packets and delivers frames, a step each; `interrupt_cb` is what gets it
out of a blocking call of FFmpeg. `timerEvent` reads the frame count and the frame in
two steps, `onFrameReady` stores and counts in two steps, in the opposite order.

`CameraModel` is reduced to its rows (slot, camera, online) and to what it emits,
in the order of the code: `swapSlots` announces the slots before `dataChanged`,
`onStoreUpdated` goes through the rows, restarting workers, before it inserts and
announces new ones. Streams do not influence each other, so one item stands for
all: a card of the dashboard, a card of the device list, or a detached window (not the
dashboard's full screen overlay, see 6). Its
fields are those of `VideoStream` (`camera`, `worker`, `lastSeq`, `listening`) and of the
QML around it. A frame is its number. Splits are into two tiles, by the user; the
automatic ones are the same operation (and the shipped table of them is empty).

### DataPath

The way of a packet: `Receive` (a callback of the bridge) puts it into the event
queue, `packetReceived` submits the tasks `Core::wireSignals` connects it to, workers
start them in order (`FifoStart` of `ThreadPool`) and run them side by side, and each
critical section of a store, and each post to the event queue, is a step. The
handlers of the models end the way. A value from a packet is the number of the
packet, which is all that freshness needs. `CameraId` is the parser's "ip/stream" with
its fallback, `Matching` the prefix test on ids (`Extended` says which addresses begin
with which), `CameraMerge` and `AvailableMerge` what a list and an update do to
`DeviceStore`, including one row per stream and the first row that lookups find. The
loops of the code over items and rows are folds of the operator that is one turn
(`KeepMissing`, `UpdateDevice`, `ShowDevice`, `FoundCamera`).
`form` says whether a packet parses, is not JSON of the right shape, or has a field
that makes nlohmann::json throw; the last ends the process when the task is a plain
one. `shutdown` waits for `NetworkService::disconnect` first (`closing`), which may take
for ever, as the runs of `NetworkService` show; workers go on meanwhile. It then resets
the stores and joins the pool; a task that still needs a store takes
`UsesDestroyedStore`. A camera may be listed without a url (`NoUrl`), which is stored as
it is, over a good one too.

`version`, `shownVersion`, `reading`, `lone` and `cleared` are history: which state of
`DeviceStore` is shown, the newest data stored for an address, the last packet if it
found no work under way, and whether the last logout did. What a packet must show is
stated with the address alone (`Own`), not with the code's prefix test.

### Session

All of it runs on the GUI thread, so a handler is a step. `link`, `purpose` and
`requests` are the connection as `NetworkService` provides it: it comes up, fails or is
lost at any moment, requests are answered in order or lost with it. Events carry no
connection, as in the code, so that late ones meet a later state; an attempt that is
closed may still deliver its "connected". `login` and `signup` hold `isLoading_`, `isError_`
and whether credentials wait for a connection. A controller that is told nothing of a
lost connection stays busy, and the model keeps it so. A device command sets one field,
as the pages call `sendDevice`; a movement is one of the values of "motor".
The side panel opens over every page: it leads from the login and sign-up pages
to the others without a login (`navigate`; "Home" stands for all of them) and offers
Logout everywhere, also while a request is under way. Device controls need a
device with a camera, which only a login brings (`Command`). `wanted` and `device` are
history; `spoiled` records that a connection failed or was lost or that something was
asked for during another exchange, `again` that a login or a sign-up was made while
logged in.

## 3. Runs

| Run | Checks | Shows |
|---|---|---|
| `pool` | `TypeOK`, `FifoStart`, `EachTaskOnce`, `DrainedAtJoin`, `NoLostWakeup`, `EventuallyRun`, `DestructorReturns`, `ImplementsTaskService` | order, exactly-once execution, drain before exit, no lost wakeup; every accepted task runs and the destructor returns unless the process dies; the pool is a `TaskService` |
| `udp_reassembly` | `TypeOK`, `WholeImages`, `RedeliveryNeedsWholeCopy`, `LossIsNoticed`, `LossIsRequested` | images are never mixed or holed; stray copies do not bring an image back; a loss is noticed and asked for |
| `udp_first_frame_255` | `LossIsNoticed` - violated | if the first frame has number 255 no timer is set for it |
| `udp_full_image` | `EveryLossIsRequested` - violated | a loss in an image of 256 fragments sends the io thread into an endless loop |
| `net_lifecycle` | `TypeOK`, `StatusIsCurrent`, `NoSendBeforeHandshake`, `DisconnectReturns` | the status is that of the session, and is left set for a closed socket only while disconnect is still in its join; nothing is sent into a handshake; disconnect returns if neither a connection attempt nor a UDP session is in its way |
| `net_disconnect_image` | `DisconnectEndsImages` - violated | after the first IMAGE message disconnect never returns |
| `net_disconnect_late` | `JoinReturns` - violated | a connection that comes up after the cleanup is left open and disconnect waits for the server to close it |
| `grid` | `TypeOK`, `CameraShownOnce`, `TilesCoverFrame`, `SlotIdNeverReused`, `AutoMarksAreLive`, `AutoSplitIsComplete` | split groups stay whole and cover the frame wherever their tiles are moved; ids are not reused and marks name rows; automatic splits in one snapshot do not disturb each other |
| `video` | `TypeOK`, `StreamShowsItsCamera`, `DecoderHasWorker`, `SeenIsShown`, `HandlersEnd`, `NewestFrameIsShown` | between handlers a stream is attached to the worker of its row's camera; no decoder without a worker; no frame is marked as seen that was not shown; joins on the GUI thread return; the newest frame reaches the screen |
| `data` | `TypeOK`, `RowsHaveUrl`, `ReadingsKept`, `DeviceModelShowsStore`, `LonePacketIsShown` | a camera that is shown has its entry, with a url unless a list names it without one; data of AVAILABLE survives camera lists; a packet that meets no other is shown in full at the cameras of its address, and after a logout without work under way with nothing of the session before except its devices |
| `session` | `TypeOK`, `LoggedInIsConnected`, `LastChoiceWins`, `LoginAnswered` | an undisturbed login is answered; whoever has a role is connected, unless the connection was lost, exchanges overlapped, or a login or sign-up was made while logged in; a device ends with the setting chosen last |
| `session_move` | `MovementEndsAuto` - violated | an "auto" chosen shortly before a movement is sent after it, and the device stays in automatic mode |

The violated properties state what a comment or the repository's README says; the
`findings` in `PROJECT.json` quote the lines.

### Bounds

- `pool`: two workers, two submitters, four tasks, of which one of each kind
  throws. Two of each are needed for races between takers, between submitters,
  and between a notification and a worker that is still awake. About 14 000
  states.
- `udp_reassembly`: images of two and three fragments, two copies of each
  fragment: interleaving of two images, repetition after completion, and a timer
  that expires while its image is completed or replaced. With `SeqMod = 3` the
  second image uses the whole range of sequence numbers, so the endless loop is
  part of the run. `ControlCap = 1` bounds the messages that wait for the TCP
  session; it delays handlers and removes none. About 700 000 states.
- `net_lifecycle`: two connects, two sends, three messages from the server:
  enough for a disconnect and reconnect with handlers of every kind on both
  sides of the cleanup. About 744 000 states. The run does not check for
  deadlock: the bounds run out, and a disconnect that waits for ever is a stop.
- `grid`: two cameras that are split in two automatically, at most seven slot
  numbers per session. That admits a snapshot with both cameras, any permutation
  of their tiles, and, with one camera, a merge followed by a split by hand into
  up to four tiles in any layout. The cameras are interchangeable, which the
  symmetry uses; sensor readings influence no other field, so states that differ
  only in readings are identified (`VIEW WithoutReadings`). `TypeOK` is checked
  on one representative of each such class. About 46 000 states.
- `video`: two cameras, one without a source_url, four slot numbers per session and
  two frames per worker: swaps, a split and a merge, restarts with a decoder in any
  state, and a frame published between the two reads of `timerEvent`. About 830 000
  states.
- `data`: two workers and three packets, all of which may be under way at once; the
  positions differ in which contents they try, so that lists are followed by updates, by
  lists without a device, and by malformed packets. Two addresses, one a prefix of the
  other, one with two streams, of which one list names one twice and another gives no
  url. The limits of the histories are 1, so that every second append overflows. One
  logout. About 2 050 000 states.
- `session`: one device with two settings, four clicks, two commands: enough for a
  sign-up whose connection a login uses, for two logins that overlap, for a logout from
  any page during a request, and for a logout with settings pending and a second
  session. About 1 450 000 states. The run does not check for deadlock: when the clicks
  are used up the program waits for its user. `session_move` needs one click (a login)
  and two commands ("auto", then a movement).

### Fairness

- `ThreadPool`: weak fairness of each worker, of a submitter's pending
  `notify_one` and of the destructor's steps: operating system threads are
  scheduled, and tasks are finite. Nobody is obliged to submit, to destroy the
  pool or to wake up spuriously.
- `UdpSession`: timers expire, queued handlers run, the TCP session takes messages
  away. The network owes nothing: no fragment is ever obliged to arrive.
- `NetworkService`: the io thread runs what is ready, the operating system ends a
  connection attempt one way or the other, and a read on a socket closed by
  this side fails. The server may keep a connection open for ever.
- `CameraModel` has no liveness property and no fairness: it reacts.
- `VideoManager`: weak fairness of the handler that is running and of what a decoder
  does by itself or when it is interrupted (sleeps end, frames are delivered); strong
  fairness of `timerEvent`, because the event loop comes round to the 16 ms timer
  although other handlers keep interrupting its being enabled. Neither the network nor
  the user owes anything.
- `DataPath` has no liveness property and no fairness: `LonePacketIsShown` is a safety
  property of moments without work, and that a shutdown ends cannot be promised, since it
  begins with a `disconnect` that may not return.
- `Session`: the event loop handles what is queued, the timer fires, a connection
  attempt ends one way or the other, and the server answers over a connection that
  stays up. Without the last no login could be promised an answer; what the code can
  get wrong, routing the answer to a controller, is on this side of it.

## 4. Proofs

The theorems hold for every value of the constants that satisfies the assumptions of
the modules: any number of workers, images, cameras, devices, packets, frames, and any
bounds. The runs check the same formulas on one small instance. Except for the type
invariants, which are part of it, none of the properties is inductive; each module
states the inductive invariant it needs, and has a lemma for each kind of step.

| Module | Theorem | States |
|---|---|---|
| `ThreadPoolProofs` | `PoolTypeCorrect` | `Spec => []TypeOK` |
| | `FifoOrder` | `Spec => []FifoStart` |
| | `ExactlyOnce` | `Spec => []EachTaskOnce` |
| | `Drained` | `Spec => []DrainedAtJoin` |
| | `WakeupNotLost` | `Spec => []NoLostWakeup` |
| | `PoolRefinesService` | `Spec => Service!Safety`, the pool implements `TaskService` |
| `UdpSessionProofs` | `UdpTypeCorrect` | `Spec => []TypeOK` |
| | `ImagesAreWhole` | `Spec => []WholeImages` |
| | `RedeliveryIsPaidFor` | `Spec => []RedeliveryNeedsWholeCopy` |
| | `LossesAreNoticed` | `Spec => []LossIsNoticed`, if no image has the initial frame number |
| `NetworkServiceProofs` | `NetTypeCorrect` | `Spec => []TypeOK` |
| | `StatusIsTrue` | `Spec => []StatusIsCurrent` |
| | `HandshakeBeforeSend` | `Spec => []NoSendBeforeHandshake` |
| `SessionProofs` | `SessionTypeCorrect` | `Spec => []TypeOK` |
| | `LoginNeedsConnection` | `Spec => []LoggedInIsConnected` |
| | `LastChoice` | `Spec => []LastChoiceWins` |
| `VideoManagerProofs` | `VideoTypeCorrect` | `Spec => []TypeOK` |
| | `StreamsShowTheirCamera` | `Spec => []StreamShowsItsCamera` |
| | `DecodersHaveWorkers` | `Spec => []DecoderHasWorker` |
| | `SeenFramesAreShown` | `Spec => []SeenIsShown` |
| `CameraModelProofs` | `CameraTypeCorrect` | `Spec => []TypeOK` |
| | `ShownOnce` | `Spec => []CameraShownOnce` |
| | `TilesCover` | `Spec => []TilesCoverFrame` |
| | `SlotIdsAreFresh` | `Spec => []SlotIdNeverReused` |
| | `MarksAreLive` | `Spec => []AutoMarksAreLive` |
| | `NoRowIsMissed` | `Spec => AutoSplitIsComplete`, an action property |
| `DataPathProofs` | `DataTypeCorrect` | `Spec => []TypeOK` |
| | `ShownCamerasHaveUrl` | `Spec => []RowsHaveUrl` |
| | `ReadingsAreKept` | `Spec => []ReadingsKept` |
| | `LastCopyIsShown` | `Spec => []DeviceModelShowsStore` |
| | `LonePacketsAreShown` | `Spec => []LonePacketIsShown` |

### The arguments

**ThreadPool.** `PoolInv` adds `Distinct` (a task is queued once), `Queued` and `Taken`
(what waits has no result; what was taken has one or is held by a worker), `Holding` (a
running worker holds a taken task without a result, and holds it alone), and
`Stopping` (`stop_` is the destructor's; a worker leaves only a stopped and empty pool,
and the joins end when all have left). `FifoStart` connects queue and history and lets
`TakeTask` find that the task it takes is the next one. The refinement takes the same
invariant: a critical section of `Submit` or of a worker maps to one step of the
service, and everything about `cv_` maps to a stutter.

**UdpSession.** `OneFrame` says that everything in `fragments_` has the current frame
number and a place in its image. The frame number identifies the image as long as
there are no more images than frame numbers (`FrameInjective`, from `UdpAssumption`).
Completion is a count in the code; that a full count means that no position is missing
is a fact about cardinalities (`StoreFacts`). `LossInv` adds `CopiesSpent` (deliveries and the
reassembly under way have each used a copy of their own of every fragment they hold)
and `FrameBegun` (the current frame was begun by one of its fragments, is incomplete,
and has been delivered if nothing is held). The initial frame number, 255 in the code,
was begun by no fragment: hence the hypothesis of `LossesAreNoticed`, which is exactly
what the run `udp_first_frame_255` violates.

**NetworkService.** `NetInv` says when a connection attempt is possible (`Attempting`), what
the TLS state says about the read that is outstanding (`Reading`), that `connected_` is
set for an open session only and that a disconnected session which is still reported
has its "lost" handler queued behind the "connected" one (`Reported`), that nothing is
left over when `run()` has returned (`AtRest`), and that a session whose socket is closed
without a failure was closed by a disconnect that is still in its join (`Closing`).
`Reading` then gives the rest of `StatusIsCurrent`: such a session has a read that has
yet to fail and to post "lost".

**Session.** `SessionInv` has two parts that do not meet. `OneAtATime`: as long as nothing
was lost and nothing was asked for during another exchange there is one exchange at
most, a request to log in or to sign up or the event that answers it, and neither is left
once a role is set (unless one was begun after that, `again`). No page occurs in it:
navigation does not matter. `Chosen`: the last setting chosen for a device is kept for
the timer, or the requests in flight, movements among them, come to it when the server
takes them in order (`Settles`).

**VideoManager.** A handler that stops at a join leaves `todo`, and `TodoOK` says what such a
rest may be: steps of `onStoreUpdated` about rows that exist, steps of a logout that end
with its last one, or the second half of `timerEvent`. `GridOK`, `ItemOK` and `SeenOK` then
say, except inside a logout, that `VideoManager` knows every row and has a worker for
each of its cameras, that an item is bound to the camera and the worker of its row, and
that what it has seen was counted and put on the screen. `Follows` describes what a
handler may do to an item, is transitive, and is proved once for each thing that an
item is told.

**CameraModel.** The properties are about rows wherever they stand, so the invariant is
one about the set of rows: each is a whole card or a tile of a numbered group
(`EntryOK`), the rows of a camera belong to one split (`Together`), and no tile is missing
(`Complete`). `GridOK` adds that slot ids are different and below the counter and that marks
name rows; `Follows` that a handler gives no number twice. Each handler is an operator
on the value `Grid` and is shown to keep `GridOK`. The pass of `onStoreUpdated` runs over
the rows as they were while its splits change the list: `PassInv` says which rows are
dealt with after each turn.

**DataPath.** `DataTypes` gives the type of every event and task, and says that a task
which has been parsed has what its next step takes (`Fits`). Three invariants stand on it.
`UrlInv`: the task of a list has stored the urls of all its items but those that are left,
and a posted list has all of them; `EmptyInv`: an empty url comes from an item without
one, and what a task has left are items of its list. `ReadingsKept` is inductive with the types, once it
is known what the loops of `DeviceStore` do: every row a camera list makes has what is
known of its address and none is left out (`Merged`), and an update reaches the first
row of each address it names and no other (`Updated`). `VersionInv`: a copy of the devices,
in a task or in the event queue, knows its version, none is of a version to come, and
one of the present version equals the store; that showing it puts each device of a
single row where `findIndexByIp` looks is `ShowsFacts`.

`LonePacketIsShown` says nothing of the states in between, so its invariant `LoneInv`
follows the packet through them. `LoneWork`: as long as the packet is alone, every task
and call under way is its own (`Belongs`). Then, for each thing that a packet changes,
the part is still under way or has been reached. Where one call does it all
(`LoneServer`, `LoneAlarm`, `LoneUsers`, `LoneList`), "under way" is the packet, its task
or the task's call (`UnderWay`). Where a task goes through the cameras it found
(`LoneSensors`, `LoneCount`), it is said for each camera: not looked up yet, or still left
to the task, or done (`Early`, `Left`). Images need the order as well, since a later call
for the same camera replaces the picture of the first: `LoneImage` counts the calls that
are posted and those that are handled, and `ImagesAt` says what the model then holds.
The property speaks of the device's own address, the invariant of what `Matching` found:
`FoundFollows` says that it found the items whose address extends the given one, in
their order, from which `OwnAreFound` and `ImagesShown` derive the property.
Devices go through store, copy and model (`LoneRows`, `LoneReadings`): what the store's
loops leave (`Kept`, `IsMerged`, `Updated`) is what the copy carries and what showing it
puts in the rows. What the rest of the state has to be for this is an invariant of its
own: no address is shown that the store does not have (`AddressInv`), nothing is numbered
as a packet to come (`FreshInv`), and after a logout without work the models are empty
until a packet comes (`ClearedInv`), from which `LoneElse` starts.

Loops are where induction is needed, and the prover has no induction over data whose
hypothesis is an operator. `SequenceFacts` therefore states induction about sets of
numbers (`SetInduction`, `LoopInvariant`), derives it from the well-foundedness of `<`, and
shows that a fold over a sequence has the turns one expects (`FoldExists` and what
follows). Each loop of the code then has a lemma that gives its turns (`AutoSplitLoop`,
`KeepLoop`, `UpdateLoop`, `ShowLoop`, `FindLoop`) and one about a single turn.

The proofs rest on the named assumptions on constants, which TLC evaluates in the
runs. Those that say something about the world: there are no more images than frame
numbers (`UdpAssumption`); the tile counts of the deployment are 1 to 4
(`AutoTilesAssumption`, as `Config.hpp` asks); a packet that can be parsed has the fields
its parser reads (`PacketsAssumption`); an address begins with itself (`DataAssumption`); sets
of workers, cameras and devices are finite.

### Only model-checked, and why

- Liveness is beyond the prover: `EventuallyRun`, `DestructorReturns`, the fairness in
  `ImplementsTaskService` (its safety part is `PoolRefinesService`), `LossIsRequested`,
  `DisconnectReturns`, `HandlersEnd`, `NewestFrameIsShown`, `LoginAnswered`.

Every invariant that a passing run checks, and the action property `AutoSplitIsComplete`,
is a theorem.

## 5. What the models show beside the properties

Behaviour that the checks reach and that no property calls wrong, in most cases because
nothing in the repository says what should happen:

- Two lists, or two updates, that are parsed at the same time may be applied in the
  opposite order; the older one then stays until the next packet. `LonePacketIsShown`
  and `DeviceModelShowsStore` leave these cases out.
- A logout with work under way: queued events of the old session fill the models again.
  The stores and `ServerStatusModel` are not cleared at all, so the next session's first
  AVAILABLE brings the old devices back.
- A task that is still queued when `shutdown` begins uses a store that is gone, unless
  the wait for the network gave the workers the time to finish. `shutdown` itself ends
  only if `disconnect` returns.
- A list that names a camera without a url replaces the url an earlier list gave.
- A device with two streams has two rows; AVAILABLE updates the first, `DeviceModel`
  looks up the last, and the first row it shows is not updated after that.
- An address that is a prefix of another gets the other's cameras as matches, so a reading
  or a count of 10.0.0.1 is stored for, and shown with, the cameras of 10.0.0.12 as well.
  The comments at `Core.cpp:244` and `:247` ("Find all CameraIDs matching this IP", "IP/streamNum")
  suggest otherwise; `LonePacketIsShown` requires what the device's own cameras show and
  does not forbid this. Of several matches only the first gets the picture of an image.
  A camera that a list names twice is matched twice, and the second call, whose picture
  is empty, becomes its newest image.
- Alarms of one millisecond share an id; dismissing one removes the older of them.
- A connection that fails or is lost leaves login and sign-up busy; a sign-up that
  succeeds stays busy too, since `signupSuccess` is never emitted. The side panel
  shows the dashboard without any login. Two logins at once, a logout while an answer is
  queued, or a second login that fails leave a role set without a connection.
- `swapSlots` leaves a sensor reading with its slot, although the comment at
  `CameraModel.cpp:87` says that all fields but the slotId are exchanged; the next META of
  each camera mends it.
- The mark of an automatic split stays with its slot too: a camera swapped into a marked
  slot is not split when it comes online, although `Config.hpp:38-39` speaks of splits by
  camera id. `AutoSplitIsComplete` excepts marked slots.
- Settings pending at logout are sent in the next session, or dropped.
- A detached window whose row a split or merge removes goes back to the camera it was
  detached with; `StreamShowsItsCamera` is about items whose row exists.

## 6. Not modelled, and what is left

- The order of bytes that `TcpSession::sendMessage` writes: composed writes can
  overlap; needs a model of the socket and of the server that reads it.
- Which metadata an image is delivered with: `expected_meta_` is overwritten by the
  next announcement, and when the server sends it is not in the repository.
- OpenSSL (TLS, DTLS), FFmpeg, Qt and boost::asio are libraries and are modelled
  by what the code relies on: the bulk of `Src/Crypt/TLS.hpp` and `MediaDTLS.hpp` is the
  set-up of OpenSSL contexts, certificates and memory BIOs.
- The dashboard's full screen overlay (`DashboardPage.qml:231-484`): its stream is given a
  slot and a camera once and is bound to no row, so it may show what has since moved into
  the slot; the items of `VideoManager` are those that follow a row or detach from one.
- A device command with several fields at once, which `sendDevice` would accept and no
  page sends; a failure message for anything but a login or a sign-up.
- `SessionEngine`, `Src/Crypt/DTLS.hpp` and `AlarmManager` are not used by the
  program. `SettingsController` is a set of setters and a file; QML and the build files
  are presentation and configuration.
- Getters and `data()` of the models, which change nothing; mutators without a caller
  (`clear` of the stores, `UserModel::onStoreUpdated`, `CameraModel::setOnline`).
- The frame rate limit as a number: a frame may be dropped, which is all it does.

## 7. Running

    tlc -config ThreadPool.cfg MCThreadPool
    tlc -config UdpSession.cfg MCUdpSession
    tlc -config NetworkService.cfg NetworkService
    tlc -config CameraModel.cfg MCCameraModel
    tlc -config VideoManager.cfg MCVideoManager
    tlc -config DataPath.cfg MCDataPath
    tlc -config Session.cfg Session
    tlapm ThreadPoolProofs.tla
    tlapm UdpSessionProofs.tla
    tlapm NetworkServiceProofs.tla
    tlapm SequenceFacts.tla
    tlapm SessionProofs.tla
    tlapm VideoManagerProofs.tla
    tlapm CameraModelProofs.tla
    tlapm DataPathProofs.tla

and the other configurations likewise with the module that `PROJECT.json` names.
