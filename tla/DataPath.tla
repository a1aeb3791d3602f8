------------------------------- MODULE DataPath -------------------------------
(***************************************************************************)
(* Core.cpp with the stores of Src/Domain, the models it feeds and the     *)
(* alarm list: the way of a packet from NetworkBridge's signal through     *)
(* pool tasks and a store to a queued call on the GUI thread.              *)
(*                                                                         *)
(* Tasks start in the order they were submitted (ThreadPool.FifoStart) and *)
(* then run side by side; each critical section of a store and each post   *)
(* to the event queue is a step.  A value parsed from a packet is the      *)
(* number of the packet.  CameraModel's grid is a module of its own: here  *)
(* it is what the user sees of each camera.                                *)
(***************************************************************************)
EXTENDS Integers, FiniteSets, SequencesExt

CONSTANTS Ips, Streams,        \* addresses of devices, stream numbers
          Extended,            \* Extended[ip]: the addresses whose text begins with ip
          Packets,             \* Packets[n]: contents the n-th packet may have
          NoStream,            \* a source_url without a stream number
          NoUrl,               \* an empty or missing source_url
          Threads,             \* number of pool workers
          MaxPackets,          \* bound: packets received
          MaxLogouts,          \* bound: logouts
          MAX_HISTORY, MAX_STATUS_HISTORY, MAX_SERVER_HISTORY,
          MAX_EVENTS_PER_CAMERA, kMaxAlarms

Cameras == Ips \X Streams
Numbers == 0..MaxPackets       \* 0: never set
Contents == UNION {Packets[n] : n \in 1..MaxPackets}

\* An entry of a CAMERA list, as the parsers of both stores read it.
Items == [ip : Ips, stream : Streams \union {NoStream, NoUrl}, online : BOOLEAN]

ASSUME DataAssumption ==
  /\ DOMAIN Packets = 1..MaxPackets
  /\ 0 \in Streams /\ NoStream \notin Streams
  /\ NoUrl \notin Streams \union {NoStream} \union Numbers
  /\ Extended \in [Ips -> SUBSET Ips] /\ \A ip \in Ips : ip \in Extended[ip]
  /\ Threads \in Nat \ {0} /\ MaxPackets \in Nat /\ MaxLogouts \in Nat
  /\ {MAX_HISTORY, MAX_STATUS_HISTORY, MAX_SERVER_HISTORY, MAX_EVENTS_PER_CAMERA,
      kMaxAlarms} \subseteq Nat \ {0}

\* A packet has one of the types that NetworkBridge passes on to these parts, and, when
\* it can be parsed, what the parser of its type reads.
ASSUME PacketsAssumption == \A p \in Contents :
  /\ p.type \in {"CAMERA", "AVAILABLE", "META", "AI", "IMAGE", "ASSIGN"}
  /\ p.form = "ok" =>
       CASE p.type = "CAMERA"    -> p.list \in Seq(Items)
         [] p.type = "AVAILABLE" -> p.ips \in Seq(Ips) /\ p.server \in BOOLEAN
         [] p.type = "AI"        -> p.ip \in Ips /\ p.alarm \in BOOLEAN /\ p.count \in BOOLEAN
         [] p.type = "ASSIGN"    -> p.ok \in BOOLEAN
         [] OTHER                -> p.ip \in Ips

VARIABLES process,     \* "up", "closing" (shutdown waits for the network), "quitting",
                       \* "ended", "aborted" (an exception left a plain task) or
                       \* "undefined" (a destroyed store was used)
          connected, received, logouts,
          events,      \* the GUI thread's event queue
          queue_, running,            \* the pool: waiting tasks, tasks being run
          alive,                      \* stores not yet reset by shutdown
          table_, data_,              \* CameraStore; a url is the list it came with
          devices_,                   \* DeviceStore
          status_,                    \* ServerStatusStore
          cameras,                    \* CameraModel
          deviceRows,                 \* DeviceModel
          server,                     \* ServerStatusModel
          users,                      \* UserModel
          images,                     \* AiImageModel
          alarms_, clock,             \* AlarmController, milliseconds
          version, shownVersion,      \* history: devices_ changes, the one shown
          reading,                    \* history: newest AVAILABLE data stored, by ip
          lone,                       \* history: the last packet, if it found no work under
                                      \* way, and whether it is the first after a logout
          cleared                     \* history: the last logout found no work, and
                                      \* no packet has come since

stores == <<table_, data_, devices_, status_, version, reading>>
models == <<cameras, deviceRows, server, users, images, alarms_, clock, shownVersion>>
control == <<process, connected, received, logouts, alive, lone, cleared>>
vars == <<control, events, queue_, running, stores, models>>

Absent == [shown |-> "absent", sensor |-> 0]

Init ==
  /\ process = "up" /\ connected = FALSE /\ received = 0 /\ logouts = 0
  /\ events = <<>> /\ queue_ = <<>> /\ running = {}
  /\ alive = {"camera", "device", "server"}
  /\ table_ = [c \in Cameras |-> [sourceUrl |-> 0, deviceInfo |-> 0, aiInfo |-> 0]]
  /\ data_ = <<>> /\ devices_ = <<>>
  /\ status_ = [devices |-> 0, server |-> 0, history_ |-> <<>>]
  /\ cameras = [c \in Cameras |-> Absent] /\ deviceRows = <<>>
  /\ server = [devices |-> 0, server |-> 0, serverHistory_ |-> <<>>]
  /\ users = 0 /\ images = [c \in Cameras |-> <<>>] /\ alarms_ = <<>> /\ clock = 0
  /\ version = 0 /\ shownVersion = 0 /\ reading = [ip \in Ips |-> 0]
  /\ lone = <<>> /\ cleared = FALSE

Idle == events = <<>> /\ queue_ = <<>> /\ running = {}

MutAppended(list, s, max) == Append(list, s)

\* At most the newest max entries of a list that s is appended to.
Appended(list, s, max) ==
  LET l == Append(list, s) IN IF Len(l) > max THEN Tail(l) ELSE l

-------------------------------------------------------------------------------
(* The GUI thread: packets in, models up to date *)

Login ==
  /\ process = "up" /\ ~connected
  /\ connected' = TRUE
  /\ UNCHANGED <<process, received, logouts, alive, lone, cleared, events, queue_,
                 running, stores, models>>

\* A callback of NetworkService posts the packet to the GUI thread.
Receive(p) ==
  /\ process = "up" /\ connected /\ received < MaxPackets
  /\ p \in Packets[received + 1]
  /\ received' = received + 1
  /\ events' = Append(events, [type |-> "packet", n |-> received + 1, body |-> p])
  /\ lone' = IF Idle THEN <<received + 1, p, cleared>> ELSE <<>>
  /\ cleared' = FALSE
  /\ UNCHANGED <<process, connected, logouts, alive, queue_, running, stores, models>>

Task(kind, e) ==
  [kind |-> kind, n |-> e.n, body |-> e.body, at |-> "parse", left |-> <<>>]

\* The pool tasks each signal of NetworkBridge is wired to.
Submitted(e) ==
  CASE e.body.type = "CAMERA"    -> <<Task("camera", e), Task("device", e)>>
    [] e.body.type = "AVAILABLE" -> <<Task("available", e), Task("server", e)>>
    [] e.body.type = "META"      -> <<Task("meta", e)>>
    [] e.body.type = "AI"        -> <<Task("alarm", e), Task("count", e)>>
    [] e.body.type = "IMAGE"     -> <<Task("image", e)>>
    [] OTHER                     -> <<>>

\* The event at the head of the queue, which the handler removes.
Handling(type) ==
  /\ process = "up" /\ events # <<>> /\ Head(events).type = type

\* ASSIGN goes to UserModel over a queued connection, the rest to the pool.
packetReceived ==
  /\ Handling("packet")
  /\ LET e == Head(events) IN
       /\ events' = IF e.body.type = "ASSIGN"
                    THEN Append(Tail(events), [e EXCEPT !.type = "pending"])
                    ELSE Tail(events)
       /\ queue_' = queue_ \o Submitted(e)
  /\ UNCHANGED <<control, running, stores, models>>

\* The camera id "ip/stream" of an item; "ip/0" when the url does not say.
CameraId(item) == <<item.ip, IF item.stream \in Streams THEN item.stream ELSE 0>>

\* Of several items with one id the last counts.
Item(list, c) == list[Max({i \in DOMAIN list : CameraId(list[i]) = c})]
Listed(list) == {CameraId(i) : i \in Range(list)}

MutShowsCameras(list) ==
  [c \in Cameras |->
     IF c \in Listed(list)
     THEN [cameras[c] EXCEPT !.shown = IF Item(list, c).online THEN "online" ELSE "offline"]
     ELSE cameras[c]]

\* CameraModel::onStoreUpdated: new cameras get a row, missing ones go offline.
ShowsCameras(list) ==
  [c \in Cameras |->
     IF c \in Listed(list)
     THEN [cameras[c] EXCEPT !.shown = IF Item(list, c).online THEN "online" ELSE "offline"]
     ELSE IF cameras[c] = Absent THEN Absent
     ELSE [cameras[c] EXCEPT !.shown = "offline"]]

camerasUpdated ==
  /\ Handling("cameras")
  /\ cameras' = ShowsCameras(Head(events).list)
  /\ events' = Tail(events)
  /\ UNCHANGED <<control, queue_, running, stores, deviceRows, server, users, images,
                 alarms_, clock, shownVersion>>

updateSensorInfo ==
  /\ Handling("sensor")
  /\ LET c == Head(events).id IN
       cameras' = IF cameras[c] = Absent THEN cameras
                  ELSE [cameras EXCEPT ![c].sensor = Head(events).n]
  /\ events' = Tail(events)
  /\ UNCHANGED <<control, queue_, running, stores, deviceRows, server, users, images,
                 alarms_, clock, shownVersion>>

Rows(rows, ip) == {i \in DOMAIN rows : rows[i].ip = ip}

\* DeviceModel::findIndexByIp: byIp_ is rebuilt at the end of every update, and
\* a later row of the same address replaces an earlier one in it.
byIp_(rows, ip) == Max(Rows(rows, ip))

MutShowsDevices(snapshot) ==
  deviceRows \o SelectSeq(snapshot, LAMBDA d : Rows(deviceRows, d.ip) = {})

\* DeviceModel::onStoreUpdated looks every device up in the index of before.
ShowDevice(rows, d) ==
  IF Rows(deviceRows, d.ip) = {} THEN Append(rows, d)
  ELSE [rows EXCEPT ![byIp_(deviceRows, d.ip)] = d]

ShowsDevices(snapshot) == FoldLeft(ShowDevice, deviceRows, snapshot)

devicesUpdated ==
  /\ Handling("devices")
  /\ deviceRows' = ShowsDevices(Head(events).snapshot)
  /\ shownVersion' = Head(events).version
  /\ events' = Tail(events)
  /\ UNCHANGED <<control, queue_, running, stores, cameras, server, users, images,
                 alarms_, clock>>

\* ServerStatusModel::onStoreUpdated.
serverUpdated ==
  /\ Handling("server")
  /\ LET e == Head(events) IN
       server' = [devices |-> e.n, server |-> e.server,
                  serverHistory_ |->
                    IF e.server # 0
                    THEN Appended(server.serverHistory_, e.n, MAX_SERVER_HISTORY)
                    ELSE server.serverHistory_]
  /\ events' = Tail(events)
  /\ UNCHANGED <<control, queue_, running, stores, cameras, deviceRows, users, images,
                 alarms_, clock, shownVersion>>

\* A reply that is not a success is ignored.
onPendingListReceived ==
  /\ Handling("pending")
  /\ users' = IF Head(events).body.ok THEN Head(events).n ELSE users
  /\ events' = Tail(events)
  /\ UNCHANGED <<control, queue_, running, stores, cameras, deviceRows, server, images,
                 alarms_, clock, shownVersion>>

onImageReceivedBase64 ==
  /\ Handling("image")
  /\ LET e == Head(events) IN
       images' = [images EXCEPT ![e.id] =
                    Appended(@, [n |-> e.n, picture |-> e.picture], MAX_EVENTS_PER_CAMERA)]
  /\ events' = Tail(events)
  /\ UNCHANGED <<control, queue_, running, stores, cameras, deviceRows, server, users,
                 alarms_, clock, shownVersion>>

\* The id is the time in milliseconds, which may be that of the last alarm.
onAlarm ==
  /\ Handling("alarm")
  /\ \E tick \in {0, 1} : clock' = clock + tick
  /\ alarms_' = Append(IF Len(alarms_) >= kMaxAlarms THEN Tail(alarms_) ELSE alarms_,
                       [id |-> clock', n |-> Head(events).n])
  /\ events' = Tail(events)
  /\ UNCHANGED <<control, queue_, running, stores, cameras, deviceRows, server, users,
                 images, shownVersion>>

\* The user dismisses the alarm at i: the first one with its id goes.
dismiss(i) ==
  /\ process = "up" /\ i \in DOMAIN alarms_
  /\ alarms_' = RemoveAt(alarms_, Min({j \in DOMAIN alarms_ : alarms_[j].id = alarms_[i].id}))
  /\ lone' = <<>>
  /\ UNCHANGED <<process, connected, received, logouts, alive, cleared, events, queue_,
                 running, stores, cameras, deviceRows, server, users, images, clock,
                 shownVersion>>

\* disconnect, then clearAll of every model but ServerStatusModel.  The side panel
\* offers it on every page, connected or not.
logoutRequested ==
  /\ process = "up" /\ logouts < MaxLogouts
  /\ connected' = FALSE /\ logouts' = logouts + 1
  /\ users' = 0 /\ cameras' = [c \in Cameras |-> Absent]
  /\ deviceRows' = <<>> /\ shownVersion' = 0
  /\ alarms_' = <<>> /\ images' = [c \in Cameras |-> <<>>]
  /\ lone' = <<>> /\ cleared' = Idle
  /\ UNCHANGED <<process, received, alive, events, queue_, running, stores, server,
                 clock>>

-------------------------------------------------------------------------------
(* The pool *)

poolRuns == process \in {"up", "closing", "quitting"}

StartTask ==
  /\ poolRuns /\ queue_ # <<>> /\ Cardinality(running) < Threads
  /\ running' = running \union {Head(queue_)}
  /\ queue_' = Tail(queue_)
  /\ UNCHANGED <<control, events, stores, models>>

Goes(t, at, left) == running' = (running \ {t}) \union {[t EXCEPT !.at = at, !.left = left]}
Ends(t) == running' = running \ {t}

\* QMetaObject::invokeMethod; once the event loop has ended nothing is delivered.
Post(e) == events' = IF process = "up" THEN Append(events, e) ELSE events

At(t, kind, at) ==
  /\ poolRuns /\ t \in running /\ t.kind = kind /\ t.at = at

StoreOf(t) ==
  CASE t.kind \in {"device", "available"} -> "device"
    [] t.kind = "server"                  -> "server"
    [] t.kind = "alarm"                   -> "none"
    [] OTHER                              -> "camera"

\* The critical section of a store that still exists.
Locks(t, kind, at) == At(t, kind, at) /\ StoreOf(t) \in alive

\* shutdown has destroyed the store: anything may happen.
UsesDestroyedStore(t) ==
  /\ poolRuns /\ t \in running /\ StoreOf(t) \notin alive \union {"none"}
  /\ t.at \in {"lock", "table", "info"}
  /\ process' = "undefined"
  /\ UNCHANGED <<connected, received, logouts, alive, lone, cleared, events, queue_,
                 running, stores, models>>

FirstStep(t) ==
  CASE t.kind = "camera" /\ t.body.list # <<>> -> Goes(t, "table", t.body.list)
    [] t.kind = "alarm"  -> Goes(t, "post", <<>>)
    [] OTHER             -> Goes(t, "lock", <<>>)

\* Text that is not JSON of the expected shape ends the task, as does an AI
\* message for the other of its two tasks.
ParseFails(t) ==
  \/ t.body.form # "ok"
  \/ t.kind = "alarm" /\ ~t.body.alarm
  \/ t.kind = "count" /\ ~t.body.count

\* A field of the wrong type throws.  The store parsers run as plain tasks; the
\* others catch it themselves or leave it in their future.
Parse(t) ==
  /\ poolRuns /\ t \in running /\ t.at = "parse"
  /\ IF ParseFails(t) THEN Ends(t) ELSE FirstStep(t)
  /\ process' = IF t.body.form = "throws" /\ t.kind \in {"camera", "device", "available", "server"}
                THEN "aborted" ELSE process
  /\ UNCHANGED <<connected, received, logouts, alive, lone, cleared, events, queue_,
                 stores, models>>

-------------------------------------------------------------------------------
(* CameraStore *)

MutStoreUrl(t) ==
  /\ Locks(t, "camera", "table")
  /\ Goes(t, "lock", <<>>)
  /\ UNCHANGED <<control, events, queue_, stores, models>>

\* The url is stored as it came: an empty one replaces a good one.
Url(item, n) == IF item.stream = NoUrl THEN NoUrl ELSE n

\* One item of the list: its entry in table_, made when missing.
StoreUrl(t) ==
  /\ Locks(t, "camera", "table")
  /\ table_' = [table_ EXCEPT ![CameraId(Head(t.left))].sourceUrl = Url(Head(t.left), t.n)]
  /\ IF Len(t.left) = 1 THEN Goes(t, "lock", <<>>) ELSE Goes(t, "table", Tail(t.left))
  /\ UNCHANGED <<control, events, queue_, data_, devices_, status_, version, reading, models>>

StoreCameras(t) ==
  /\ Locks(t, "camera", "lock")
  /\ data_' = t.body.list
  /\ Goes(t, "post", <<>>)
  /\ UNCHANGED <<control, events, queue_, table_, devices_, status_, version, reading, models>>

PostCameras(t) ==
  /\ At(t, "camera", "post")
  /\ Post([type |-> "cameras", n |-> t.n, list |-> t.body.list])
  /\ Ends(t)
  /\ UNCHANGED <<control, queue_, stores, models>>

\* The cameras of snapshot() whose id begins with the address.
FoundCamera(found, item, ip) ==
  IF item.ip \in Extended[ip] THEN Append(found, CameraId(item)) ELSE found

Matching(ip) == FoldLeft(LAMBDA found, item : FoundCamera(found, item, ip), <<>>, data_)

\* META: snapshot(), then the store and a queued call for every match.
FindSensorCameras(t) ==
  /\ Locks(t, "meta", "lock")
  /\ IF Matching(t.body.ip) = <<>> THEN Ends(t) ELSE Goes(t, "info", Matching(t.body.ip))
  /\ UNCHANGED <<control, events, queue_, stores, models>>

updateDeviceInfo(t) ==
  /\ Locks(t, "meta", "info")
  /\ table_' = [table_ EXCEPT ![Head(t.left)].deviceInfo = t.n]
  /\ Goes(t, "post", t.left)
  /\ UNCHANGED <<control, events, queue_, data_, devices_, status_, version, reading, models>>

PostSensor(t) ==
  /\ At(t, "meta", "post")
  /\ Post([type |-> "sensor", n |-> t.n, id |-> Head(t.left)])
  /\ IF Len(t.left) = 1 THEN Ends(t) ELSE Goes(t, "info", Tail(t.left))
  /\ UNCHANGED <<control, queue_, stores, models>>

\* AI with a person_count.
FindCountCameras(t) ==
  /\ Locks(t, "count", "lock")
  /\ IF Matching(t.body.ip) = <<>> THEN Ends(t) ELSE Goes(t, "info", Matching(t.body.ip))
  /\ UNCHANGED <<control, events, queue_, stores, models>>

updateAiInfo(t) ==
  /\ Locks(t, "count", "info")
  /\ table_' = [table_ EXCEPT ![Head(t.left)].aiInfo = t.n]
  /\ IF Len(t.left) = 1 THEN Ends(t) ELSE Goes(t, "info", Tail(t.left))
  /\ UNCHANGED <<control, events, queue_, data_, devices_, status_, version, reading, models>>

\* IMAGE: an address without cameras stands for its stream 0.
matchedIds(ip) == IF Matching(ip) = <<>> THEN << <<ip, 0>> >> ELSE Matching(ip)

FindImageCameras(t) ==
  /\ Locks(t, "image", "lock")
  /\ Goes(t, "post", matchedIds(t.body.ip))
  /\ UNCHANGED <<control, events, queue_, stores, models>>

\* base64 is moved into the first call; the later ones carry an empty picture.
PostImage(t, at) ==
  /\ At(t, "image", at)
  /\ Post([type |-> "image", n |-> t.n, id |-> Head(t.left), picture |-> at = "post"])
  /\ IF Len(t.left) = 1 THEN Ends(t) ELSE Goes(t, "moved", Tail(t.left))
  /\ UNCHANGED <<control, queue_, stores, models>>

-------------------------------------------------------------------------------
(* DeviceStore, ServerStatusStore, AlarmDispatcher *)

\* DeviceStore::findIndexByIp: the first row of the address.
findIndexByIp(ip) == Min(Rows(devices_, ip))

NewDevice(ip) ==
  [ip |-> ip, cameraId |-> <<>>, isOnline |-> FALSE, cpu |-> 0, history |-> <<>>]

MutKnown(ip) == NewDevice(ip)

\* What is known of a device: its first row.
Known(ip) == IF Rows(devices_, ip) = {} THEN NewDevice(ip) ELSE devices_[findIndexByIp(ip)]

\* A row for every item of the list, then the devices that are not in it.
ListedRows(list) ==
  [i \in DOMAIN list |-> [Known(list[i].ip) EXCEPT !.cameraId = CameraId(list[i]),
                                                   !.isOnline = list[i].online]]
KeepMissing(rows, old) ==
  IF Rows(rows, old.ip) # {} THEN rows ELSE Append(rows, [old EXCEPT !.isOnline = FALSE])

CameraMerge(list) == FoldLeft(KeepMissing, ListedRows(list), devices_)

\* The data of every address, in its first row or in a row of its own, with the
\* newest MAX_HISTORY snapshots.
AddSnapshot(d, n) == [d EXCEPT !.cpu = n, !.history = Appended(d.history, n, MAX_HISTORY)]

UpdateDevice(rows, ip, n) ==
  IF Rows(rows, ip) = {} THEN Append(rows, AddSnapshot(NewDevice(ip), n))
  ELSE [rows EXCEPT ![Min(Rows(rows, ip))] = AddSnapshot(@, n)]

AvailableMerge(ips, n) ==
  FoldLeft(LAMBDA rows, ip : UpdateDevice(rows, ip, n), devices_, ips)

\* The merged rows are copied under the lock; left carries the copy.
StoreDevices(t) ==
  /\ t.kind \in {"device", "available"} /\ Locks(t, t.kind, "lock")
  /\ devices_' = IF t.kind = "device" THEN CameraMerge(t.body.list)
                 ELSE AvailableMerge(t.body.ips, t.n)
  /\ version' = version + 1
  /\ reading' = IF t.kind = "device" THEN reading
                ELSE [ip \in Ips |-> IF ip \in Range(t.body.ips) THEN t.n ELSE reading[ip]]
  /\ Goes(t, "post", <<version', devices_'>>)
  /\ UNCHANGED <<control, events, queue_, table_, data_, status_, models>>

PostDevices(t) ==
  /\ t.kind \in {"device", "available"} /\ At(t, t.kind, "post")
  /\ Post([type |-> "devices", version |-> t.left[1], snapshot |-> t.left[2]])
  /\ Ends(t)
  /\ UNCHANGED <<control, queue_, stores, models>>

\* Only administrators get the "server" part, which alone enters the history.
ServerPart(t) == IF t.body.server THEN t.n ELSE 0

StoreServer(t) ==
  /\ Locks(t, "server", "lock")
  /\ status_' = [devices |-> t.n, server |-> ServerPart(t),
                 history_ |-> IF t.body.server
                              THEN Appended(status_.history_, t.n, MAX_STATUS_HISTORY)
                              ELSE status_.history_]
  /\ Goes(t, "post", <<>>)
  /\ UNCHANGED <<control, events, queue_, table_, data_, devices_, version, reading, models>>

PostServer(t) ==
  /\ At(t, "server", "post")
  /\ Post([type |-> "server", n |-> t.n, server |-> ServerPart(t)])
  /\ Ends(t)
  /\ UNCHANGED <<control, queue_, stores, models>>

PostAlarm(t) ==
  /\ At(t, "alarm", "post")
  /\ Post([type |-> "alarm", n |-> t.n])
  /\ Ends(t)
  /\ UNCHANGED <<control, queue_, stores, models>>

-------------------------------------------------------------------------------
(* Core::shutdown *)

\* The event loop has ended, no event is delivered any more; disconnect has begun.
Quit ==
  /\ process = "up"
  /\ process' = "closing" /\ connected' = FALSE /\ events' = <<>>
  /\ lone' = <<>> /\ cleared' = FALSE
  /\ UNCHANGED <<received, logouts, alive, queue_, running, stores, models>>

\* disconnect returns once the io thread is joined, which may be never
\* (NetworkService.DisconnectReturns and its two exceptions): no fairness.
Disconnected ==
  /\ process = "closing"
  /\ process' = "quitting"
  /\ UNCHANGED <<connected, received, logouts, alive, lone, cleared, events, queue_,
                 running, stores, models>>

\* serverStatusStore_, deviceStore_ and cameraStore_ are reset in this order.
ResetStore(s) ==
  /\ process = "quitting" /\ s \in alive
  /\ s = "device" => "server" \notin alive
  /\ s = "camera" => "device" \notin alive
  /\ alive' = alive \ {s}
  /\ UNCHANGED <<process, connected, received, logouts, lone, cleared, events, queue_,
                 running, stores, models>>

\* ~ThreadPool returns when everything queued has been run.
PoolJoined ==
  /\ process = "quitting" /\ alive = {}
  /\ queue_ = <<>> /\ running = {}
  /\ process' = "ended"
  /\ UNCHANGED <<connected, received, logouts, alive, lone, cleared, events, queue_,
                 running, stores, models>>

-------------------------------------------------------------------------------

GuiStep ==
  \/ packetReceived \/ camerasUpdated \/ updateSensorInfo \/ devicesUpdated
  \/ serverUpdated \/ onPendingListReceived \/ onImageReceivedBase64 \/ onAlarm

ShutdownStep == Disconnected \/ (\E s \in alive : ResetStore(s)) \/ PoolJoined

TaskStep(t) ==
  \/ Parse(t) \/ UsesDestroyedStore(t)
  \/ StoreUrl(t) \/ StoreCameras(t) \/ PostCameras(t)
  \/ FindSensorCameras(t) \/ updateDeviceInfo(t) \/ PostSensor(t)
  \/ FindCountCameras(t) \/ updateAiInfo(t)
  \/ FindImageCameras(t) \/ PostImage(t, "post") \/ PostImage(t, "moved")
  \/ StoreDevices(t) \/ PostDevices(t)
  \/ StoreServer(t) \/ PostServer(t)
  \/ PostAlarm(t)

User == Login \/ logoutRequested \/ (\E i \in DOMAIN alarms_ : dismiss(i)) \/ Quit

\* The process is gone, one way or another.
Gone == process \in {"ended", "aborted", "undefined"} /\ UNCHANGED vars

PoolStep == StartTask \/ (\E t \in running : TaskStep(t))

Next == User \/ (\E p \in Contents : Receive(p)) \/ GuiStep \/ PoolStep \/ ShutdownStep \/ Gone

Spec == Init /\ [][Next]_vars

-------------------------------------------------------------------------------
(* Properties *)

History(max) == BoundedSeq(Numbers \ {0}, max)

Urls == Numbers \union {NoUrl}

Device ==
  [ip : Ips, cameraId : Cameras \union {<<>>}, isOnline : BOOLEAN, cpu : Numbers,
   history : History(MAX_HISTORY)]

TypeOK ==
  /\ process \in {"up", "closing", "quitting", "ended", "aborted", "undefined"}
  /\ connected \in BOOLEAN /\ received \in Numbers /\ logouts \in 0..MaxLogouts
  /\ alive \subseteq {"camera", "device", "server"}
  /\ Cardinality(running) <= Threads
  /\ table_ \in [Cameras -> [sourceUrl : Urls, deviceInfo : Numbers, aiInfo : Numbers]]
  /\ \A d \in Range(devices_) \union Range(deviceRows) : d \in Device
  /\ status_.history_ \in History(MAX_STATUS_HISTORY)
  /\ server.serverHistory_ \in History(MAX_SERVER_HISTORY)
  /\ cameras \in [Cameras -> [shown : {"absent", "online", "offline"}, sensor : Numbers]]
  /\ users \in Numbers /\ cleared \in BOOLEAN
  /\ lone \in {<<>>} \union ((Numbers \ {0}) \X Contents \X BOOLEAN)
  /\ \A c \in Cameras : images[c] \in BoundedSeq([n : Numbers, picture : BOOLEAN], MAX_EVENTS_PER_CAMERA)
  /\ Len(alarms_) <= kMaxAlarms

\* Some camera list names camera c without a url.
NamedWithoutUrl(c) ==
  \E p \in Contents :
    /\ p.type = "CAMERA" /\ p.form = "ok"
    /\ \E i \in DOMAIN p.list : CameraId(p.list[i]) = c /\ p.list[i].stream = NoUrl

\* VideoManager finds an entry for every camera that CameraModel shows: whatever the
\* tasks of several lists do to each other, table_ has been written before the rows
\* appear, and nothing takes the entry away again, not even a logout.  The entry has
\* a url, unless a list names the camera without one: the empty url of such a list
\* replaces the good one of an earlier list, or of another item.
RowsHaveUrl ==
  \A c \in Cameras : cameras[c] # Absent =>
    /\ table_[c].sourceUrl # 0
    /\ table_[c].sourceUrl = NoUrl => NamedWithoutUrl(c)

\* "Keep dynamic AVAILABLE info": the row the store looks up for an address has the
\* newest data and history stored for it, through any mix of camera lists (which
\* repeat an address per stream, drop and bring back devices) and updates.
ReadingsKept ==
  \A ip \in Ips : reading[ip] # 0 =>
    /\ Rows(devices_, ip) # {}
    /\ LET d == devices_[findIndexByIp(ip)] IN
         d.cpu = reading[ip] /\ Last(d.history) = reading[ip]

\* When the snapshot shown is that of the store's last change, the row DeviceModel
\* looks up for an address is the store's, if the store has one row for it.  Two
\* tasks may post their snapshots in the opposite order of their changes: then the
\* older one is shown last, and shownVersion says so.
DeviceModelShowsStore ==
  shownVersion = version => \A ip \in Ips :
    Cardinality(Rows(devices_, ip)) = 1 =>
      /\ Rows(deviceRows, ip) # {}
      /\ deviceRows[byIp_(deviceRows, ip)] = devices_[findIndexByIp(ip)]

\* The items of data_ that list a camera of device ip, and whether no other device
\* listed has an address that begins with ip.
Own(ip) == {i \in DOMAIN data_ : data_[i].ip = ip}
Alone(ip) == \A i \in DOMAIN data_ : data_[i].ip \in Extended[ip] => data_[i].ip = ip

Newest(c, n) == images[c] # <<>> /\ Last(images[c]).n = n

\* Image n of device ip: the newest of each of its cameras, or of its stream 0 when
\* none is listed, with the picture for the first if that is listed once; and, unless
\* addresses are confused, of nothing else.
ImageShown(n, ip) ==
  /\ \A i \in Own(ip) : Newest(CameraId(data_[i]), n)
  /\ Alone(ip) =>
       /\ \A c \in Cameras : Newest(c, n) => c[1] = ip
       /\ Own(ip) = {} => Newest(<<ip, 0>>, n) /\ Last(images[<<ip, 0>>]).picture
       /\ \A i \in Own(ip) :
            (\A j \in Own(ip) : j >= i /\ (CameraId(data_[j]) = CameraId(data_[i]) => j = i))
              => Last(images[CameraId(data_[i])]).picture

\* What the models must show of packet n with contents p.
Shown(n, p) ==
  CASE p.type = "CAMERA" ->
         /\ \A c \in Cameras :
              cameras[c].shown = IF c \in Listed(p.list)
                                 THEN IF Item(p.list, c).online THEN "online" ELSE "offline"
                                 ELSE IF cameras[c] = Absent THEN "absent" ELSE "offline"
         /\ \A i \in DOMAIN p.list :
              LET row == deviceRows[byIp_(deviceRows, p.list[i].ip)] IN
              (\A j \in DOMAIN p.list : p.list[j].ip = p.list[i].ip => j <= i)
                => row.isOnline = p.list[i].online /\ row.cameraId = CameraId(p.list[i])
         /\ \A i \in DOMAIN deviceRows :
              (\A j \in DOMAIN p.list : p.list[j].ip # deviceRows[i].ip)
                => ~deviceRows[byIp_(deviceRows, deviceRows[i].ip)].isOnline
    [] p.type = "AVAILABLE" ->
         /\ server.devices = n /\ server.server = (IF p.server THEN n ELSE 0)
         /\ \A ip \in Range(p.ips) : Cardinality(Rows(devices_, ip)) = 1
              => deviceRows[byIp_(deviceRows, ip)].cpu = n
    [] p.type = "META" ->
         \A c \in Listed(data_) : c[1] = p.ip /\ cameras[c] # Absent => cameras[c].sensor = n
    [] p.type = "AI" ->
         /\ p.alarm => alarms_ # <<>> /\ Last(alarms_).n = n
         /\ p.count => \A c \in Listed(data_) : c[1] = p.ip => table_[c].aiInfo = n
    [] p.type = "IMAGE" -> ImageShown(n, p.ip)
    [] OTHER -> p.ok => users = n

\* Nothing but what packet contents p may have brought is shown; the devices are
\* excepted, because DeviceStore keeps those of the session before.
NothingElse(p) ==
  /\ \A c \in Cameras : cameras[c] # Absent => p.type = "CAMERA" /\ c \in Listed(p.list)
  /\ \A c \in Cameras : images[c] # <<>> => p.type = "IMAGE"
  /\ alarms_ # <<>> => p.type = "AI"
  /\ users # 0 => p.type = "ASSIGN"

\* Tasks overtake each other, and a list or a reading may be lost that way; but a
\* packet that finds nothing under way is shown in full once its work is done,
\* whatever the earlier ones have left in the stores and the models; and if it is
\* the first after a logout that found nothing under way, nothing of the session
\* before is shown with it.
LonePacketIsShown ==
  process = "up" /\ Idle /\ lone # <<>> /\ lone[2].form = "ok"
    => Shown(lone[1], lone[2]) /\ (lone[3] => NothingElse(lone[2]))

===============================================================================
