---------------------------- MODULE NetworkService ----------------------------
(***************************************************************************)
(* Src/Network/NetworkService.cpp with the TcpSession it creates: the life *)
(* of a connection.  The GUI thread calls connect, disconnect and send;    *)
(* everything else runs on io_thread_, one handler at a time, most of it   *)
(* through strand_.  disconnect posts a cleanup, lets go of the work guard *)
(* and joins the thread, which ends when io_context::run has nothing left  *)
(* to wait for.                                                            *)
(*                                                                         *)
(* The bytes of TLS are left out: a session is in its handshake or open,   *)
(* and one without TLS (no usable certificates) is open from the start.    *)
(***************************************************************************)
EXTENDS Integers, Sequences

CONSTANTS MaxConnects,        \* bound: calls of connect
          MaxSends,           \* bound: calls of send
          MaxMessages,        \* bound: messages from the server
          ServerSendsImages   \* whether the server ever sends an IMAGE message

ASSUME NetAssumption ==
  /\ MaxConnects \in Nat /\ MaxSends \in Nat /\ MaxMessages \in Nat
  /\ ServerSendsImages \in BOOLEAN

VARIABLES gui,          \* "idle", or "joining" io_thread_ inside disconnect
          reconnect,    \* the disconnect under way was called by connect
          io,           \* "none" (no io_context_), "running", "finished", or
                        \* "terminated": an exception left run()
          work_guard_, connected_, processor_, session_, udpSession_,
          strand_,      \* handlers posted to strand_, oldest first
          connecting,   \* async_connect is pending
          tcp,          \* TLS of the TcpSession: "none", "handshake" or "open"
          closed,       \* its socket has been closed by this side
          disconnected_,
          read,         \* its async_read: "none", "pending", or how it completed
          udpReceiving, \* a UdpSession's async_receive_from is pending
          early,        \* history: a message was given to a session in handshake
          connects, sends, messages

objects == <<work_guard_, processor_, session_, udpSession_>>
session == <<tcp, closed, disconnected_, read>>
counters == <<connects, sends, messages>>
vars == <<gui, reconnect, io, objects, connected_, strand_, connecting, session,
          udpReceiving, early, counters>>

Handlers == {"resolve", "connected", "lost", "empty", "data", "image", "meta",
             "send", "cleanup"}

Bodies == {"empty", "data", "image"}

Init ==
  /\ gui = "idle" /\ reconnect = FALSE /\ io = "none"
  /\ work_guard_ = FALSE /\ processor_ = FALSE
  /\ session_ = FALSE /\ udpSession_ = FALSE /\ connected_ = FALSE
  /\ strand_ = <<>> /\ connecting = FALSE
  /\ tcp = "none" /\ closed = FALSE /\ disconnected_ = FALSE /\ read = "none"
  /\ udpReceiving = FALSE /\ early = FALSE
  /\ connects = 0 /\ sends = 0 /\ messages = 0

Post(h) == strand_' = Append(strand_, h)

-------------------------------------------------------------------------------
(* The GUI thread *)

\* The second half of connect: new primitives, a new thread, the first handler.
Open ==
  /\ processor_' = TRUE /\ work_guard_' = TRUE
  /\ io' = "running" /\ strand_' = <<"resolve">>
  /\ tcp' = "none" /\ closed' = FALSE /\ disconnected_' = FALSE /\ read' = "none"

\* connect when there is nothing to disconnect.
ConnectFirst ==
  /\ gui = "idle" /\ io = "none" /\ connects < MaxConnects
  /\ connects' = connects + 1
  /\ Open
  /\ UNCHANGED <<gui, reconnect, session_, udpSession_, connected_, connecting,
                 udpReceiving, early, sends, messages>>

\* disconnect up to the join; connect calls it before anything else.
BeginDisconnect(forConnect) ==
  /\ gui = "idle" /\ io = "running"
  /\ forConnect => connects < MaxConnects
  /\ connects' = IF forConnect THEN connects + 1 ELSE connects
  /\ Post("cleanup")
  /\ work_guard_' = FALSE
  /\ gui' = "joining" /\ reconnect' = forConnect
  /\ UNCHANGED <<io, processor_, session_, udpSession_, connected_, connecting,
                 session, udpReceiving, early, sends, messages>>

\* The thread has ended: everything is destroyed, and connect goes on.
Joined ==
  /\ gui = "joining" /\ io = "finished"
  /\ gui' = "idle" /\ reconnect' = FALSE
  /\ session_' = FALSE /\ udpSession_' = FALSE
  /\ IF reconnect THEN Open
     ELSE /\ processor_' = FALSE /\ work_guard_' = FALSE
          /\ io' = "none" /\ strand_' = <<>>
          /\ UNCHANGED session
  /\ UNCHANGED <<connected_, connecting, udpReceiving, early,
                 counters>>

Send ==
  /\ gui = "idle" /\ io = "running" /\ sends < MaxSends
  /\ sends' = sends + 1
  /\ Post("send")
  /\ UNCHANGED <<gui, reconnect, io, objects, connected_, connecting, session,
                 udpReceiving, early, connects, messages>>

-------------------------------------------------------------------------------
(* Handlers of strand_ *)

Running(h) ==
  /\ io = "running" /\ strand_ # <<>> /\ Head(strand_) = h

\* resolve() and the start of async_connect.
RunResolve ==
  /\ Running("resolve")
  /\ strand_' = Tail(strand_)
  /\ connecting' = TRUE
  /\ UNCHANGED <<gui, reconnect, io, objects, connected_, session, udpReceiving, early, counters>>

\* resolve() throws for a host it does not know, and nothing catches it.
ResolveThrows ==
  /\ Running("resolve")
  /\ io' = "terminated"
  /\ UNCHANGED <<gui, reconnect, objects, connected_, strand_, connecting,
                 session, udpReceiving, early, counters>>

RunConnected ==
  /\ Running("connected")
  /\ strand_' = Tail(strand_)
  /\ connected_' = TRUE
  /\ UNCHANGED <<gui, reconnect, io, objects, connecting, session, udpReceiving, early, counters>>

MutRunLost ==
  /\ Running("lost")
  /\ strand_' = Tail(strand_)
  /\ UNCHANGED <<gui, reconnect, io, objects, connected_, connecting, session,
                 udpReceiving, early, counters>>

RunLost ==
  /\ Running("lost")
  /\ strand_' = Tail(strand_)
  /\ connected_' = FALSE
  /\ UNCHANGED <<gui, reconnect, io, objects, connecting, session, udpReceiving, early, counters>>

\* processMessage, if there still is a processor: the wrapped onImageMeta posts
\* once more; the other callbacks leave this component, empty payloads go nowhere.
RunMessage(h) ==
  /\ Running(h)
  /\ strand_' = IF h = "image" /\ processor_
                THEN Append(Tail(strand_), "meta") ELSE Tail(strand_)
  /\ UNCHANGED <<gui, reconnect, io, objects, connected_, connecting, session,
                 udpReceiving, early, counters>>

\* A UdpSession on the first IMAGE meta, and the reply with its port.
RunMeta ==
  /\ Running("meta")
  /\ strand_' = Append(Tail(strand_), "send")
  /\ udpSession_' = TRUE /\ udpReceiving' = TRUE
  /\ UNCHANGED <<gui, reconnect, io, work_guard_, processor_, session_, connected_,
                 connecting, session, early, counters>>

MutRunSend ==
  /\ Running("send")
  /\ strand_' = Tail(strand_)
  /\ early' = (early \/ (session_ /\ tcp = "handshake"))
  /\ UNCHANGED <<gui, reconnect, io, objects, connected_, connecting, session,
                 udpReceiving, counters>>

\* The body of send: dropped without a session or before it is connected.
RunSend ==
  /\ Running("send")
  /\ strand_' = Tail(strand_)
  /\ early' = (early \/ (session_ /\ connected_ /\ tcp = "handshake"))
  /\ UNCHANGED <<gui, reconnect, io, objects, connected_, connecting, session,
                 udpReceiving, counters>>

MutRunCleanup ==
  /\ Running("cleanup")
  /\ strand_' = Tail(strand_)
  /\ connected_' = FALSE
  /\ session_' = FALSE /\ udpSession_' = FALSE /\ processor_' = FALSE
  /\ UNCHANGED <<gui, reconnect, io, work_guard_, connecting, session,
                 udpReceiving, early, counters>>

\* What disconnect dispatched: close and forget the TCP session, forget the UDP
\* session (its pending receive keeps the object), drop the processor.
RunCleanup ==
  /\ Running("cleanup")
  /\ strand_' = Tail(strand_)
  /\ connected_' = FALSE
  /\ closed' = (closed \/ session_)
  /\ session_' = FALSE /\ udpSession_' = FALSE /\ processor_' = FALSE
  /\ UNCHANGED <<gui, reconnect, io, work_guard_, connecting, tcp, disconnected_, read,
                 udpReceiving, early, counters>>

-------------------------------------------------------------------------------
(* Completions on the io thread *)

\* async_connect succeeds: a TcpSession is made and starts its handshake and
\* its first read, whatever has happened to the service in the meantime.
ConnectSucceeds ==
  /\ io = "running" /\ connecting
  /\ connecting' = FALSE
  /\ session_' = TRUE /\ tcp' = "handshake" /\ read' = "pending"
  /\ UNCHANGED <<gui, reconnect, io, work_guard_, processor_, udpSession_,
                 connected_, strand_, closed, disconnected_, udpReceiving,
                 early, counters>>

\* The same without TLS: TLS::ClientContext has returned nullptr, so start calls
\* connectedHandler at once.
ConnectPlain ==
  /\ io = "running" /\ connecting
  /\ connecting' = FALSE
  /\ session_' = TRUE /\ tcp' = "open" /\ read' = "pending"
  /\ Post("connected")
  /\ UNCHANGED <<gui, reconnect, io, work_guard_, processor_, udpSession_,
                 connected_, closed, disconnected_, udpReceiving, early, counters>>

MutConnectFails ==
  /\ io = "running" /\ connecting
  /\ connecting' = FALSE
  /\ Post("failed")
  /\ UNCHANGED <<gui, reconnect, io, objects, connected_, session, udpReceiving,
                 early, counters>>

\* async_connect fails: the branch is empty.
ConnectFails ==
  /\ io = "running" /\ connecting
  /\ connecting' = FALSE
  /\ UNCHANGED <<gui, reconnect, io, objects, connected_, strand_, session,
                 udpReceiving, early, counters>>

\* The server's next message, or the end of the connection, completes the read;
\* the handler is queued, and a later close no longer changes how it is called.
Arrives(m) ==
  /\ io = "running" /\ read = "pending" /\ ~closed
  /\ \/ m = "handshake" /\ tcp = "handshake" /\ UNCHANGED messages
     \/ /\ m \in Bodies /\ messages < MaxMessages /\ messages' = messages + 1
        /\ m = "image" => ServerSendsImages
     \/ m = "error" /\ UNCHANGED messages
  /\ read' = m
  /\ UNCHANGED <<gui, reconnect, io, objects, connected_, strand_, connecting, tcp,
                 closed, disconnected_, udpReceiving, early, connects, sends>>

\* close() makes a pending read complete with operation_aborted.
ReadAborted ==
  /\ io = "running" /\ read = "pending" /\ closed
  /\ read' = "error"
  /\ UNCHANGED <<gui, reconnect, io, objects, connected_, strand_, connecting, tcp,
                 closed, disconnected_, udpReceiving, early, counters>>

\* The server's last handshake message: connectedHandler, once.
ReadHandshake ==
  /\ io = "running" /\ read = "handshake"
  /\ read' = "pending" /\ tcp' = "open"
  /\ Post("connected")
  /\ UNCHANGED <<gui, reconnect, io, objects, connected_, connecting, closed,
                 disconnected_, udpReceiving, early, counters>>

\* A message: one without a body is handed on as it is, the body of another is
\* decrypted, which yields nothing before the handshake is done.
ReadMessage ==
  /\ io = "running" /\ read \in Bodies
  /\ read' = "pending"
  /\ strand_' = IF tcp = "open" \/ read = "empty" THEN Append(strand_, read) ELSE strand_
  /\ UNCHANGED <<gui, reconnect, io, objects, connected_, connecting, tcp, closed,
                 disconnected_, udpReceiving, early, counters>>

\* The first failure closes the socket and tells the service.
handleDisconnect ==
  /\ closed' = TRUE /\ disconnected_' = TRUE
  /\ IF disconnected_ THEN UNCHANGED strand_ ELSE Post("lost")

ReadFails ==
  /\ io = "running" /\ read = "error"
  /\ read' = "none"
  /\ handleDisconnect
  /\ UNCHANGED <<gui, reconnect, io, objects, connected_, connecting, tcp,
                 udpReceiving, early, counters>>

\* A write fails.  While the handshake lasts the server has always answered what
\* was written, so this concerns the last flight and what follows it.
WriteFails ==
  /\ io = "running" /\ tcp = "open" /\ ~disconnected_
  /\ handleDisconnect
  /\ UNCHANGED <<gui, reconnect, io, objects, connected_, connecting, tcp, read,
                 udpReceiving, early, counters>>

\* io_context::run returns when nothing is queued, pending or guarded.
RunReturns ==
  /\ io = "running" /\ ~work_guard_
  /\ strand_ = <<>> /\ ~connecting /\ read = "none" /\ ~udpReceiving
  /\ io' = "finished"
  /\ UNCHANGED <<gui, reconnect, objects, connected_, strand_, connecting, session,
                 udpReceiving, early, counters>>

-------------------------------------------------------------------------------

GuiThread ==
  ConnectFirst \/ (\E f \in BOOLEAN : BeginDisconnect(f)) \/ Joined \/ Send

RunHandler ==
  \/ RunResolve \/ RunConnected \/ RunLost
  \/ \E h \in Bodies : RunMessage(h)
  \/ RunMeta \/ RunSend \/ RunCleanup

Server == \E m \in Bodies \union {"handshake", "error"} : Arrives(m)

ReadCompletes == ReadHandshake \/ ReadMessage \/ ReadFails

\* The process is gone.
Terminated == io = "terminated" /\ UNCHANGED vars

Next ==
  \/ GuiThread
  \/ RunHandler \/ ResolveThrows
  \/ ConnectSucceeds \/ ConnectPlain \/ ConnectFails
  \/ Server \/ ReadAborted \/ ReadCompletes \/ WriteFails
  \/ RunReturns
  \/ Terminated

Spec == Init /\ [][Next]_vars

\* The io thread runs what is ready, the operating system ends a connection
\* attempt one way or the other, and a read on a socket this side has closed
\* fails.  The server may keep an open connection for ever.
Fairness ==
  /\ WF_vars(RunHandler)
  /\ WF_vars(ConnectSucceeds \/ ConnectPlain \/ ConnectFails)
  /\ WF_vars(ReadAborted) /\ WF_vars(ReadCompletes)
  /\ WF_vars(RunReturns)
  /\ WF_vars(Joined)

FairSpec == Spec /\ Fairness

-------------------------------------------------------------------------------
(* Properties *)

TypeOK ==
  /\ gui \in {"idle", "joining"} /\ reconnect \in BOOLEAN
  /\ io \in {"none", "running", "finished", "terminated"}
  /\ work_guard_ \in BOOLEAN /\ connected_ \in BOOLEAN /\ processor_ \in BOOLEAN
  /\ session_ \in BOOLEAN /\ udpSession_ \in BOOLEAN
  /\ strand_ \in Seq(Handlers) /\ connecting \in BOOLEAN
  /\ tcp \in {"none", "handshake", "open"} /\ closed \in BOOLEAN /\ disconnected_ \in BOOLEAN
  /\ read \in {"none", "pending", "handshake", "error"} \union Bodies
  /\ udpReceiving \in BOOLEAN
  /\ early \in BOOLEAN
  /\ connects \in 0..MaxConnects /\ sends \in 0..MaxSends /\ messages \in 0..MaxMessages

\* isConnected() tells the truth once the handlers already posted have run: a
\* connection that was lost, or lost while coming up, is not reported as up, nor
\* one that disconnect has closed and joined.  Excepted is a session whose
\* handshake was read before the cleanup closed its socket: it is reported as up
\* behind the cleanup, but only while disconnect is still in its join, and its
\* read, which has yet to fail, takes the report back.
StatusIsCurrent ==
  strand_ = <<>> /\ connected_ =>
    /\ tcp = "open" /\ ~disconnected_ /\ io = "running"
    /\ closed => gui = "joining" /\ read # "none"

\* send hands nothing to a session whose handshake is under way: connected_
\* always speaks of the session that session_ points to.
NoSendBeforeHandshake == ~early

Queued(h) == \E n \in DOMAIN strand_ : strand_[n] = h

\* The cleanup is still to run, and finds no connection attempt under way.
Disconnecting ==
  gui = "joining" /\ Queued("cleanup") /\ ~connecting /\ ~Queued("resolve")

\* disconnect of a connection that is up, down or in its handshake returns: the
\* cleanup closes the socket, the pending read fails, and run() comes to an end.
\* Excepted are a connection attempt that the cleanup finds still under way, and
\* a UDP session, whose receive nothing ends.
DisconnectReturns ==
  Disconnecting ~> (gui = "idle" \/ io = "terminated" \/ udpReceiving)

\* The same of a connection over which images were announced: the comment at
\* NetworkService.cpp:116 announces a cleanup of the UDP session.
DisconnectEndsImages == Disconnecting ~> (gui = "idle" \/ io = "terminated")

\* NetworkService.cpp: "let the io_thread gracefully finish": disconnect returns.
JoinReturns == (gui = "joining") ~> (gui = "idle" \/ io = "terminated")

===============================================================================
