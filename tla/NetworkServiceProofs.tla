------------------------- MODULE NetworkServiceProofs -------------------------
(***************************************************************************)
(* Proofs about the life of a connection, for any number of connects,      *)
(* sends and messages.                                                     *)
(***************************************************************************)
EXTENDS NetworkService, TLAPS

-------------------------------------------------------------------------------
(* The inductive invariant *)

\* A connection attempt belongs to a service that has had no session yet: the
\* resolve is the first handler posted, and async_connect follows it.
Attempting ==
  /\ \A n \in DOMAIN strand_ : strand_[n] = "resolve" =>
       n = 1 /\ tcp = "none" /\ ~connecting /\ ~disconnected_
  /\ connecting => tcp = "none" /\ ~disconnected_

\* What the TLS state says about the read that is outstanding.
Reading ==
  /\ tcp = "none" => read = "none"
  /\ read = "handshake" => tcp = "handshake"
  /\ disconnected_ /\ tcp # "open" => read = "none"
  /\ tcp = "open" /\ read = "none" => disconnected_

\* connected_ is set, or about to be set, for an open session only; once that one
\* is disconnected, the handler that resets connected_ is still queued, and behind
\* the one that sets it.
Reported ==
  /\ connected_ => tcp = "open" /\ io = "running"
  /\ connected_ /\ disconnected_ => \E m \in DOMAIN strand_ : strand_[m] = "lost"
  /\ \A n \in DOMAIN strand_ : strand_[n] = "connected" =>
       /\ tcp = "open"
       /\ disconnected_ => \E m \in DOMAIN strand_ : n < m /\ strand_[m] = "lost"

\* Without an io_context, and once run() has returned, nothing is left over.
AtRest ==
  io \in {"none", "finished"} =>
    strand_ = <<>> /\ ~connecting /\ read = "none" /\ ~connected_

\* Until a session has failed, only the cleanup of a disconnect closes it, and that
\* disconnect is then in its join.
Closing ==
  /\ \A n \in DOMAIN strand_ : strand_[n] = "cleanup" => gui = "joining"
  /\ io = "running" /\ closed /\ ~disconnected_ => gui = "joining"

NetInv ==
  /\ TypeOK /\ Attempting /\ Reading /\ Reported /\ AtRest /\ Closing
  /\ NoSendBeforeHandshake

-------------------------------------------------------------------------------
(* Type correctness *)

\* The two halves of TypeOK: the flags, and everything else.
Flags ==
  /\ reconnect \in BOOLEAN /\ work_guard_ \in BOOLEAN /\ connected_ \in BOOLEAN
  /\ processor_ \in BOOLEAN /\ session_ \in BOOLEAN /\ udpSession_ \in BOOLEAN
  /\ connecting \in BOOLEAN /\ closed \in BOOLEAN /\ disconnected_ \in BOOLEAN
  /\ udpReceiving \in BOOLEAN /\ early \in BOOLEAN

Stages ==
  /\ gui \in {"idle", "joining"}
  /\ io \in {"none", "running", "finished", "terminated"}
  /\ strand_ \in Seq(Handlers)
  /\ tcp \in {"none", "handshake", "open"}
  /\ read \in {"none", "pending", "handshake", "error"} \union Bodies
  /\ connects \in 0..MaxConnects /\ sends \in 0..MaxSends /\ messages \in 0..MaxMessages

\* They are TypeOK, before and after a step.
LEMMA NetTypeSplit == (TypeOK <=> Flags /\ Stages) /\ (TypeOK' <=> Flags' /\ Stages')
BY Zenon DEF TypeOK, Flags, Stages

\* The constructor leaves every variable in its type.
LEMMA NetTypeInit == Init => TypeOK
<1> SUFFICES ASSUME Init PROVE Flags /\ Stages
  BY NetTypeSplit
<1>1. Flags
  BY Zenon DEF Init, Flags
<1>2. Stages
  BY NetAssumption DEF Init, Stages
<1> QED
  BY <1>1, <1>2

\* Every call of the GUI thread and every handler keeps the variables in their
\* types; in particular strand_ only ever holds handlers that something runs.
LEMMA NetTypeStep == TypeOK /\ [Next]_vars => TypeOK'
<1> SUFFICES ASSUME Flags, Stages, [Next]_vars PROVE Flags' /\ Stages'
  BY NetTypeSplit
<1> USE NetAssumption DEF Flags, Stages, Handlers, Bodies, Post, Open, Running,
                          handleDisconnect, objects, session, counters
<1>1. CASE ConnectFirst
  <2>1. Flags'
    BY <1>1, Zenon DEF ConnectFirst
  <2>2. Stages'
    BY <1>1 DEF ConnectFirst
  <2> QED
    BY <2>1, <2>2
<1>2. ASSUME NEW f \in BOOLEAN, BeginDisconnect(f) PROVE Flags' /\ Stages'
  <2>1. Flags'
    BY <1>2, Zenon DEF BeginDisconnect
  <2>2. Stages'
    BY <1>2 DEF BeginDisconnect
  <2> QED
    BY <2>1, <2>2
<1>3. CASE Joined
  <2>1. Flags'
    BY <1>3, Zenon DEF Joined
  <2>2. Stages'
    <3>1. /\ gui' = "idle" /\ UNCHANGED counters
          /\ \/ io' = "running" /\ strand_' = <<"resolve">> /\ tcp' = "none" /\ read' = "none"
             \/ io' = "none" /\ strand_' = <<>> /\ UNCHANGED <<tcp, read>>
      BY <1>3, Zenon DEF Joined
    <3>2. <<"resolve">> \in Seq(Handlers) /\ <<>> \in Seq(Handlers)
      OBVIOUS
    <3> QED
      BY <3>1, <3>2
  <2> QED
    BY <2>1, <2>2
<1>4. CASE Send
  <2>1. Flags'
    BY <1>4, Zenon DEF Send
  <2>2. Stages'
    BY <1>4 DEF Send
  <2> QED
    BY <2>1, <2>2
<1>5. CASE RunResolve
  <2>1. Flags'
    BY <1>5, Zenon DEF RunResolve
  <2>2. Stages'
    BY <1>5 DEF RunResolve
  <2> QED
    BY <2>1, <2>2
<1>6. CASE RunConnected
  <2>1. Flags'
    BY <1>6, Zenon DEF RunConnected
  <2>2. Stages'
    BY <1>6 DEF RunConnected
  <2> QED
    BY <2>1, <2>2
<1>7. CASE RunLost
  <2>1. Flags'
    BY <1>7, Zenon DEF RunLost
  <2>2. Stages'
    BY <1>7 DEF RunLost
  <2> QED
    BY <2>1, <2>2
<1>8. ASSUME NEW h \in Bodies, RunMessage(h) PROVE Flags' /\ Stages'
  <2>1. Flags'
    BY <1>8, Zenon DEF RunMessage
  <2>2. Stages'
    BY <1>8 DEF RunMessage
  <2> QED
    BY <2>1, <2>2
<1>9. CASE RunMeta
  <2>1. Flags'
    BY <1>9, Zenon DEF RunMeta
  <2>2. Stages'
    BY <1>9 DEF RunMeta
  <2> QED
    BY <2>1, <2>2
<1>10. CASE RunSend
  <2>1. Flags'
    BY <1>10, Zenon DEF RunSend
  <2>2. Stages'
    BY <1>10 DEF RunSend
  <2> QED
    BY <2>1, <2>2
<1>11. CASE RunCleanup
  <2>1. Flags'
    BY <1>11, Zenon DEF RunCleanup
  <2>2. Stages'
    BY <1>11 DEF RunCleanup
  <2> QED
    BY <2>1, <2>2
<1>12. CASE ResolveThrows
  <2>1. Flags'
    BY <1>12, Zenon DEF ResolveThrows
  <2>2. Stages'
    BY <1>12 DEF ResolveThrows
  <2> QED
    BY <2>1, <2>2
<1>13. CASE ConnectSucceeds
  <2>1. Flags'
    BY <1>13, Zenon DEF ConnectSucceeds
  <2>2. Stages'
    BY <1>13 DEF ConnectSucceeds
  <2> QED
    BY <2>1, <2>2
<1>23. CASE ConnectPlain
  <2>1. Flags'
    BY <1>23, Zenon DEF ConnectPlain
  <2>2. Stages'
    BY <1>23 DEF ConnectPlain
  <2> QED
    BY <2>1, <2>2
<1>14. CASE ConnectFails
  <2>1. Flags'
    BY <1>14, Zenon DEF ConnectFails
  <2>2. Stages'
    BY <1>14 DEF ConnectFails
  <2> QED
    BY <2>1, <2>2
<1>15. ASSUME NEW m \in Bodies \union {"handshake", "error"}, Arrives(m)
       PROVE  Flags' /\ Stages'
  <2>1. Flags'
    BY <1>15, Zenon DEF Arrives
  <2>2. Stages'
    BY <1>15 DEF Arrives
  <2> QED
    BY <2>1, <2>2
<1>16. CASE ReadAborted
  <2>1. Flags'
    BY <1>16, Zenon DEF ReadAborted
  <2>2. Stages'
    BY <1>16 DEF ReadAborted
  <2> QED
    BY <2>1, <2>2
<1>17. CASE ReadHandshake
  <2>1. Flags'
    BY <1>17, Zenon DEF ReadHandshake
  <2>2. Stages'
    BY <1>17 DEF ReadHandshake
  <2> QED
    BY <2>1, <2>2
<1>18. CASE ReadMessage
  <2>1. Flags'
    BY <1>18, Zenon DEF ReadMessage
  <2>2. Stages'
    BY <1>18 DEF ReadMessage
  <2> QED
    BY <2>1, <2>2
<1>19. CASE ReadFails \/ WriteFails
  <2>1. Flags'
    BY <1>19, Zenon DEF ReadFails, WriteFails
  <2>2. Stages'
    <3>1. /\ UNCHANGED <<gui, io, tcp, counters>> /\ (read' = "none" \/ read' = read)
          /\ strand_' = strand_ \/ strand_' = Append(strand_, "lost")
      BY <1>19, Zenon DEF ReadFails, WriteFails
    <3> QED
      BY <3>1
  <2> QED
    BY <2>1, <2>2
<1>20. CASE RunReturns
  <2>1. Flags'
    BY <1>20, Zenon DEF RunReturns
  <2>2. Stages'
    BY <1>20 DEF RunReturns
  <2> QED
    BY <2>1, <2>2
<1>21. CASE UNCHANGED vars
  <2>1. Flags'
    BY <1>21, Zenon DEF vars
  <2>2. Stages'
    BY <1>21 DEF vars
  <2> QED
    BY <2>1, <2>2
<1> QED
  BY <1>1, <1>2, <1>3, <1>4, <1>5, <1>6, <1>7, <1>8, <1>9, <1>10, <1>11,
     <1>12, <1>13, <1>14, <1>15, <1>16, <1>17, <1>18, <1>19, <1>20, <1>21, <1>23
  DEF Next, GuiThread, RunHandler, Server, ReadCompletes, Terminated

-------------------------------------------------------------------------------
(* The queue of the strand *)

\* Posting a handler puts it behind all others.
LEMMA PostFacts ==
  ASSUME NEW q \in Seq(Handlers), NEW h \in Handlers
  PROVE  /\ \A n \in DOMAIN q : n \in DOMAIN Append(q, h) /\ Append(q, h)[n] = q[n] /\ n < Len(q) + 1
         /\ \A n \in DOMAIN Append(q, h) : n \in DOMAIN q \/ n = Len(q) + 1
         /\ Len(q) + 1 \in DOMAIN Append(q, h) /\ Append(q, h)[Len(q) + 1] = h
         /\ Append(q, h) # <<>>
OBVIOUS

\* Running the first handler moves every other one up by a place.
LEMMA TailFacts ==
  ASSUME NEW q \in Seq(Handlers), q # <<>>
  PROVE  /\ 1 \in DOMAIN q /\ Head(q) = q[1]
         /\ \A n \in DOMAIN Tail(q) : n >= 1 /\ n + 1 \in DOMAIN q /\ Tail(q)[n] = q[n + 1]
         /\ \A n \in DOMAIN q : n # 1 => n > 1 /\ n - 1 \in DOMAIN Tail(q) /\ Tail(q)[n - 1] = q[n]
OBVIOUS

\* Running a handler that posts at most something other than "connected": what was
\* behind it keeps its order.
LEMMA RunFacts ==
  ASSUME NEW q \in Seq(Handlers), q # <<>>, NEW r, NEW h \in Handlers \ {"connected"},
         r = Tail(q) \/ r = Append(Tail(q), h)
  PROVE  /\ \A n \in DOMAIN r : r[n] = "connected" =>
              n \in Nat /\ n + 1 \in DOMAIN q /\ q[n + 1] = "connected"
         /\ \A m \in DOMAIN q : m # 1 => m > 1 /\ m - 1 \in DOMAIN r /\ r[m - 1] = q[m]
<1>1. Tail(q) \in Seq(Handlers)
  OBVIOUS
<1>2. CASE r = Tail(q)
  BY <1>2, TailFacts
<1>3. CASE r = Append(Tail(q), h)
  <2> DEFINE t == Tail(q)
  <2>1. /\ \A n \in DOMAIN t : n \in DOMAIN r /\ r[n] = t[n]
        /\ \A n \in DOMAIN r : r[n] = "connected" => n \in DOMAIN t
    BY <1>1, <1>3, PostFacts
  <2>2. /\ \A n \in DOMAIN t : n \in Nat /\ n + 1 \in DOMAIN q /\ t[n] = q[n + 1]
        /\ \A n \in DOMAIN q : n # 1 => n > 1 /\ n - 1 \in DOMAIN t /\ t[n - 1] = q[n]
    BY <1>1, TailFacts
  <2> HIDE DEF t
  <2> QED
    BY <2>1, <2>2
<1> QED
  BY <1>2, <1>3

-------------------------------------------------------------------------------
(* The invariant *)

\* The constructor establishes the invariant.
LEMMA NetInit == Init => NetInv
<1> SUFFICES ASSUME Init PROVE NetInv
  OBVIOUS
<1>1. TypeOK
  BY NetTypeInit
<1> QED
  BY <1>1 DEF Init, NetInv, Attempting, Reading, Reported, AtRest, Closing,
               NoSendBeforeHandshake

\* A handler that has run leaves connected_ and what is queued in agreement, if it
\* is "connected" that sets the flag and "lost" that resets it.
LEMMA ReportedAfter ==
  ASSUME NetInv, io = "running", strand_ # <<>>, NEW h \in Handlers \ {"connected"},
         strand_' = Tail(strand_) \/ strand_' = Append(Tail(strand_), h),
         connected_' => (connected_ /\ strand_[1] # "lost") \/ strand_[1] = "connected",
         UNCHANGED <<io, tcp, disconnected_>>
  PROVE  Reported'
<1>1. strand_ \in Seq(Handlers) /\ 1 \in DOMAIN strand_
  BY TailFacts DEF NetInv, TypeOK
<1>2. /\ \A n \in DOMAIN strand_' : strand_'[n] = "connected" =>
           n \in Nat /\ n + 1 \in DOMAIN strand_ /\ strand_[n + 1] = "connected"
      /\ \A m \in DOMAIN strand_ : m # 1 =>
           m > 1 /\ m - 1 \in DOMAIN strand_' /\ strand_'[m - 1] = strand_[m]
  BY <1>1, RunFacts
<1>3. ASSUME connected_'
      PROVE  /\ tcp' = "open" /\ io' = "running"
             /\ disconnected_' => \E m \in DOMAIN strand_' : strand_'[m] = "lost"
  <2>1. CASE connected_ /\ strand_[1] # "lost"
    BY <1>2, <2>1 DEF NetInv, Reported
  <2>2. CASE strand_[1] = "connected"
    BY <1>1, <1>2, <2>2 DEF NetInv, Reported
  <2> QED
    BY <1>3, <2>1, <2>2
<1>4. ASSUME NEW n \in DOMAIN strand_', strand_'[n] = "connected"
      PROVE  /\ tcp' = "open"
             /\ disconnected_' => \E m \in DOMAIN strand_' : n < m /\ strand_'[m] = "lost"
  <2>1. n \in Nat /\ n + 1 \in DOMAIN strand_ /\ strand_[n + 1] = "connected"
    BY <1>2, <1>4
  <2>2. tcp = "open"
    BY <2>1 DEF NetInv, Reported
  <2>3. ASSUME disconnected_'
        PROVE  \E m \in DOMAIN strand_' : n < m /\ strand_'[m] = "lost"
    <3>1. PICK m \in DOMAIN strand_ : n + 1 < m /\ strand_[m] = "lost"
      BY <2>1, <2>3 DEF NetInv, Reported
    <3>2. m \in Int
      BY <1>1
    <3> QED
      BY <1>2, <2>1, <3>1, <3>2
  <2> QED
    BY <2>2, <2>3
<1> QED
  BY <1>3, <1>4 DEF Reported

\* Every step preserves the invariant.
LEMMA NetStep == NetInv /\ [Next]_vars => NetInv'
<1> DEFINE Rest == /\ Attempting /\ Reading /\ Reported /\ AtRest /\ Closing
                   /\ NoSendBeforeHandshake
<1> SUFFICES ASSUME NetInv, [Next]_vars
             PROVE  Rest'
  BY NetTypeStep DEF NetInv
<1>0. strand_ \in Seq(Handlers)
  BY DEF NetInv, TypeOK
<1> USE DEF NetInv, Attempting, Reading, AtRest, Closing, NoSendBeforeHandshake, Handlers, Bodies,
            Post, Open, Running, handleDisconnect, objects, session, counters
<1>1. CASE ConnectFirst
  BY <1>0, <1>1, PostFacts DEF ConnectFirst, Reported
<1>2. ASSUME NEW f \in BOOLEAN, BeginDisconnect(f) PROVE Rest'
  BY <1>0, <1>2, PostFacts DEF BeginDisconnect, Reported
<1>3. CASE Joined
  BY <1>0, <1>3, PostFacts DEF Joined, Reported
<1>4. CASE Send
  BY <1>0, <1>4, PostFacts DEF Send, Reported
<1>5. CASE RunResolve
  <2>1. Reported'
    BY <1>0, <1>5, TailFacts, ReportedAfter DEF RunResolve
  <2>2. Attempting' /\ Reading' /\ AtRest' /\ Closing' /\ NoSendBeforeHandshake'
    BY <1>0, <1>5, PostFacts, TailFacts DEF RunResolve, Reported
  <2> QED
    BY <2>1, <2>2
<1>6. CASE RunConnected
  <2>1. Reported'
    BY <1>0, <1>6, TailFacts, ReportedAfter DEF RunConnected
  <2>2. Attempting' /\ Reading' /\ AtRest' /\ Closing' /\ NoSendBeforeHandshake'
    BY <1>0, <1>6, PostFacts, TailFacts DEF RunConnected, Reported
  <2> QED
    BY <2>1, <2>2
<1>7. CASE RunLost
  <2>1. Reported'
    BY <1>0, <1>7, TailFacts, ReportedAfter DEF RunLost
  <2>2. Attempting' /\ Reading' /\ AtRest' /\ Closing' /\ NoSendBeforeHandshake'
    BY <1>0, <1>7, PostFacts, TailFacts DEF RunLost, Reported
  <2> QED
    BY <2>1, <2>2
<1>8. ASSUME NEW h \in Bodies, RunMessage(h) PROVE Rest'
  <2>1. Reported'
    BY <1>0, <1>8, TailFacts, ReportedAfter DEF RunMessage
  <2>2. Attempting' /\ Reading' /\ AtRest' /\ Closing' /\ NoSendBeforeHandshake'
    BY <1>0, <1>8, PostFacts, TailFacts DEF RunMessage, Reported
  <2> QED
    BY <2>1, <2>2
<1>9. CASE RunMeta
  <2>1. Reported'
    BY <1>0, <1>9, TailFacts, ReportedAfter DEF RunMeta
  <2>2. Attempting' /\ Reading' /\ AtRest' /\ Closing' /\ NoSendBeforeHandshake'
    BY <1>0, <1>9, PostFacts, TailFacts DEF RunMeta, Reported
  <2> QED
    BY <2>1, <2>2
<1>10. CASE RunSend
  <2>1. Reported'
    BY <1>0, <1>10, TailFacts, ReportedAfter DEF RunSend
  <2>2. Attempting' /\ Reading' /\ AtRest' /\ Closing'
    BY <1>0, <1>10, TailFacts DEF RunSend, Reported
  <2>3. ~(connected_ /\ tcp = "handshake")
    BY DEF Reported
  <2>4. NoSendBeforeHandshake'
    BY <1>10, <2>3, Zenon DEF RunSend
  <2> QED
    BY <2>1, <2>2, <2>4
<1>11. CASE RunCleanup
  <2>1. Reported'
    BY <1>0, <1>11, TailFacts, ReportedAfter DEF RunCleanup
  <2>2. Attempting' /\ Reading' /\ AtRest' /\ Closing' /\ NoSendBeforeHandshake'
    BY <1>0, <1>11, PostFacts, TailFacts DEF RunCleanup, Reported
  <2> QED
    BY <2>1, <2>2
<1>12. CASE ResolveThrows
  BY <1>0, <1>12, PostFacts DEF ResolveThrows, Reported
<1>13. CASE ConnectSucceeds
  BY <1>0, <1>13, PostFacts DEF ConnectSucceeds, Reported
<1>23. CASE ConnectPlain
  BY <1>0, <1>23, PostFacts DEF ConnectPlain, Reported
<1>14. CASE ConnectFails
  BY <1>0, <1>14, PostFacts DEF ConnectFails, Reported
<1>15. ASSUME NEW m \in Bodies \union {"handshake", "error"}, Arrives(m)
       PROVE  Rest'
  BY <1>0, <1>15, PostFacts DEF Arrives, Reported
<1>16. CASE ReadAborted
  BY <1>0, <1>16, PostFacts DEF ReadAborted, Reported
<1>17. CASE ReadHandshake
  BY <1>0, <1>17, PostFacts DEF ReadHandshake, Reported
<1>18. CASE ReadMessage
  BY <1>0, <1>18, PostFacts DEF ReadMessage, Reported
<1>19. CASE ReadFails
  <2>0. UNCHANGED <<gui, io, connected_, tcp>> /\ disconnected_'
    BY <1>19 DEF ReadFails
  <2>1. Reported' /\ Closing'
    <3>1. CASE disconnected_
      BY <1>0, <1>19, <2>0, <3>1 DEF ReadFails, Reported
    <3>2. CASE ~disconnected_
      <4>1. strand_' = Append(strand_, "lost")
        BY <1>19, <3>2 DEF ReadFails
      <4> QED
        BY <1>0, <2>0, <4>1, PostFacts DEF Reported
    <3> QED
      BY <3>1, <3>2
  <2>2. Attempting' /\ Reading' /\ AtRest' /\ NoSendBeforeHandshake'
    BY <1>0, <1>19, PostFacts DEF ReadFails, Reported
  <2> QED
    BY <2>1, <2>2
<1>20. CASE WriteFails
  BY <1>0, <1>20, PostFacts DEF WriteFails, Reported
<1>21. CASE RunReturns
  BY <1>0, <1>21, PostFacts DEF RunReturns, Reported
<1>22. CASE UNCHANGED vars
  BY <1>0, <1>22, PostFacts DEF vars, Reported
<1> QED
  BY <1>1, <1>2, <1>3, <1>4, <1>5, <1>6, <1>7, <1>8, <1>9, <1>10, <1>11,
     <1>12, <1>13, <1>14, <1>15, <1>16, <1>17, <1>18, <1>19, <1>20, <1>21, <1>22,
     <1>23
  DEF Next, GuiThread, RunHandler, Server, ReadCompletes, Terminated

\* NetInv holds in every reachable state.
LEMMA NetInvariant == Spec => []NetInv
BY NetInit, NetStep, PTL DEF Spec

-------------------------------------------------------------------------------
(* The promises *)

\* The type invariant of the service.
THEOREM NetTypeCorrect == Spec => []TypeOK
<1>1. NetInv => TypeOK
  BY DEF NetInv
<1> QED
  BY <1>1, NetInvariant, PTL

\* Once what is posted has run, isConnected() is true only of an open session that
\* has not failed, on a running io thread; and of one that disconnect has closed
\* only while disconnect is in its join and the session's read is outstanding.
THEOREM StatusIsTrue == Spec => []StatusIsCurrent
<1>1. NetInv => StatusIsCurrent
  BY DEF NetInv, Reading, Reported, Closing, StatusIsCurrent
<1> QED
  BY <1>1, NetInvariant, PTL

\* send never reaches a session that is still in its handshake.
THEOREM HandshakeBeforeSend == Spec => []NoSendBeforeHandshake
<1>1. NetInv => NoSendBeforeHandshake
  BY DEF NetInv
<1> QED
  BY <1>1, NetInvariant, PTL

===============================================================================
