---------------------------- MODULE SessionProofs -----------------------------
(***************************************************************************)
(* Proofs about logging in and controlling devices, for any finite set of  *)
(* devices and any number of clicks and commands.                          *)
(***************************************************************************)
EXTENDS Session, SequenceFacts, FiniteSetTheorems, TLAPS

-------------------------------------------------------------------------------
(* The inductive invariant *)

Requests ==
  [type : {"login", "signup", "assign"}]
    \union [type : {"device"}, ip : Ips, states : Asked]

RequestsOK == requests \in Seq(Requests)

\* Requests wait for an answer over an open connection only, and a choice is
\* remembered for the connection it was made over.
Linked ==
  /\ requests # <<>> => link = "up"
  /\ link # "up" => wanted = [ip \in Ips |-> Unset]

LoggedIn == state_ /\ ~again

\* There is one exchange at most: a request to log in or to sign up, or an event
\* that answers it, and neither once a role is set.
Exchange ==
  /\ ~NoReply => link = "up" /\ NoAuth
  /\ \A m, n \in DOMAIN events : Reply(events[m]) /\ Reply(events[n]) => m = n
  /\ \A m, n \in DOMAIN requests : IsAuth(requests[m]) /\ IsAuth(requests[n]) => m = n
  /\ LoggedIn => link = "up" /\ NoReply /\ NoAuth

\* So it is unless a connection was lost or something was asked for during another
\* exchange.
OneAtATime == ~spoiled => Exchange

\* A request that does something to field f of device ip.
Sets(r, ip, f) == r.type = "device" /\ r.ip = ip /\ r.states[f] # ""

\* Field f of ip will be v once the server, with the settings d, has taken what is
\* in flight, q.
Settles(q, d, ip, f, v) ==
  \/ \E n \in DOMAIN q :
       /\ Sets(q[n], ip, f) /\ q[n].states[f] = v
       /\ \A m \in DOMAIN q : m > n => ~Sets(q[m], ip, f)
  \/ /\ \A n \in DOMAIN q : ~Sets(q[n], ip, f)
     /\ d[ip][f] = v

\* A choice is what the timer will send, or it is what the requests in flight
\* come to; the timer runs while it has something to send.
Chosen ==
  \A ip \in Ips : \A f \in Fields :
    /\ pendingStates_[ip][f] # "" => debounceTimer_
    /\ wanted[ip][f] \notin {"", "move"} =>
         \/ pendingStates_[ip][f] = wanted[ip][f]
         \/ pendingStates_[ip][f] = "" /\ Settles(requests, device, ip, f, wanted[ip][f])

SessionInv == TypeOK /\ RequestsOK /\ Linked /\ OneAtATime /\ Chosen

-------------------------------------------------------------------------------
(* What the timer sends *)

\* The messages processPendingStates sends.
Bodies ==
  LET ips == SetToSeq({ip \in Ips : pendingStates_[ip] # Unset})
  IN  [i \in DOMAIN ips |->
         [type |-> "device", ip |-> ips[i], states |-> pendingStates_[ips[i]]]]

\* There is one for every device with a setting to send, and no two for a device.
LEMMA BodiesFacts ==
  ASSUME TypeOK
  PROVE  /\ Bodies \in Seq(Requests)
         /\ \A n \in DOMAIN Bodies :
              /\ Bodies[n].type = "device" /\ Bodies[n].ip \in Ips
              /\ Bodies[n].states = pendingStates_[Bodies[n].ip]
         /\ \A m, n \in DOMAIN Bodies : Bodies[m].ip = Bodies[n].ip => m = n
         /\ \A ip \in Ips : pendingStates_[ip] # Unset =>
              \E n \in DOMAIN Bodies : Bodies[n].ip = ip
<1> DEFINE S == {ip \in Ips : pendingStates_[ip] # Unset}
           L == SetToSeq(S)
           N == Cardinality(S)
<1>1. IsFiniteSet(S)
  BY SessionAssumption, FS_Subset
<1>2. /\ N \in Nat /\ L \in [1..N -> S] /\ IsInjective(L)
      /\ \A x \in S : \E n \in 1..N : L[n] = x
  BY <1>1, Listing, Zenon
<1>3. Bodies = [i \in DOMAIN L |->
                 [type |-> "device", ip |-> L[i], states |-> pendingStates_[L[i]]]]
  BY DEF Bodies
<1>4. DOMAIN L = 1..N
  BY <1>2
<1>5. \A x \in S : x \in Ips
  OBVIOUS
<1>6. \A x \in Ips : pendingStates_[x] \in Asked
  <2> SUFFICES ASSUME NEW x \in Ips PROVE pendingStates_[x] \in Asked
    OBVIOUS
  <2>1. pendingStates_[x] \in States
    BY DEF TypeOK
  <2> QED
    BY <2>1 DEF States, Asked
<1>7. \A x \in Ips : pendingStates_[x] # Unset => x \in S
  OBVIOUS
<1> HIDE DEF S, L, N
<1>8. \A n \in 1..N : Bodies[n] = [type |-> "device", ip |-> L[n],
                                    states |-> pendingStates_[L[n]]]
  BY <1>3, <1>4
<1>9. \A n \in 1..N : L[n] \in Ips
  BY <1>2, <1>5
<1>10. Bodies \in [1..N -> Requests]
  <2> SUFFICES ASSUME NEW n \in 1..N PROVE Bodies[n] \in Requests
    BY <1>3, <1>4
  <2>1. L[n] \in Ips /\ pendingStates_[L[n]] \in Asked
    BY <1>6, <1>9
  <2>2. [type |-> "device", ip |-> L[n], states |-> pendingStates_[L[n]]]
          \in [type : {"device"}, ip : Ips, states : Asked]
    BY <2>1
  <2> QED
    BY <1>8, <2>2 DEF Requests
<1>11. Bodies \in Seq(Requests) /\ DOMAIN Bodies = 1..N
  <2>1. \A T : \A g \in [1..N -> T] : g \in Seq(T) /\ DOMAIN g = 1..N
    BY <1>2
  <2> QED
    BY <2>1, <1>10
<1>12. \A n \in 1..N : /\ Bodies[n].type = "device" /\ Bodies[n].ip = L[n]
                       /\ Bodies[n].states = pendingStates_[L[n]]
  <2> SUFFICES ASSUME NEW n \in 1..N
               PROVE  /\ Bodies[n].type = "device" /\ Bodies[n].ip = L[n]
                      /\ Bodies[n].states = pendingStates_[L[n]]
    OBVIOUS
  <2>1. Bodies[n] = [type |-> "device", ip |-> L[n], states |-> pendingStates_[L[n]]]
    BY <1>8
  <2> QED
    BY <2>1
<1>13. \A m, n \in 1..N : Bodies[m].ip = Bodies[n].ip => m = n
  BY <1>12, <1>2, <1>4 DEF IsInjective
<1>14. \A ip \in Ips : pendingStates_[ip] # Unset => \E n \in 1..N : Bodies[n].ip = ip
  BY <1>12, <1>7, <1>2
<1> QED
  BY <1>9, <1>11, <1>12, <1>13, <1>14

-------------------------------------------------------------------------------
(* Type correctness *)

\* TypeOK in three parts: what the network has and queues, the flags and pages of
\* the controllers, and the settings of the devices.
EventNames == {"connectedForLogin", "connectedForSignup", "loginSuccess",
               "loginFailed", "signupFailed", "pendingList"}

NetTypes ==
  /\ link \in {"none", "connecting", "up", "down"} /\ purpose \in {"login", "signup"}
  /\ requests \in Seq(Requests) /\ events \in Seq(EventNames)

ControlTypes ==
  /\ login \in Controllers /\ signup \in Controllers /\ state_ \in BOOLEAN
  /\ debounceTimer_ \in BOOLEAN /\ spoiled \in BOOLEAN /\ again \in BOOLEAN

SettingTypes ==
  /\ currentPage_ \in {"Login", "Signup", "Back", "Home"}
  /\ clicks \in 0..MaxClicks /\ commands \in 0..MaxCommands
  /\ pendingStates_ \in [Ips -> States] /\ wanted \in [Ips -> Asked]
  /\ device \in [Ips -> Asked]

\* They are TypeOK with RequestsOK, before and after a step.
LEMMA TypeSplit ==
  /\ TypeOK /\ RequestsOK <=> NetTypes /\ ControlTypes /\ SettingTypes
  /\ (TypeOK /\ RequestsOK)' <=> NetTypes' /\ ControlTypes' /\ SettingTypes'
BY Zenon DEF TypeOK, RequestsOK, NetTypes, ControlTypes, SettingTypes, EventNames

\* What the controllers and pages send is a request.
LEMMA RequestTypes ==
  /\ [type |-> "login"] \in Requests /\ [type |-> "signup"] \in Requests
  /\ [type |-> "assign"] \in Requests
  /\ \A ip \in Ips : \A f \in Fields : \A v \in Values(f) :
       [type |-> "device", ip |-> ip, states |-> [Unset EXCEPT ![f] = v]] \in Requests
  /\ \A r \in Requests : r.type = "device" => r.ip \in Ips /\ r.states \in Asked
<1>1. /\ [type |-> "login"] \in Requests /\ [type |-> "signup"] \in Requests
      /\ [type |-> "assign"] \in Requests
  BY DEF Requests
<1>2. ASSUME NEW ip \in Ips, NEW f \in Fields, NEW v \in Values(f)
      PROVE  [type |-> "device", ip |-> ip, states |-> [Unset EXCEPT ![f] = v]] \in Requests
  <2>1. [Unset EXCEPT ![f] = v] \in Asked
    BY SessionAssumption DEF Unset, Asked, Values
  <2> QED
    BY <2>1 DEF Requests
<1>3. ASSUME NEW r \in Requests, r.type = "device"
      PROVE  r.ip \in Ips /\ r.states \in Asked
  BY <1>3 DEF Requests
<1> QED
  BY <1>1, <1>2, <1>3

\* A device for which nothing is chosen has a state.
LEMMA UnsetType ==
  [ip \in Ips |-> Unset] \in [Ips -> States] /\ [ip \in Ips |-> Unset] \in [Ips -> Asked]
BY DEF Unset, States, Asked

\* At the start every variable is in its type.
LEMMA SessionTypeInit == Init => TypeOK /\ RequestsOK
<1> SUFFICES ASSUME Init PROVE NetTypes /\ ControlTypes /\ SettingTypes
  BY TypeSplit
<1>1. NetTypes
  BY DEF Init, NetTypes
<1>2. ControlTypes
  BY Zenon DEF Init, ControlTypes, Controllers, Controller
<1>3. SettingTypes
  BY SessionAssumption, UnsetType DEF Init, SettingTypes
<1> QED
  BY <1>1, <1>2, <1>3

\* A request that is sent or dropped leaves the network in its type.
LEMMA SendTypes ==
  ASSUME NetTypes, NEW r \in Requests, Send(r)
  PROVE  requests' \in Seq(Requests)
<1>1. Append(requests, r) \in Seq(Requests)
  BY DEF NetTypes
<1> QED
  BY <1>1 DEF NetTypes, Send

\* So does a connection that is closed, or closed and made again.
LEMMA DisconnectTypes ==
  ASSUME NetTypes, NEW rest \in Seq(EventNames), NEW p \in {"login", "signup"},
         NEW l \in {"none", "connecting"}, Disconnected(rest, l, p)
  PROVE  NetTypes'
<1>1. ConnectedEvent \in EventNames
  BY DEF ConnectedEvent, EventNames
<1>2. Append(rest, ConnectedEvent) \in Seq(EventNames)
  BY <1>1
<1>3. events' \in Seq(EventNames)
  BY <1>2 DEF Disconnected
<1> QED
  BY <1>3 DEF NetTypes, Disconnected

\* The event that is handled was queued, and the rest stays so.
LEMMA RestTypes ==
  ASSUME NetTypes, events # <<>>
  PROVE  Tail(events) \in Seq(EventNames)
BY DEF NetTypes

\* A handler or click keeps what the network has, and what is queued, in its type.
LEMMA NetTypesStep == TypeOK /\ RequestsOK /\ [Next]_vars => NetTypes'
<1> SUFFICES ASSUME TypeOK, NetTypes, [Next]_vars PROVE NetTypes'
  BY TypeSplit
<1> USE DEF net, control, bridge, commanded, past, vars
<1>1. CASE loginEmpty
  BY <1>1 DEF loginEmpty, NetTypes
<1>2. CASE loginClicked
  <2>1. CASE isConnected
    <3>1. Send([type |-> "login"]) /\ UNCHANGED <<link, purpose, events>>
      BY <1>2, <2>1 DEF loginClicked
    <3> QED
      BY <3>1, SendTypes, RequestTypes DEF NetTypes
  <2>2. CASE ~isConnected
    <3>1. Disconnected(events, "connecting", "login")
      BY <1>2, <2>2 DEF loginClicked, connectToServer
    <3> QED
      BY <3>1, DisconnectTypes DEF NetTypes
  <2> QED
    BY <2>1, <2>2
<1>3. CASE signupEmpty
  BY <1>3 DEF signupEmpty, NetTypes
<1>4. CASE signupClicked
  <2>1. CASE isConnected
    <3>1. Send([type |-> "signup"]) /\ UNCHANGED <<link, purpose, events>>
      BY <1>4, <2>1 DEF signupClicked
    <3> QED
      BY <3>1, SendTypes, RequestTypes DEF NetTypes
  <2>2. CASE ~isConnected
    <3>1. Disconnected(events, "connecting", "signup")
      BY <1>4, <2>2 DEF signupClicked, connectToServer
    <3> QED
      BY <3>1, DisconnectTypes DEF NetTypes
  <2> QED
    BY <2>1, <2>2
<1>5. CASE logout
  BY <1>5, DisconnectTypes DEF logout, disconnect, NetTypes
<1>6. ASSUME NEW p, NEW q \in {"Signup", "Back", "Home"}, navigate(p, q) PROVE NetTypes'
  BY <1>6 DEF navigate, NetTypes
<1>8. CASE sendAssign
  BY <1>8, SendTypes, RequestTypes DEF sendAssign, NetTypes
<1>9. ASSUME NEW ip \in Ips, NEW f \in Fields, NEW v \in Values(f), sendDevice(ip, f, v)
      PROVE  NetTypes'
  <2>1. requests' \in Seq(Requests)
    BY <1>9, SendTypes, RequestTypes DEF sendDevice, NetTypes
  <2> QED
    BY <1>9, <2>1 DEF sendDevice, NetTypes
<1>10. CASE onConnected
  <2>1. requests' \in Seq(Requests)
    BY <1>10, SendTypes, RequestTypes DEF onConnected, NetTypes
  <2> QED
    BY <1>10, <2>1, RestTypes DEF onConnected, Handling, NetTypes
<1>11. CASE onConnectedForSignup
  <2>1. requests' \in Seq(Requests)
    BY <1>11, SendTypes, RequestTypes DEF onConnectedForSignup, NetTypes
  <2> QED
    BY <1>11, <2>1, RestTypes DEF onConnectedForSignup, Handling, NetTypes
<1>12. CASE handleLoginSuccess
  BY <1>12, RestTypes DEF handleLoginSuccess, Handling, NetTypes
<1>13. CASE handleLoginFailed
  <2>1. events # <<>> /\ Disconnected(Tail(events), "none", purpose)
    BY <1>13 DEF handleLoginFailed, Handling, disconnect
  <2> QED
    BY <2>1, RestTypes, DisconnectTypes DEF NetTypes
<1>14. CASE handleSignupFailed
  <2>1. events # <<>> /\ Disconnected(Tail(events), "none", purpose)
    BY <1>14 DEF handleSignupFailed, Handling, disconnect
  <2> QED
    BY <2>1, RestTypes, DisconnectTypes DEF NetTypes
<1>15. CASE pendingListReceived
  BY <1>15, RestTypes DEF pendingListReceived, Handling, NetTypes
<1>16. CASE processPendingStates
  BY <1>16, BodiesFacts DEF processPendingStates, Bodies, NetTypes
<1>17. CASE ConnectionUp
  BY <1>17 DEF ConnectionUp, ConnectedEvent, EventNames, NetTypes
<1>18. CASE ConnectionDown
  BY <1>18 DEF ConnectionDown, NetTypes
<1>19. CASE Answer
  <2>1. requests' \in Seq(Requests) /\ UNCHANGED <<link, purpose>>
    <3>1. requests # <<>> /\ requests' = Tail(requests) /\ UNCHANGED <<link, purpose>>
      BY <1>19, Zenon DEF Answer
    <3> QED
      BY <3>1 DEF NetTypes
  <2>2. \/ UNCHANGED events
        \/ \E e \in EventNames : events' = Append(events, e)
    <3>1. onLoginFail(Head(requests)) \in EventNames
      BY DEF onLoginFail, EventNames
    <3>2. "loginSuccess" \in EventNames /\ "pendingList" \in EventNames
      BY DEF EventNames
    <3> QED
      BY <1>19, <3>1, <3>2, Zenon DEF Answer
  <2> QED
    BY <2>1, <2>2 DEF NetTypes
<1>20. CASE UNCHANGED vars
  BY <1>20 DEF vars, NetTypes
<1> QED
  BY <1>1, <1>2, <1>3, <1>4, <1>5, <1>6, <1>8, <1>9, <1>10,
     <1>11, <1>12, <1>13, <1>14, <1>15, <1>16, <1>17, <1>18, <1>19, <1>20 DEF Next, User, HandleEvent

\* And the flags of the controllers.
LEMMA ControlTypesStep == TypeOK /\ RequestsOK /\ [Next]_vars => ControlTypes'
<1> SUFFICES ASSUME ControlTypes, [Next]_vars PROVE ControlTypes'
  BY TypeSplit
<1> USE DEF ControlTypes, Controllers, Controller, Set, net, control, bridge, commanded, past,
            vars
<1>1. CASE loginEmpty
  BY <1>1, Zenon DEF loginEmpty
<1>2. CASE loginClicked
  <2>1. spoiled' \in BOOLEAN
    BY <1>2, Zenon DEF loginClicked
  <2>2. login' \in Controllers
    <3>1. Set(TRUE, FALSE, FALSE) \in Controllers /\ Set(TRUE, FALSE, TRUE) \in Controllers
      BY Zenon
    <3> QED
      BY <1>2, <3>1, Zenon DEF loginClicked
  <2> QED
    BY <1>2, <2>1, <2>2, Zenon DEF loginClicked
<1>3. CASE signupEmpty
  BY <1>3, Zenon DEF signupEmpty
<1>4. CASE signupClicked
  <2>1. spoiled' \in BOOLEAN
    BY <1>4, Zenon DEF signupClicked
  <2>2. signup' \in Controllers
    <3>1. Set(TRUE, FALSE, FALSE) \in Controllers /\ Set(TRUE, FALSE, TRUE) \in Controllers
      BY Zenon
    <3> QED
      BY <1>4, <3>1, Zenon DEF signupClicked
  <2> QED
    BY <1>4, <2>1, <2>2, Zenon DEF signupClicked
<1>5. CASE logout
  BY <1>5, Zenon DEF logout
<1>6. ASSUME NEW p, NEW q \in {"Signup", "Back", "Home"}, navigate(p, q) PROVE ControlTypes'
  BY <1>6, Zenon DEF navigate
<1>8. CASE sendAssign
  BY <1>8, Zenon DEF sendAssign
<1>9. ASSUME NEW ip \in Ips, NEW f \in Fields, NEW v \in Values(f), sendDevice(ip, f, v)
      PROVE  ControlTypes'
  BY <1>9, Zenon DEF sendDevice
<1>10. CASE onConnected
  BY <1>10, Zenon DEF onConnected
<1>11. CASE onConnectedForSignup
  BY <1>11, Zenon DEF onConnectedForSignup
<1>12. CASE handleLoginSuccess
  BY <1>12, Zenon DEF handleLoginSuccess
<1>13. CASE handleLoginFailed
  BY <1>13, Zenon DEF handleLoginFailed
<1>14. CASE handleSignupFailed
  BY <1>14, Zenon DEF handleSignupFailed
<1>15. CASE pendingListReceived
  BY <1>15, Zenon DEF pendingListReceived
<1>16. CASE processPendingStates
  BY <1>16, Zenon DEF processPendingStates
<1>17. CASE ConnectionUp
  BY <1>17, Zenon DEF ConnectionUp
<1>18. CASE ConnectionDown
  BY <1>18, Zenon DEF ConnectionDown
<1>19. CASE Answer
  BY <1>19, Zenon DEF Answer
<1>20. CASE UNCHANGED vars
  BY <1>20, Zenon DEF vars
<1> QED
  BY <1>1, <1>2, <1>3, <1>4, <1>5, <1>6, <1>8, <1>9, <1>10,
     <1>11, <1>12, <1>13, <1>14, <1>15, <1>16, <1>17, <1>18, <1>19, <1>20 DEF Next, User, HandleEvent

\* And the pages, the bounds and the settings.
LEMMA SettingTypesStep == TypeOK /\ RequestsOK /\ [Next]_vars => SettingTypes'
<1> SUFFICES ASSUME NetTypes, SettingTypes, [Next]_vars PROVE SettingTypes'
  BY TypeSplit
<1> USE DEF SettingTypes, net, control, bridge, commanded, past, vars, Disconnected, disconnect,
            connectToServer, Clicked, Command
<1>1. CASE loginEmpty
  BY <1>1, SessionAssumption, UnsetType, RequestTypes DEF loginEmpty
<1>2. CASE loginClicked
  <2>1. wanted' \in [Ips -> Asked]
    BY <1>2, UnsetType DEF loginClicked
  <2> QED
    BY <1>2, <2>1, SessionAssumption DEF loginClicked
<1>3. CASE signupEmpty
  BY <1>3, SessionAssumption, UnsetType, RequestTypes DEF signupEmpty
<1>4. CASE signupClicked
  <2>1. wanted' \in [Ips -> Asked]
    BY <1>4, UnsetType DEF signupClicked
  <2> QED
    BY <1>4, <2>1, SessionAssumption DEF signupClicked
<1>5. CASE logout
  BY <1>5, SessionAssumption, UnsetType, RequestTypes DEF logout
<1>6. ASSUME NEW p, NEW q \in {"Signup", "Back", "Home"}, navigate(p, q) PROVE SettingTypes'
  BY <1>6, SessionAssumption, UnsetType, RequestTypes DEF navigate
<1>8. CASE sendAssign
  BY <1>8, SessionAssumption, UnsetType, RequestTypes DEF sendAssign
<1>9. ASSUME NEW ip \in Ips, NEW f \in Fields, NEW v \in Values(f), sendDevice(ip, f, v)
      PROVE  SettingTypes'
  <2>1. pendingStates_' \in [Ips -> States]
    <3>1. PendingAfter(pendingStates_[ip], f, v) \in States
      <4>1. pendingStates_[ip] \in States
        OBVIOUS
      <4>2. CASE v = "move"
        BY <4>1, <4>2 DEF PendingAfter
      <4>3. CASE v # "move"
        BY <4>1, <4>3, SessionAssumption DEF PendingAfter, States, Asked, Values
      <4> QED
        BY <4>2, <4>3
    <3> QED
      BY <1>9, <3>1 DEF sendDevice
  <2>2. wanted' \in [Ips -> Asked]
    <3>1. [wanted[ip] EXCEPT ![f] = v] \in Asked
      BY SessionAssumption DEF Asked, Values
    <3>2. CASE isConnected
      BY <1>9, <3>1, <3>2 DEF sendDevice
    <3>3. CASE ~isConnected
      BY <1>9, <3>3 DEF sendDevice
    <3> QED
      BY <3>2, <3>3
  <2> QED
    BY <1>9, <2>1, <2>2, SessionAssumption DEF sendDevice
<1>10. CASE onConnected
  BY <1>10, SessionAssumption, UnsetType, RequestTypes DEF onConnected
<1>11. CASE onConnectedForSignup
  BY <1>11, SessionAssumption, UnsetType, RequestTypes DEF onConnectedForSignup
<1>12. CASE handleLoginSuccess
  BY <1>12, SessionAssumption, UnsetType, RequestTypes DEF handleLoginSuccess
<1>13. CASE handleLoginFailed
  BY <1>13, SessionAssumption, UnsetType, RequestTypes DEF handleLoginFailed
<1>14. CASE handleSignupFailed
  BY <1>14, SessionAssumption, UnsetType, RequestTypes DEF handleSignupFailed
<1>15. CASE pendingListReceived
  BY <1>15, SessionAssumption, UnsetType, RequestTypes DEF pendingListReceived
<1>16. CASE processPendingStates
  BY <1>16, SessionAssumption, UnsetType, RequestTypes DEF processPendingStates
<1>17. CASE ConnectionUp
  BY <1>17, SessionAssumption, UnsetType, RequestTypes DEF ConnectionUp
<1>18. CASE ConnectionDown
  BY <1>18, SessionAssumption, UnsetType, RequestTypes DEF ConnectionDown
<1>19. CASE Answer
  <2>1. device' \in [Ips -> Asked]
    <3> DEFINE r == Head(requests)
               D(d) == [f \in Fields |-> IF r.states[f] = "" THEN d[f]
                                         ELSE r.states[f]]
    <3>1. r \in Requests
      <4>1. requests # <<>>
        BY <1>19, Zenon DEF Answer
      <4> QED
        BY <4>1 DEF NetTypes
    <3>2. ASSUME r.type = "device" PROVE r.ip \in Ips /\ D(device[r.ip]) \in Asked
      <4>1. r.ip \in Ips /\ r.states \in Asked
        BY <3>1, <3>2, RequestTypes
      <4>2. device[r.ip] \in Asked
        BY <4>1
      <4> QED
        BY <4>1, <4>2, SessionAssumption DEF Asked, Values
    <3>3. \/ UNCHANGED device
          \/ r.type = "device" /\ device' = [device EXCEPT ![r.ip] = D(device[r.ip])]
      BY <1>19 DEF Answer
    <3> QED
      BY <3>2, <3>3
  <2> QED
    BY <1>19, <2>1 DEF Answer
<1>20. CASE UNCHANGED vars
  BY <1>20, SessionAssumption, UnsetType, RequestTypes DEF vars
<1> QED
  BY <1>1, <1>2, <1>3, <1>4, <1>5, <1>6, <1>8, <1>9, <1>10,
     <1>11, <1>12, <1>13, <1>14, <1>15, <1>16, <1>17, <1>18, <1>19, <1>20 DEF Next, User, HandleEvent

-------------------------------------------------------------------------------
(* One exchange at a time *)

\* Every step keeps requests to open connections, and choices to the connection
\* they were made over.
LEMMA LinkedStep == TypeOK /\ RequestsOK /\ Linked /\ [Next]_vars => Linked'
<1> SUFFICES ASSUME NetTypes, Linked, [Next]_vars PROVE Linked'
  BY TypeSplit
<1> USE DEF Linked, net, control, bridge, commanded, past, vars
<1>1. CASE loginEmpty
  BY <1>1 DEF loginEmpty
<1>2. CASE loginClicked
  BY <1>2 DEF loginClicked, Send, isConnected, connectToServer, Disconnected
<1>3. CASE signupEmpty
  BY <1>3 DEF signupEmpty
<1>4. CASE signupClicked
  BY <1>4 DEF signupClicked, Send, isConnected, connectToServer, Disconnected
<1>5. CASE logout
  BY <1>5 DEF logout, disconnect, Disconnected
<1>6. ASSUME NEW p, NEW q \in {"Signup", "Back", "Home"}, navigate(p, q) PROVE Linked'
  BY <1>6 DEF navigate
<1>8. CASE sendAssign
  BY <1>8 DEF sendAssign, Send, isConnected
<1>9. ASSUME NEW ip \in Ips, NEW f \in Fields, NEW v \in Values(f), sendDevice(ip, f, v)
      PROVE  Linked'
  BY <1>9 DEF sendDevice, Send, isConnected
<1>10. CASE onConnected
  BY <1>10 DEF onConnected, Send, isConnected
<1>11. CASE onConnectedForSignup
  BY <1>11 DEF onConnectedForSignup, Send, isConnected
<1>12. CASE handleLoginSuccess
  BY <1>12 DEF handleLoginSuccess
<1>13. CASE handleLoginFailed
  BY <1>13 DEF handleLoginFailed, disconnect, Disconnected
<1>14. CASE handleSignupFailed
  BY <1>14 DEF handleSignupFailed, disconnect, Disconnected
<1>15. CASE pendingListReceived
  BY <1>15 DEF pendingListReceived
<1>16. CASE processPendingStates
  BY <1>16 DEF processPendingStates, isConnected
<1>17. CASE ConnectionUp
  BY <1>17 DEF ConnectionUp
<1>18. CASE ConnectionDown
  BY <1>18 DEF ConnectionDown
<1>19. CASE Answer
  BY <1>19 DEF Answer
<1>20. CASE UNCHANGED vars
  BY <1>20 DEF vars
<1> QED
  BY <1>1, <1>2, <1>3, <1>4, <1>5, <1>6, <1>8, <1>9, <1>10,
     <1>11, <1>12, <1>13, <1>14, <1>15, <1>16, <1>17, <1>18, <1>19, <1>20 DEF Next, User, HandleEvent


\* Clicks and logout end the undisturbed login, other handlers leave it alone.
LEMMA LoginFacts ==
  /\ UNCHANGED <<state_, again>> => (LoggedIn' => LoggedIn)
  /\ state_' = state_ /\ again' = (again \/ state_) => ~LoggedIn'
  /\ state_' = FALSE => ~LoggedIn'
<1>1. ASSUME state_' = state_, again' = again, LoggedIn' PROVE LoggedIn
  BY <1>1, Zenon DEF LoggedIn
<1>2. ASSUME state_' = state_, again' = (again \/ state_), LoggedIn' PROVE FALSE
  BY <1>2, Zenon DEF LoggedIn
<1>3. ASSUME state_' = FALSE, LoggedIn' PROVE FALSE
  BY <1>3, Zenon DEF LoggedIn
<1> QED
  BY <1>1, <1>2, <1>3

\* A request that asks for no login or sign-up does not disturb the exchange.
LEMMA OtherRequest ==
  ASSUME RequestsOK, Exchange, NEW r \in Requests, ~IsAuth(r), Send(r) \/ UNCHANGED requests,
         UNCHANGED <<link, events, state_, again>>
  PROVE  Exchange'
<1>1. \A n \in DOMAIN requests' : IsAuth(requests'[n]) =>
        n \in DOMAIN requests /\ requests'[n] = requests[n]
  <2>1. CASE requests' = Append(requests, r)
    BY <2>1, QueueFacts DEF RequestsOK
  <2>2. CASE requests' = requests
    BY <2>2
  <2> QED
    BY <2>1, <2>2 DEF Send
<1> QED
  BY <1>1, LoginFacts DEF Exchange, NoReply, NoAuth

\* While a reply is handled there is no other one, no request to log in or to sign
\* up, the connection is open and the user has not logged in yet.
LEMMA ReplyHandled ==
  ASSUME NetTypes, Exchange, events # <<>>, Reply(Head(events))
  PROVE  /\ link = "up" /\ NoAuth /\ ~LoggedIn
         /\ \A n \in DOMAIN Tail(events) : ~Reply(Tail(events)[n])
<1>1. /\ Head(events) = events[1] /\ Len(events) \in Nat /\ Len(events) > 0
      /\ DOMAIN events = 1..Len(events) /\ DOMAIN Tail(events) = 1..(Len(events) - 1)
      /\ \A n \in DOMAIN Tail(events) : Tail(events)[n] = events[n + 1]
  BY QueueFacts DEF NetTypes
<1>2. 1 \in DOMAIN events /\ Reply(events[1])
  BY <1>1
<1>3. ~NoReply
  BY <1>2 DEF NoReply
<1>4. ASSUME NEW n \in DOMAIN Tail(events), Reply(Tail(events)[n]) PROVE FALSE
  <2>1. n + 1 \in DOMAIN events /\ Reply(events[n + 1]) /\ n + 1 # 1
    BY <1>1, <1>4
  <2> QED
    BY <2>1, <1>2 DEF Exchange
<1> QED
  BY <1>3, <1>4 DEF Exchange

\* A click on Login or Sign Up with nothing under way begins the one exchange.
LEMMA ClickBegins ==
  ASSUME NetTypes, ~Busy, NEW r \in Requests, NEW p \in {"login", "signup"}, ~LoggedIn',
         \/ Send(r) /\ isConnected /\ UNCHANGED <<link, events>>
         \/ connectToServer(p)
  PROVE  Exchange'
<1>1. NoAuth /\ NoReply /\ link # "connecting"
  BY DEF Busy
<1>2. events' = events
  BY <1>1 DEF connectToServer, Disconnected
<1>3. requests' = <<>> \/ requests' = Append(requests, r)
  BY DEF Send, connectToServer, Disconnected
<1>4. \A n \in DOMAIN requests' : IsAuth(requests'[n]) => n = Len(requests) + 1
  BY <1>1, <1>3, QueueFacts DEF NoAuth, NetTypes
<1> QED
  BY <1>1, <1>2, <1>4 DEF Exchange, NoReply

\* Unless the step spoils it, there is one exchange at most after it, too.
LEMMA ExchangeStep ==
  TypeOK /\ RequestsOK /\ Linked /\ OneAtATime /\ [Next]_vars /\ ~spoiled' => Exchange'
<1> SUFFICES ASSUME TypeOK, RequestsOK, Linked, OneAtATime, [Next]_vars, ~spoiled'
             PROVE  Exchange'
  OBVIOUS
<1>a. NetTypes
  BY TypeSplit
<1>b. ~spoiled
  BY Zenon DEF Next, User, HandleEvent, loginEmpty, loginClicked, signupEmpty,
    signupClicked, logout, navigate, sendAssign, sendDevice, onConnected,
    onConnectedForSignup, handleLoginSuccess, handleLoginFailed, handleSignupFailed,
    pendingListReceived, processPendingStates, ConnectionUp, ConnectionDown, Answer,
    past, vars
<1>c. Exchange
  BY <1>b, Zenon DEF OneAtATime
<1> HIDE DEF OneAtATime
<1> USE <1>a, <1>c DEF net, control, bridge, commanded, past, vars
<1>1. CASE loginEmpty
  BY <1>1, LoginFacts DEF loginEmpty, Exchange, NoReply, NoAuth
<1>2. CASE loginClicked
  <2>1. ~Busy
    BY <1>2, Zenon DEF loginClicked
  <2>2. ~LoggedIn'
    BY <1>2, LoginFacts, Zenon DEF loginClicked
  <2>3. \/ Send([type |-> "login"]) /\ isConnected /\ UNCHANGED <<link, events>>
        \/ connectToServer("login")
    BY <1>2 DEF loginClicked
  <2> QED
    BY <2>1, <2>2, <2>3, ClickBegins, RequestTypes
<1>3. CASE signupEmpty
  BY <1>3, LoginFacts DEF signupEmpty, Exchange, NoReply, NoAuth
<1>4. CASE signupClicked
  <2>1. ~Busy
    BY <1>4, Zenon DEF signupClicked
  <2>2. ~LoggedIn'
    BY <1>4, LoginFacts, Zenon DEF signupClicked
  <2>3. \/ Send([type |-> "signup"]) /\ isConnected /\ UNCHANGED <<link, events>>
        \/ connectToServer("signup")
    BY <1>4 DEF signupClicked
  <2> QED
    BY <2>1, <2>2, <2>3, ClickBegins, RequestTypes
<1>5. CASE logout
  <2>1. ~Busy /\ ~LoggedIn'
    BY <1>5, LoginFacts, Zenon DEF logout
  <2>2. events' = events /\ requests' = <<>>
    BY <1>5, <2>1 DEF logout, disconnect, Disconnected, Busy
  <2> QED
    BY <2>1, <2>2 DEF Exchange, NoReply, NoAuth, Busy
<1>6. ASSUME NEW p, NEW q \in {"Signup", "Back", "Home"}, navigate(p, q) PROVE Exchange'
  BY <1>6, LoginFacts DEF navigate, Exchange, NoReply, NoAuth
<1>8. CASE sendAssign
  <2>1. ~IsAuth([type |-> "assign"])
    BY DEF IsAuth
  <2> QED
    BY <1>8, <2>1, OtherRequest, RequestTypes DEF sendAssign
<1>9. ASSUME NEW ip \in Ips, NEW f \in Fields, NEW v \in Values(f), sendDevice(ip, f, v)
      PROVE  Exchange'
  <2> DEFINE r == [type |-> "device", ip |-> ip, states |-> [Unset EXCEPT ![f] = v]]
  <2>1. r \in Requests /\ ~IsAuth(r)
    BY RequestTypes DEF IsAuth
  <2>2. Send(r) \/ UNCHANGED requests
    BY <1>9 DEF sendDevice
  <2>3. UNCHANGED <<link, events, state_, again>>
    BY <1>9 DEF sendDevice
  <2> HIDE DEF r
  <2> QED
    BY <2>1, <2>2, <2>3, OtherRequest
<1>10. CASE onConnected \/ onConnectedForSignup
  <2>1. events # <<>> /\ Reply(Head(events))
    BY <1>10 DEF onConnected, onConnectedForSignup, Handling, Reply
  <2>2. /\ link = "up" /\ NoAuth /\ ~LoggedIn
        /\ \A n \in DOMAIN Tail(events) : ~Reply(Tail(events)[n])
    BY <2>1, ReplyHandled
  <2>3. events' = Tail(events) /\ UNCHANGED <<link, state_, again>>
    BY <1>10 DEF onConnected, onConnectedForSignup
  <2>4. \/ UNCHANGED requests
        \/ \E r \in Requests : requests' = Append(requests, r)
    BY <1>10, RequestTypes DEF onConnected, onConnectedForSignup, Send
  <2>5. \A m, n \in DOMAIN requests' :
          IsAuth(requests'[m]) /\ IsAuth(requests'[n]) => m = n
    <3>1. CASE UNCHANGED requests
      BY <3>1, <2>2 DEF NoAuth
    <3>2. ASSUME NEW r \in Requests, requests' = Append(requests, r)
          PROVE  \A n \in DOMAIN requests' : IsAuth(requests'[n]) => n = Len(requests) + 1
      BY <3>2, <2>2, QueueFacts DEF NoAuth, NetTypes
    <3> QED
      BY <2>4, <3>1, <3>2
  <2> QED
    BY <2>2, <2>3, <2>5, LoginFacts DEF Exchange, NoReply, NoAuth
<1>12. CASE handleLoginSuccess
  <2>1. events # <<>> /\ Reply(Head(events))
    BY <1>12 DEF handleLoginSuccess, Handling, Reply
  <2>2. /\ link = "up" /\ NoAuth
        /\ \A n \in DOMAIN Tail(events) : ~Reply(Tail(events)[n])
    BY <2>1, ReplyHandled
  <2>3. events' = Tail(events) /\ UNCHANGED <<link, requests>>
    BY <1>12 DEF handleLoginSuccess
  <2> QED
    BY <2>2, <2>3 DEF Exchange, NoReply, NoAuth
<1>13. CASE handleLoginFailed \/ handleSignupFailed
  <2>1. events # <<>> /\ Reply(Head(events))
    BY <1>13 DEF handleLoginFailed, handleSignupFailed, Handling, Reply
  <2>2. /\ link = "up" /\ ~LoggedIn
        /\ \A n \in DOMAIN Tail(events) : ~Reply(Tail(events)[n])
    BY <2>1, ReplyHandled
  <2>3. events' = Tail(events) /\ requests' = <<>> /\ UNCHANGED <<state_, again>>
    BY <1>13, <2>2 DEF handleLoginFailed, handleSignupFailed, disconnect, Disconnected
  <2> QED
    BY <2>2, <2>3, LoginFacts DEF Exchange, NoReply, NoAuth
<1>15. CASE pendingListReceived
  <2>1. events # <<>> /\ events' = Tail(events) /\ UNCHANGED <<link, requests, state_, again>>
    BY <1>15 DEF pendingListReceived, Handling
  <2>2. \A n \in DOMAIN events' : n + 1 \in DOMAIN events /\ events'[n] = events[n + 1]
    BY <2>1, QueueFacts DEF NetTypes
  <2>3. DOMAIN events' \subseteq Int
    BY <2>1 DEF NetTypes
  <2>4. NoReply => NoReply'
    BY <2>2 DEF NoReply
  <2>5. \A m, n \in DOMAIN events' : Reply(events'[m]) /\ Reply(events'[n]) => m = n
    BY <2>2, <2>3 DEF Exchange
  <2> QED
    BY <2>1, <2>4, <2>5, LoginFacts DEF Exchange, NoAuth
<1>16. CASE processPendingStates
  <2>1. /\ requests' = IF isConnected THEN requests \o Bodies ELSE requests
        /\ UNCHANGED <<link, events, state_, again>>
    BY <1>16 DEF processPendingStates, Bodies
  <2>2. Bodies \in Seq(Requests) /\ \A n \in DOMAIN Bodies : Bodies[n].type = "device"
    BY BodiesFacts
  <2> HIDE DEF Bodies
  <2>3. \A n \in DOMAIN requests' : IsAuth(requests'[n]) =>
          n \in DOMAIN requests /\ requests'[n] = requests[n]
    <3>1. CASE requests' = requests \o Bodies
      BY <3>1, <2>2, ConcatFacts DEF IsAuth, NetTypes
    <3>2. CASE requests' = requests
      BY <3>2
    <3> QED
      BY <2>1, <3>1, <3>2
  <2> QED
    BY <2>1, <2>3, LoginFacts DEF Exchange, NoReply, NoAuth
<1>17. CASE ConnectionUp
  <2>1. /\ link = "connecting" /\ link' = "up" /\ events' = Append(events, ConnectedEvent)
        /\ UNCHANGED <<requests, state_, again>>
    BY <1>17 DEF ConnectionUp
  <2>2. requests = <<>> /\ NoReply /\ ~LoggedIn
    BY <2>1 DEF Linked, Exchange
  <2>3. \A n \in DOMAIN events' : Reply(events'[n]) => n = Len(events) + 1
    <3>1. ConnectedEvent \in EventNames
      BY DEF ConnectedEvent, EventNames
    <3> HIDE DEF ConnectedEvent
    <3> QED
      BY <2>1, <2>2, <3>1, QueueFacts DEF NoReply, NetTypes
  <2> QED
    BY <2>1, <2>2, <2>3, LoginFacts DEF Exchange, NoReply, NoAuth
<1>18. CASE ConnectionDown
  BY <1>18, Zenon DEF ConnectionDown
<1>19. CASE Answer
  <2> DEFINE r == Head(requests)
  <2>1. /\ link = "up" /\ requests # <<>> /\ requests' = Tail(requests)
        /\ UNCHANGED <<link, state_, again>>
    BY <1>19, Zenon DEF Answer
  <2>2. /\ 1 \in DOMAIN requests /\ r = requests[1]
        /\ \A n \in DOMAIN requests' : /\ n + 1 \in DOMAIN requests /\ n + 1 # 1
                                       /\ requests'[n] = requests[n + 1]
        /\ DOMAIN requests' \subseteq Int
    BY <2>1, QueueFacts DEF NetTypes
  <2>3. \/ UNCHANGED events \/ events' = Append(events, "pendingList")
        \/ /\ IsAuth(r)
           /\ \E e \in EventNames : events' = Append(events, e)
    <3>1. onLoginFail(r) \in EventNames /\ "loginSuccess" \in EventNames
      BY DEF onLoginFail, EventNames
    <3>2. r.type = "login" => IsAuth(r)
      BY DEF IsAuth
    <3> QED
      BY <1>19, <3>1, <3>2, Zenon DEF Answer, IsAuth
  <2> HIDE DEF r
  <2>4. NoAuth => NoAuth'
    BY <2>2 DEF NoAuth
  <2>5. \A m, n \in DOMAIN requests' :
          IsAuth(requests'[m]) /\ IsAuth(requests'[n]) => m = n
    BY <2>2 DEF Exchange
  <2>6. CASE UNCHANGED events \/ events' = Append(events, "pendingList")
    <3>1. \A n \in DOMAIN events' : Reply(events'[n]) =>
            n \in DOMAIN events /\ events'[n] = events[n]
      <4>1. "pendingList" \in EventNames /\ ~Reply("pendingList")
        BY DEF EventNames, Reply
      <4> QED
        BY <2>6, <4>1, QueueFacts DEF NetTypes
    <3> QED
      BY <2>1, <2>4, <2>5, <3>1, LoginFacts DEF Exchange, NoReply
  <2>7. ASSUME IsAuth(r), NEW e \in EventNames, events' = Append(events, e)
        PROVE  Exchange'
    <3>1. ~NoAuth
      BY <2>2, <2>7 DEF NoAuth
    <3>2. NoReply /\ ~LoggedIn
      BY <3>1 DEF Exchange
    <3>3. NoAuth'
      BY <2>2, <2>7 DEF NoAuth, Exchange
    <3>4. \A n \in DOMAIN events' : Reply(events'[n]) => n = Len(events) + 1
      BY <2>7, <3>2, QueueFacts DEF NoReply, NetTypes
    <3> QED
      BY <2>1, <3>2, <3>3, <3>4, LoginFacts DEF Exchange, NoReply, NoAuth
  <2> QED
    BY <2>3, <2>6, <2>7
<1>20. CASE UNCHANGED vars
  BY <1>20, LoginFacts DEF Exchange, NoReply, NoAuth
<1> QED
  BY <1>1, <1>2, <1>3, <1>4, <1>5, <1>6, <1>8, <1>9, <1>10,
     <1>12, <1>13, <1>15, <1>16, <1>17, <1>18, <1>19, <1>20 DEF Next, User, HandleEvent

-------------------------------------------------------------------------------
(* The last choice *)

\* Requests that leave a field alone change nothing about what it settles at.
LEMMA SettlesAfterOthers ==
  ASSUME NEW q \in Seq(Requests), NEW b \in Seq(Requests), NEW d,
         NEW ip \in Ips, NEW f \in Fields, NEW v,
         \A n \in DOMAIN b : ~Sets(b[n], ip, f),
         Settles(q, d, ip, f, v)
  PROVE  Settles(q \o b, d, ip, f, v)
<1> DEFINE c == q \o b
<1>1. /\ \A n \in DOMAIN q : n \in DOMAIN c /\ c[n] = q[n]
      /\ \A n \in DOMAIN c : \/ n \in DOMAIN q /\ c[n] = q[n]
                             \/ \E k \in DOMAIN b : c[n] = b[k]
  BY ConcatFacts
<1> HIDE DEF c
<1>2. \A n \in DOMAIN c : Sets(c[n], ip, f) => n \in DOMAIN q /\ c[n] = q[n]
  BY <1>1
<1>3. CASE \A n \in DOMAIN q : ~Sets(q[n], ip, f)
  BY <1>2, <1>3 DEF Settles
<1>4. ASSUME NEW n \in DOMAIN q, Sets(q[n], ip, f), q[n].states[f] = v,
             \A m \in DOMAIN q : m > n => ~Sets(q[m], ip, f)
      PROVE  Settles(c, d, ip, f, v)
  BY <1>1, <1>2, <1>4 DEF Settles
<1> QED
  BY <1>3, <1>4 DEF Settles, c

\* The same for one more request.
LEMMA SettlesAfterOther ==
  ASSUME NEW q \in Seq(Requests), NEW r \in Requests, NEW d,
         NEW ip \in Ips, NEW f \in Fields, NEW v, ~Sets(r, ip, f),
         Settles(q, d, ip, f, v)
  PROVE  Settles(Append(q, r), d, ip, f, v)
<1>1. /\ <<r>> \in Seq(Requests) /\ q \o <<r>> = Append(q, r)
      /\ \A n \in DOMAIN <<r>> : <<r>>[n] = r
  OBVIOUS
<1>2. \A n \in DOMAIN <<r>> : ~Sets(<<r>>[n], ip, f)
  BY <1>1
<1>3. Settles(q \o <<r>>, d, ip, f, v)
  BY <1>1, <1>2, SettlesAfterOthers
<1> QED
  BY <1>1, <1>3

\* The one message among the new ones that sets a field decides.
LEMMA SettlesAtNew ==
  ASSUME NEW q \in Seq(Requests), NEW b \in Seq(Requests), NEW d,
         NEW ip \in Ips, NEW f \in Fields, NEW v,
         NEW k \in DOMAIN b, Sets(b[k], ip, f), b[k].states[f] = v,
         \A m \in DOMAIN b : Sets(b[m], ip, f) => m = k
  PROVE  Settles(q \o b, d, ip, f, v)
<1> DEFINE c == q \o b
           n == Len(q) + k
<1>1. /\ n \in DOMAIN c /\ c[n] = b[k]
      /\ \A m \in DOMAIN c : \/ m \in DOMAIN q
                             \/ \E j \in DOMAIN b : m = Len(q) + j /\ c[m] = b[j]
  BY ConcatFacts
<1>2. \A m \in DOMAIN q : ~(m > n)
  OBVIOUS
<1> HIDE DEF c, n
<1>3. \A m \in DOMAIN c : m > n => ~Sets(c[m], ip, f)
  <2> SUFFICES ASSUME NEW m \in DOMAIN c, m > n, Sets(c[m], ip, f) PROVE FALSE
    OBVIOUS
  <2>1. PICK j \in DOMAIN b : m = Len(q) + j /\ c[m] = b[j]
    BY <1>1, <1>2
  <2>2. j = k
    BY <2>1
  <2> QED
    BY <2>1, <2>2 DEF n
<1> QED
  BY <1>1, <1>3 DEF Settles, c

\* The server takes the first request: what the others come to is the same.
LEMMA SettlesTaken ==
  ASSUME NEW q \in Seq(Requests), q # <<>>, NEW d, NEW e,
         NEW ip \in Ips, NEW f \in Fields, NEW v,
         e[ip][f] = IF Sets(Head(q), ip, f) THEN Head(q).states[f] ELSE d[ip][f],
         Settles(q, d, ip, f, v)
  PROVE  Settles(Tail(q), e, ip, f, v)
<1> DEFINE t == Tail(q)
<1>1. /\ Head(q) = q[1] /\ Len(q) \in Nat /\ Len(q) > 0 /\ DOMAIN q = 1..Len(q)
      /\ DOMAIN t = 1..(Len(q) - 1) /\ \A n \in DOMAIN t : t[n] = q[n + 1]
  BY QueueFacts
<1>2. \A n \in DOMAIN q : n > 1 => n - 1 \in DOMAIN t /\ t[n - 1] = q[n]
  BY <1>1
<1> HIDE DEF t
<1>3. CASE \A n \in DOMAIN q : ~Sets(q[n], ip, f)
  <2>1. \A n \in DOMAIN t : ~Sets(t[n], ip, f)
    BY <1>1, <1>3
  <2>2. ~Sets(Head(q), ip, f)
    BY <1>1, <1>3
  <2>3. d[ip][f] = v
    BY <1>3 DEF Settles
  <2> QED
    BY <2>1, <2>2, <2>3 DEF Settles, t
<1>4. ASSUME NEW n \in DOMAIN q, Sets(q[n], ip, f), q[n].states[f] = v,
             \A m \in DOMAIN q : m > n => ~Sets(q[m], ip, f)
      PROVE  Settles(t, e, ip, f, v)
  <2>1. CASE n = 1
    <3>1. \A m \in DOMAIN t : ~Sets(t[m], ip, f)
      BY <1>1, <1>4, <2>1
    <3>2. e[ip][f] = v
      BY <1>1, <1>4, <2>1
    <3> QED
      BY <3>1, <3>2 DEF Settles
  <2>2. CASE n > 1
    <3>1. n - 1 \in DOMAIN t /\ t[n - 1] = q[n]
      BY <1>2, <2>2
    <3>2. \A m \in DOMAIN t : m > n - 1 => ~Sets(t[m], ip, f)
      BY <1>1, <1>4
    <3> QED
      BY <1>4, <3>1, <3>2 DEF Settles
  <2> QED
    BY <1>1, <2>1, <2>2
<1> QED
  BY <1>3, <1>4 DEF Settles, t

\* What is kept for the timer keeps it running.
Timed == \A ip \in Ips : \A f \in Fields : pendingStates_[ip][f] # "" => debounceTimer_

\* A choice is what is kept for the timer, or what the requests in flight come to.
Kept ==
  \A ip \in Ips : \A f \in Fields :
    wanted[ip][f] \notin {"", "move"} =>
      \/ pendingStates_[ip][f] = wanted[ip][f]
      \/ pendingStates_[ip][f] = "" /\ Settles(requests, device, ip, f, wanted[ip][f])

\* They are Chosen, before and after a step.
LEMMA ChosenSplit == (Chosen <=> Timed /\ Kept) /\ (Chosen' <=> Timed' /\ Kept')
BY Zenon DEF Chosen, Timed, Kept

\* Only sendDevice and the timer touch what is kept.
LEMMA TimedStep == TypeOK /\ Timed /\ [Next]_vars => Timed'
<1> SUFFICES ASSUME TypeOK, Timed, [Next]_vars PROVE Timed'
  OBVIOUS
<1>1. ASSUME NEW ip \in Ips, NEW f \in Fields, NEW v \in Values(f), sendDevice(ip, f, v)
      PROVE  Timed'
  <2>1. CASE v = "move"
    <3>1. pendingStates_' = [pendingStates_ EXCEPT ![ip] = pendingStates_[ip]]
      BY <1>1, <2>1 DEF sendDevice, PendingAfter
    <3>2. pendingStates_' = pendingStates_
      BY <3>1 DEF TypeOK
    <3>3. debounceTimer_ => debounceTimer_'
      BY <1>1, Zenon DEF sendDevice
    <3> QED
      BY <3>2, <3>3, Zenon DEF Timed
  <2>2. CASE v # "move"
    <3>1. debounceTimer_'
      BY <1>1, <2>2, Zenon DEF sendDevice
    <3> QED
      BY <3>1, Zenon DEF Timed
  <2> QED
    BY <2>1, <2>2
<1>2. CASE processPendingStates
  <2>1. \A ip \in Ips : \A f \in Fields : pendingStates_'[ip][f] = ""
    BY <1>2 DEF processPendingStates, Unset
  <2> QED
    BY <2>1, Zenon DEF Timed
<1>3. CASE UNCHANGED bridge
  BY <1>3, Zenon DEF Timed, bridge
<1>4. \/ \E ip \in Ips : \E f \in Fields : \E v \in Values(f) : sendDevice(ip, f, v)
      \/ processPendingStates \/ UNCHANGED bridge
  BY Zenon DEF Next, User, HandleEvent, loginEmpty, loginClicked, signupEmpty,
    signupClicked, logout, navigate, sendAssign, onConnected, onConnectedForSignup,
    handleLoginSuccess, handleLoginFailed, handleSignupFailed, pendingListReceived,
    ConnectionUp, ConnectionDown, Answer, vars
<1> QED
  BY <1>1, <1>2, <1>3, <1>4

\* A connection that is closed takes the choices made over it along.
LEMMA KeptForgotten == ASSUME wanted' = [ip \in Ips |-> Unset] PROVE Kept'
BY DEF Kept, Unset

\* A request about no device leaves what is kept alone.
LEMMA KeptOther ==
  ASSUME RequestsOK, Kept, NEW r \in Requests, r.type # "device",
         Send(r) \/ UNCHANGED requests, UNCHANGED <<pendingStates_, wanted, device>>
  PROVE  Kept'
<1> SUFFICES ASSUME NEW ip \in Ips, NEW f \in Fields,
                    Settles(requests, device, ip, f, wanted[ip][f])
             PROVE  Settles(requests', device, ip, f, wanted[ip][f])
  BY DEF Kept
<1>1. ~Sets(r, ip, f)
  BY DEF Sets
<1>2. Settles(Append(requests, r), device, ip, f, wanted[ip][f])
  BY <1>1, SettlesAfterOther DEF RequestsOK
<1> QED
  BY <1>2 DEF Send

\* The user chooses a setting: the timer will send it.
LEMMA KeptChoice ==
  ASSUME TypeOK, RequestsOK, Linked, Kept,
         NEW ip \in Ips, NEW f \in Fields, NEW v \in Values(f), sendDevice(ip, f, v)
  PROVE  Kept'
<1> DEFINE r == [type |-> "device", ip |-> ip, states |-> [Unset EXCEPT ![f] = v]]
<1> SUFFICES ASSUME NEW i \in Ips, NEW g \in Fields, wanted'[i][g] \notin {"", "move"}
             PROVE  \/ pendingStates_'[i][g] = wanted'[i][g]
                    \/ /\ pendingStates_'[i][g] = ""
                       /\ Settles(requests', device', i, g, wanted'[i][g])
  BY DEF Kept
<1>1. isConnected
  <2> SUFFICES ASSUME ~isConnected PROVE FALSE
    OBVIOUS
  <2>1. wanted' = wanted
    BY DEF sendDevice
  <2>2. wanted = [j \in Ips |-> Unset]
    BY DEF Linked, isConnected
  <2> QED
    BY <2>1, <2>2 DEF Unset
<1>2. CASE i = ip /\ g = f
  <2>1. wanted' = [wanted EXCEPT ![ip][f] = v]
    BY <1>1 DEF sendDevice
  <2>2. wanted'[i][g] = v /\ v # "move"
    BY <1>2, <2>1 DEF TypeOK, Asked
  <2>3. pendingStates_' = [pendingStates_ EXCEPT ![ip] = [pendingStates_[ip] EXCEPT ![f] = v]]
    BY <2>2 DEF sendDevice, PendingAfter
  <2> QED
    BY <1>2, <2>2, <2>3 DEF TypeOK, States, Asked
<1>3. CASE ~(i = ip /\ g = f)
  <2>1. wanted'[i][g] = wanted[i][g]
    BY <1>3 DEF sendDevice, TypeOK, Asked
  <2>2. pendingStates_'[i][g] = pendingStates_[i][g]
    <3>1. pendingStates_' = [pendingStates_ EXCEPT ![ip] = PendingAfter(pendingStates_[ip], f, v)]
      BY DEF sendDevice
    <3>2. i = ip => PendingAfter(pendingStates_[ip], f, v)[g] = pendingStates_[i][g]
      BY <1>3 DEF PendingAfter, TypeOK, States, Asked
    <3> QED
      BY <3>1, <3>2 DEF TypeOK
  <2>3. device' = device
    BY DEF sendDevice
  <2>4. ASSUME Settles(requests, device, i, g, wanted[i][g])
        PROVE  Settles(requests', device, i, g, wanted[i][g])
    <3>1. r \in Requests
      BY RequestTypes
    <3>2. ~Sets(r, i, g)
      <4>1. r.ip = ip /\ r.states = [Unset EXCEPT ![f] = v]
        OBVIOUS
      <4>2. r.states[g] = IF g = f THEN v ELSE ""
        BY <4>1 DEF Unset
      <4> HIDE DEF r
      <4> QED
        BY <1>3, <4>1, <4>2 DEF Sets
    <3>3. requests' = Append(requests, r) \/ requests' = requests
      BY DEF sendDevice, Send
    <3> HIDE DEF r
    <3>4. Settles(Append(requests, r), device, i, g, wanted[i][g])
      BY <2>4, <3>1, <3>2, SettlesAfterOther DEF RequestsOK
    <3> QED
      BY <2>4, <3>3, <3>4
  <2> QED
    BY <2>1, <2>2, <2>3, <2>4 DEF Kept
<1> QED
  BY <1>2, <1>3

\* The timer fires: what was kept for a device is its one message.
LEMMA KeptSent ==
  ASSUME TypeOK, RequestsOK, Linked, Kept, processPendingStates
  PROVE  Kept'
<1> SUFFICES ASSUME NEW ip \in Ips, NEW f \in Fields, wanted[ip][f] \notin {"", "move"}
             PROVE  Settles(requests', device, ip, f, wanted[ip][f])
  BY DEF Kept, processPendingStates, commanded, Unset
<1>1. isConnected
  BY DEF Linked, isConnected, Unset
<1>2. requests' = requests \o Bodies
  BY <1>1 DEF processPendingStates, Bodies
<1>3. /\ Bodies \in Seq(Requests)
      /\ \A n \in DOMAIN Bodies :
           /\ Bodies[n].type = "device" /\ Bodies[n].ip \in Ips
           /\ Bodies[n].states = pendingStates_[Bodies[n].ip]
      /\ \A m, n \in DOMAIN Bodies : Bodies[m].ip = Bodies[n].ip => m = n
      /\ pendingStates_[ip] # Unset => \E n \in DOMAIN Bodies : Bodies[n].ip = ip
  BY BodiesFacts
<1>4. CASE pendingStates_[ip][f] = wanted[ip][f]
  <2>1. pendingStates_[ip] # Unset
    BY <1>4 DEF Unset
  <2>2. PICK k \in DOMAIN Bodies : Bodies[k].ip = ip
    BY <1>3, <2>1
  <2>4. Sets(Bodies[k], ip, f) /\ Bodies[k].states[f] = wanted[ip][f]
    BY <1>3, <1>4, <2>2 DEF Sets
  <2>5. \A m \in DOMAIN Bodies : Sets(Bodies[m], ip, f) => m = k
    BY <1>3, <2>2 DEF Sets
  <2> QED
    BY <1>2, <1>3, <2>4, <2>5, SettlesAtNew DEF RequestsOK
<1>5. CASE pendingStates_[ip][f] = "" /\ Settles(requests, device, ip, f, wanted[ip][f])
  <2>1. \A n \in DOMAIN Bodies : ~Sets(Bodies[n], ip, f)
    BY <1>3, <1>5 DEF Sets
  <2> QED
    BY <1>2, <1>3, <1>5, <2>1, SettlesAfterOthers DEF RequestsOK
<1> QED
  BY <1>4, <1>5 DEF Kept

\* The server takes a request.
LEMMA KeptAnswer == ASSUME TypeOK, RequestsOK, Kept, Answer PROVE Kept'
<1> DEFINE r == Head(requests)
<1>1. /\ requests # <<>> /\ requests' = Tail(requests)
      /\ UNCHANGED <<pendingStates_, wanted>>
  BY Zenon DEF Answer, bridge, commanded
<1>2. \/ UNCHANGED device /\ r.type # "device"
      \/ /\ r.type = "device"
         /\ device' = [device EXCEPT ![r.ip] =
                          [f \in Fields |-> IF r.states[f] = "" THEN @[f]
                                            ELSE r.states[f]]]
  BY DEF Answer
<1>3. r \in Requests
  BY <1>1 DEF RequestsOK
<1>4. r.type = "device" => r.ip \in Ips /\ r.states \in Asked
  BY <1>3, RequestTypes
<1> HIDE DEF r
<1> SUFFICES ASSUME NEW ip \in Ips, NEW f \in Fields,
                    Settles(requests, device, ip, f, wanted[ip][f])
             PROVE  Settles(requests', device', ip, f, wanted[ip][f])
  BY <1>1 DEF Kept
<1>5. device'[ip][f] = IF Sets(r, ip, f) THEN r.states[f] ELSE device[ip][f]
  <2>1. CASE r.type # "device"
    BY <1>2, <2>1 DEF Sets
  <2>2. CASE r.type = "device" /\ r.ip # ip
    <3>1. device'[ip] = device[ip]
      BY <1>2, <1>4, <2>2 DEF TypeOK
    <3> QED
      BY <2>2, <3>1 DEF Sets
  <2>3. CASE r.type = "device" /\ r.ip = ip
    <3>1. device'[ip] = [g \in Fields |-> IF r.states[g] = "" THEN device[ip][g]
                                          ELSE r.states[g]]
      <4>1. ip \in DOMAIN device
        BY DEF TypeOK
      <4> QED
        BY <1>2, <2>3, <4>1, Zenon
    <3> QED
      BY <2>3, <3>1 DEF Sets
  <2> QED
    BY <2>1, <2>2, <2>3
<1> QED
  BY <1>1, <1>5, SettlesTaken DEF r, RequestsOK

\* A choice is kept or settled after every step.
LEMMA KeptStep == TypeOK /\ RequestsOK /\ Linked /\ Kept /\ [Next]_vars => Kept'
<1> SUFFICES ASSUME TypeOK, RequestsOK, Linked, Kept, [Next]_vars PROVE Kept'
  OBVIOUS
<1> USE DEF net, control, bridge, commanded, past, vars
<1>1. CASE loginClicked \/ signupClicked
  <2>1. CASE isConnected
    <3>1. PICK r \in {[type |-> "login"], [type |-> "signup"]} :
            Send(r) /\ UNCHANGED <<pendingStates_, wanted, device>>
      BY <1>1, <2>1 DEF loginClicked, signupClicked
    <3>2. r \in Requests /\ r.type # "device"
      BY RequestTypes
    <3> QED
      BY <3>1, <3>2, KeptOther
  <2>2. CASE ~isConnected
    BY <1>1, <2>2, KeptForgotten DEF loginClicked, signupClicked, connectToServer,
      Disconnected
  <2> QED
    BY <2>1, <2>2
<1>2. CASE logout \/ handleLoginFailed \/ handleSignupFailed \/ ConnectionDown
  BY <1>2, KeptForgotten DEF logout, handleLoginFailed, handleSignupFailed, disconnect,
    Disconnected, ConnectionDown
<1>3. CASE sendAssign \/ onConnected \/ onConnectedForSignup
  <2>1. PICK r \in {[type |-> "login"], [type |-> "signup"], [type |-> "assign"]} :
          (Send(r) \/ UNCHANGED requests) /\ UNCHANGED <<pendingStates_, wanted, device>>
    BY <1>3 DEF sendAssign, onConnected, onConnectedForSignup
  <2>2. r \in Requests /\ r.type # "device"
    BY RequestTypes
  <2> QED
    BY <2>1, <2>2, KeptOther
<1>4. ASSUME NEW ip \in Ips, NEW f \in Fields, NEW v \in Values(f), sendDevice(ip, f, v)
      PROVE  Kept'
  BY <1>4, KeptChoice
<1>5. CASE processPendingStates
  BY <1>5, KeptSent
<1>6. CASE Answer
  BY <1>6, KeptAnswer
<1>7. CASE \/ loginEmpty \/ signupEmpty \/ navigate("Login", "Signup")
           \/ navigate("Signup", "Back") \/ navigate("Login", "Home")
           \/ navigate("Signup", "Home") \/ handleLoginSuccess \/ pendingListReceived
           \/ ConnectionUp \/ UNCHANGED vars
  <2>1. UNCHANGED <<requests, device, pendingStates_, wanted>>
    BY <1>7 DEF loginEmpty, signupEmpty, navigate, handleLoginSuccess,
      pendingListReceived, ConnectionUp
  <2> QED
    BY <2>1 DEF Kept
<1> QED
  BY <1>1, <1>2, <1>3, <1>4, <1>5, <1>6, <1>7 DEF Next, User, HandleEvent

-------------------------------------------------------------------------------
(* The invariant and the theorems *)

\* The invariant holds at the start.
LEMMA SessionInit == Init => SessionInv
<1> SUFFICES ASSUME Init PROVE SessionInv
  OBVIOUS
<1>1. TypeOK /\ RequestsOK
  BY SessionTypeInit
<1>2. Linked
  BY DEF Init, Linked
<1>3. Exchange
  <2>1. ~LoggedIn
    BY Zenon DEF Init, LoggedIn
  <2> QED
    BY <2>1 DEF Init, Exchange, NoReply, NoAuth
<1>4. OneAtATime
  BY <1>3, Zenon DEF OneAtATime
<1>5. \A ip \in Ips : \A f \in Fields : pendingStates_[ip][f] = "" /\ wanted[ip][f] = ""
  BY DEF Init, Unset
<1>6. Chosen
  BY <1>5, Zenon DEF Chosen
<1> QED
  BY <1>1, <1>2, <1>4, <1>6 DEF SessionInv

\* Every step keeps it.
LEMMA SessionStep == SessionInv /\ [Next]_vars => SessionInv'
<1> SUFFICES ASSUME SessionInv, [Next]_vars PROVE SessionInv'
  OBVIOUS
<1>1. TypeOK /\ RequestsOK /\ Linked /\ OneAtATime /\ Timed /\ Kept
  BY ChosenSplit DEF SessionInv
<1>2. (TypeOK /\ RequestsOK)'
  BY <1>1, TypeSplit, NetTypesStep, ControlTypesStep, SettingTypesStep
<1>3. Linked'
  BY <1>1, LinkedStep
<1>4. OneAtATime'
  <2>1. ~spoiled' => Exchange'
    BY <1>1, ExchangeStep
  <2> QED
    BY <2>1, Zenon DEF OneAtATime
<1>5. Chosen'
  BY <1>1, TimedStep, KeptStep, ChosenSplit
<1> QED
  BY <1>2, <1>3, <1>4, <1>5 DEF SessionInv

\* So it holds in every reachable state.
LEMMA SessionInvariant == Spec => []SessionInv
BY SessionInit, SessionStep, PTL DEF Spec

\* Every click, command, event, timer and answer leaves the connection, the
\* controllers and the settings in their types: the queue holds only signals that
\* a handler is connected to, and a movement is never kept for the timer.
THEOREM SessionTypeCorrect == Spec => []TypeOK
<1>1. SessionInv => TypeOK
  BY DEF SessionInv
<1> QED
  BY <1>1, SessionInvariant, PTL

\* Whoever has logged in is connected, whatever pages of the side panel, sign-ups
\* and earlier sessions came before, unless a connection was lost, something was
\* asked for during another exchange, or a login or sign-up was made on top of it.
THEOREM LoginNeedsConnection == Spec => []LoggedInIsConnected
<1>1. SessionInv => LoggedInIsConnected
  <2> SUFFICES ASSUME SessionInv, state_, ~spoiled, ~again PROVE link = "up"
    BY Zenon DEF LoggedInIsConnected
  <2>1. Exchange /\ LoggedIn
    BY Zenon DEF SessionInv, OneAtATime, LoggedIn
  <2> QED
    BY <2>1 DEF Exchange
<1> QED
  BY <1>1, SessionInvariant, PTL

\* Once the timer has run and the server has taken what was sent, every device has
\* the setting chosen last over this connection, whatever lost connections, second
\* logins and settings of earlier sessions came before.
THEOREM LastChoice == Spec => []LastChoiceWins
<1>1. SessionInv => LastChoiceWins
  <2> SUFFICES ASSUME SessionInv, link = "up", ~debounceTimer_, ~InFlight,
                      NEW ip \in Ips, NEW f \in Fields, wanted[ip][f] \notin {"", "move"}
               PROVE  device[ip][f] = wanted[ip][f]
    BY DEF LastChoiceWins
  <2>1. pendingStates_[ip][f] = ""
    BY Zenon DEF SessionInv, Chosen
  <2>2. Settles(requests, device, ip, f, wanted[ip][f])
    BY <2>1 DEF SessionInv, Chosen
  <2> QED
    BY <2>2 DEF Settles, Sets, InFlight
<1> QED
  BY <1>1, SessionInvariant, PTL

===============================================================================
