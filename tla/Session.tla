------------------------------- MODULE Session --------------------------------
(***************************************************************************)
(* NetworkBridge with LoginController, SignupController and AppController: *)
(* how a user signs up, logs in, controls devices and logs out.  All of it *)
(* runs on the GUI thread; callbacks of the io thread come as events of    *)
(* its queue, and nothing in them says which connection they belong to.    *)
(*                                                                         *)
(* NetworkService is a connection that comes up, fails or is lost (its own *)
(* module has the details, such as a disconnect that does not return); the *)
(* server answers requests in order, or not at all.  What a user types is  *)
(* left out but for whether a field is empty.                              *)
(***************************************************************************)
EXTENDS Integers, SequencesExt

CONSTANTS Ips,              \* devices
          Fields,           \* what a command sets: "motor", "ir", "heater"
          SendsContext,     \* a FAIL says which request it answers ("context")
          MaxClicks,        \* bound: clicks on Login, Sign Up and Logout
          MaxCommands       \* bound: device and administration commands

ASSUME SessionAssumption ==
  /\ IsFiniteSet(Ips) /\ Fields \subseteq {"motor", "ir", "heater"}
  /\ SendsContext \in BOOLEAN /\ MaxClicks \in Nat /\ MaxCommands \in Nat

VARIABLES link,             \* NetworkService: "none", "connecting", "up", "down"
          purpose,          \* what the callbacks of the connection were made for
          requests,         \* sent over it and not yet answered
          events,           \* the GUI thread's event queue
          login, signup,    \* the two controllers
          state_,           \* LoginController: a role is set
          currentPage_,     \* AppController
          pendingStates_, debounceTimer_,
          clicks, commands,
          spoiled,          \* history: a connection failed or was lost, or a login,
                            \* sign-up or logout was asked for during another exchange
          again,            \* history: a login or sign-up was asked for while logged in
          wanted, device    \* history: what was chosen last in this connection, and
                            \* what the server got last

net == <<link, purpose, requests>>
bridge == <<pendingStates_, debounceTimer_>>
control == <<login, signup, state_, currentPage_>>
commanded == <<commands, wanted>>
past == <<spoiled, again>>
vars == <<net, events, control, bridge, clicks, past, commanded, device>>

\* motor has two modes, set with a delay, and movements, sent at once.
Values(f) == IF f = "motor" THEN {"auto", "unauto", "move"} ELSE {"on", "off"}

Unset == [f \in Fields |-> ""]

Controller == [isLoading_ |-> FALSE, isError_ |-> FALSE, pending |-> FALSE]

Init ==
  /\ link = "none" /\ purpose = "login" /\ requests = <<>> /\ events = <<>>
  /\ login = Controller /\ signup = Controller /\ state_ = FALSE
  /\ currentPage_ = "Login"
  /\ pendingStates_ = [ip \in Ips |-> Unset] /\ debounceTimer_ = FALSE
  /\ clicks = 0 /\ commands = 0 /\ spoiled = FALSE /\ again = FALSE
  /\ wanted = [ip \in Ips |-> Unset] /\ device = [ip \in Ips |-> Unset]

\* "Back" shows the login page.
Shown == IF currentPage_ = "Back" THEN "Login" ELSE currentPage_

\* The requests to log in or to sign up, and the events that answer an attempt to
\* connect, to log in or to sign up.
IsAuth(r) == r.type \in {"login", "signup"}

Reply(e) == e # "pendingList"

NoAuth == \A n \in DOMAIN requests : ~IsAuth(requests[n])

NoReply == \A n \in DOMAIN events : ~Reply(events[n])

\* A login or a sign-up is under way.
Busy == link = "connecting" \/ ~NoAuth \/ ~NoReply

-------------------------------------------------------------------------------
(* NetworkService, as the bridge uses it *)

isConnected == link = "up"

\* Dropped without a connection.
Send(r) == requests' = IF isConnected THEN Append(requests, r) ELSE requests

ConnectedEvent == IF purpose = "login" THEN "connectedForLogin" ELSE "connectedForSignup"

\* disconnect closes what there is.  An attempt under way may still come up before
\* the cleanup runs, and its callback is then queued.
Disconnected(rest, newLink, newPurpose) ==
  /\ link' = newLink /\ purpose' = newPurpose /\ requests' = <<>>
  /\ wanted' = [ip \in Ips |-> Unset]
  /\ \/ events' = rest
     \/ link = "connecting" /\ events' = Append(rest, ConnectedEvent)

disconnect(rest) == Disconnected(rest, "none", purpose)

\* NetworkService::connect begins with a disconnect.
connectToServer(p) == Disconnected(events, "connecting", p)

ConnectionUp ==
  /\ link = "connecting"
  /\ link' = "up"
  /\ events' = Append(events, ConnectedEvent)
  /\ UNCHANGED <<purpose, requests, control, bridge, clicks, past, commanded, device>>

\* Neither a failed attempt nor a lost connection is reported to the bridge.
ConnectionDown ==
  /\ link \in {"connecting", "up"}
  /\ link' = "down" /\ requests' = <<>>
  /\ spoiled' = TRUE /\ UNCHANGED again
  /\ wanted' = [ip \in Ips |-> Unset]
  /\ UNCHANGED <<purpose, events, control, bridge, clicks, commands, device>>

MutOnLoginFail(r) ==
  IF purpose = "login" THEN "loginFailed" ELSE "signupFailed"

\* NetworkBridge's onLoginFail: the context, or else what the connection is for.
onLoginFail(r) ==
  LET asked == IF SendsContext THEN r.type ELSE purpose
  IN  IF asked = "login" THEN "loginFailed" ELSE "signupFailed"

\* The server takes the next request.  A registration it accepts is answered by a
\* message for which the bridge has no signal but pendingListReceived.
Answer ==
  /\ link = "up" /\ requests # <<>>
  /\ requests' = Tail(requests)
  /\ LET r == Head(requests) IN
       \/ r.type = "login" /\ events' = Append(events, "loginSuccess") /\ UNCHANGED device
       \/ /\ r.type \in {"login", "signup"}
          /\ events' = Append(events, onLoginFail(r)) /\ UNCHANGED device
       \/ r.type \in {"signup", "assign"} /\ events' = Append(events, "pendingList")
          /\ UNCHANGED device
       \/ /\ r.type = "device"
          /\ device' = [device EXCEPT ![r.ip] =
                          [f \in Fields |-> IF r.states[f] = "" THEN @[f]
                                            ELSE r.states[f]]]
          /\ UNCHANGED events
  /\ UNCHANGED <<link, purpose, control, bridge, clicks, past, commanded>>

-------------------------------------------------------------------------------
(* The controllers *)

\* setLoading, setError and clearError with what a handler sets.
Set(loading, error, pending) ==
  [isLoading_ |-> loading, isError_ |-> error, pending |-> pending]

Clicked(pages) ==
  /\ Shown \in pages /\ clicks < MaxClicks
  /\ clicks' = clicks + 1

\* An empty field: only the error changes.
loginEmpty ==
  /\ Clicked({"Login"})
  /\ login' = [login EXCEPT !.isError_ = TRUE]
  /\ UNCHANGED <<net, events, signup, state_, currentPage_, bridge, past,
                 commanded, device>>

\* login(): over the connection there is, or after making one.  The button stays
\* enabled while an earlier login is under way.
loginClicked ==
  /\ Clicked({"Login"})
  /\ spoiled' = (spoiled \/ Busy) /\ again' = (again \/ state_)
  /\ IF isConnected
     THEN /\ Send([type |-> "login"])
          /\ login' = Set(TRUE, FALSE, FALSE)
          /\ UNCHANGED <<link, purpose, events, wanted>>
     ELSE /\ connectToServer("login")
          /\ login' = Set(TRUE, FALSE, TRUE)
  /\ UNCHANGED <<signup, state_, currentPage_, bridge, commands, device>>

signupEmpty ==
  /\ Clicked({"Signup"})
  /\ signup' = [signup EXCEPT !.isError_ = TRUE]
  /\ UNCHANGED <<net, events, login, state_, currentPage_, bridge, past,
                 commanded, device>>

signupClicked ==
  /\ Clicked({"Signup"})
  /\ spoiled' = (spoiled \/ Busy) /\ again' = (again \/ state_)
  /\ IF isConnected
     THEN /\ Send([type |-> "signup"])
          /\ signup' = Set(TRUE, FALSE, FALSE)
          /\ UNCHANGED <<link, purpose, events, wanted>>
     ELSE /\ connectToServer("signup")
          /\ signup' = Set(TRUE, FALSE, TRUE)
  /\ UNCHANGED <<login, state_, currentPage_, bridge, commands, device>>

\* Pages and the side panel, which opens over any page, ask AppController to
\* navigate; "Home" stands for every page the panel leads to.
navigate(from, to) ==
  /\ Shown = from /\ currentPage_ # to
  /\ currentPage_' = to
  /\ UNCHANGED <<net, events, login, signup, state_, bridge, clicks, past,
                 commanded, device>>

Handling(e) == events # <<>> /\ Head(events) = e

\* LoginController::onConnected: the credentials are forgotten once given to send.
onConnected ==
  /\ Handling("connectedForLogin")
  /\ events' = Tail(events)
  /\ IF login.pending
     THEN /\ Send([type |-> "login"])
          /\ login' = [login EXCEPT !.pending = FALSE]
     ELSE UNCHANGED <<requests, login>>
  /\ UNCHANGED <<link, purpose, signup, state_, currentPage_, bridge, clicks, past,
                 commanded, device>>

\* SignupController::onConnected.
onConnectedForSignup ==
  /\ Handling("connectedForSignup")
  /\ events' = Tail(events)
  /\ IF signup.pending
     THEN Send([type |-> "signup"]) /\ signup' = [signup EXCEPT !.pending = FALSE]
     ELSE UNCHANGED <<requests, signup>>
  /\ UNCHANGED <<link, purpose, login, state_, currentPage_, bridge, clicks, past,
                 commanded, device>>

MutHandleLoginSuccess ==
  /\ Handling("loginSuccess")
  /\ disconnect(Tail(events))
  /\ login' = [login EXCEPT !.isLoading_ = FALSE]
  /\ state_' = TRUE
  /\ currentPage_' = IF Shown = "Login" THEN "Home" ELSE currentPage_
  /\ UNCHANGED <<signup, bridge, clicks, past, commands, device>>

\* Only the login page follows the signal to the dashboard.
handleLoginSuccess ==
  /\ Handling("loginSuccess")
  /\ events' = Tail(events)
  /\ login' = [login EXCEPT !.isLoading_ = FALSE]
  /\ state_' = TRUE
  /\ currentPage_' = IF Shown = "Login" THEN "Home" ELSE currentPage_
  /\ UNCHANGED <<net, signup, bridge, clicks, past, commanded, device>>

handleLoginFailed ==
  /\ Handling("loginFailed")
  /\ disconnect(Tail(events))
  /\ login' = Set(FALSE, TRUE, login.pending)
  /\ UNCHANGED <<signup, state_, currentPage_, bridge, clicks, past, commands,
                 device>>

handleSignupFailed ==
  /\ Handling("signupFailed")
  /\ disconnect(Tail(events))
  /\ signup' = Set(FALSE, TRUE, signup.pending)
  /\ UNCHANGED <<login, state_, currentPage_, bridge, clicks, past, commands,
                 device>>

\* Goes to UserModel (see DataPath).
pendingListReceived ==
  /\ Handling("pendingList")
  /\ events' = Tail(events)
  /\ UNCHANGED <<net, control, bridge, clicks, past, commanded, device>>

\* AppController::logout, LoginController::logout and what Core wires to it; the
\* models are DataPath's.  The side panel offers it on every page.  pendingStates_,
\* the timer, the sign-up and what is queued are left alone.
logout ==
  /\ Clicked({"Login", "Signup", "Home"})
  /\ spoiled' = (spoiled \/ Busy) /\ again' = FALSE
  /\ disconnect(events)
  /\ login' = Controller /\ state_' = FALSE
  /\ currentPage_' = "Login"
  /\ UNCHANGED <<signup, bridge, commands, device>>

-------------------------------------------------------------------------------
(* Commands of the pages behind the login *)

\* The pages offer a device for which the server has sent a camera, which it does
\* after a login, and the administration to an administrator.
Command ==
  /\ Shown = "Home" /\ state_ /\ commands < MaxCommands
  /\ commands' = commands + 1

\* sendListPending and sendApprove.
sendAssign ==
  /\ Command
  /\ Send([type |-> "assign"])
  /\ UNCHANGED <<link, purpose, events, control, bridge, clicks, past, wanted,
                 device>>

\* A movement or an "on"/"off" is an action.
IsAction(v) == v \notin {"auto", "unauto"}

MutPendingMove(old, f, v) == [old EXCEPT ![f] = v]

MutPendingAfter(old, f, v) ==
  IF v = "move" \/ old[f] # "" THEN old ELSE [old EXCEPT ![f] = v]

\* Everything but a movement is (also) kept for the timer.
PendingAfter(old, f, v) == IF v = "move" THEN old ELSE [old EXCEPT ![f] = v]

\* sendDevice as the pages call it, with one field: actions go out at once, and the
\* timer is started again by whatever it is to send.
sendDevice(ip, f, v) ==
  /\ Command
  /\ IF IsAction(v)
     THEN Send([type |-> "device", ip |-> ip, states |-> [Unset EXCEPT ![f] = v]])
     ELSE UNCHANGED requests
  /\ pendingStates_' = [pendingStates_ EXCEPT ![ip] = PendingAfter(@, f, v)]
  /\ debounceTimer_' = (debounceTimer_ \/ v # "move")
  /\ wanted' = IF isConnected THEN [wanted EXCEPT ![ip][f] = v] ELSE wanted
  /\ UNCHANGED <<link, purpose, events, control, clicks, past, device>>

\* The timer fires: one message for every device with something pending.
processPendingStates ==
  /\ debounceTimer_
  /\ debounceTimer_' = FALSE
  /\ LET ips == SetToSeq({ip \in Ips : pendingStates_[ip] # Unset})
         bodies == [i \in DOMAIN ips |->
                      [type |-> "device", ip |-> ips[i], states |-> pendingStates_[ips[i]]]]
     IN  requests' = IF isConnected THEN requests \o bodies ELSE requests
  /\ pendingStates_' = [ip \in Ips |-> Unset]
  /\ UNCHANGED <<link, purpose, events, control, clicks, past, commanded, device>>

-------------------------------------------------------------------------------

User ==
  \/ loginEmpty \/ loginClicked \/ signupEmpty \/ signupClicked \/ logout
  \/ navigate("Login", "Signup") \/ navigate("Signup", "Back")
  \/ navigate("Login", "Home") \/ navigate("Signup", "Home")
  \/ sendAssign
  \/ \E ip \in Ips : \E f \in Fields : \E v \in Values(f) : sendDevice(ip, f, v)

HandleEvent ==
  \/ onConnected \/ onConnectedForSignup
  \/ handleLoginSuccess \/ handleLoginFailed \/ handleSignupFailed \/ pendingListReceived

Next ==
  \/ User \/ HandleEvent \/ processPendingStates
  \/ ConnectionUp \/ ConnectionDown \/ Answer

Spec == Init /\ [][Next]_vars

\* The event loop handles what is queued and the timer runs; an attempt to connect
\* ends, and the server answers over a connection that stays up.
FairSpec ==
  /\ Spec
  /\ WF_vars(HandleEvent) /\ WF_vars(processPendingStates)
  /\ WF_vars(ConnectionUp \/ (link = "connecting" /\ ConnectionDown)) /\ WF_vars(Answer)

-------------------------------------------------------------------------------
(* Properties *)

Controllers == [isLoading_ : BOOLEAN, isError_ : BOOLEAN, pending : BOOLEAN]

\* What the pages ask a device for, and what is kept for the timer: no movements.
Asked == {s \in [Fields -> {"", "auto", "unauto", "move", "on", "off"}] :
            \A f \in Fields : s[f] \in Values(f) \union {""}}

States == {s \in Asked : \A f \in Fields : s[f] # "move"}

TypeOK ==
  /\ link \in {"none", "connecting", "up", "down"} /\ purpose \in {"login", "signup"}
  /\ events \in Seq({"connectedForLogin", "connectedForSignup", "loginSuccess",
                     "loginFailed", "signupFailed", "pendingList"})
  /\ login \in Controllers /\ signup \in Controllers /\ state_ \in BOOLEAN
  /\ currentPage_ \in {"Login", "Signup", "Back", "Home"}
  /\ pendingStates_ \in [Ips -> States] /\ debounceTimer_ \in BOOLEAN
  /\ wanted \in [Ips -> Asked] /\ device \in [Ips -> Asked]
  /\ clicks \in 0..MaxClicks /\ commands \in 0..MaxCommands
  /\ spoiled \in BOOLEAN /\ again \in BOOLEAN

\* Whoever has a role is connected, by whatever pages, sign-ups, earlier sessions
\* and commands the login was reached.  Excepted are a connection that was lost, of
\* which nobody is told; a login, sign-up or logout asked for during another
\* exchange, whose late answer logs in without a connection or closes the one
\* there is; and a second login or a sign-up made while logged in, which
\* disconnects when it fails.
LoggedInIsConnected == state_ /\ ~spoiled /\ ~again => link = "up"

InFlight == \E i \in DOMAIN requests : requests[i].type = "device"

\* When the timer has run and the server has taken what was sent, every device has
\* the setting that was chosen last over this connection, in whatever order the
\* immediate and the delayed messages went out, and with settings of an earlier
\* session still in pendingStates_.  A movement is not a setting; what becomes of
\* one is MovementEndsAuto.
LastChoiceWins ==
  link = "up" /\ ~debounceTimer_ /\ ~InFlight =>
    \A ip \in Ips : \A f \in Fields :
      wanted[ip][f] \notin {"", "move"} => device[ip][f] = wanted[ip][f]

\* NetworkBridge.cpp:209, "If motor was a movement action, follow up with "unauto"":
\* after a movement the device is not put into a mode that was chosen before it.
MovementEndsAuto ==
  link = "up" /\ ~debounceTimer_ /\ ~InFlight =>
    \A ip \in Ips : \A f \in Fields :
      wanted[ip][f] = "move" => device[ip][f] # "auto"

\* A login made while nothing else is under way is answered, also over the connection
\* of an earlier sign-up, unless a connection fails or is lost, of which the
\* controller is never told.
LoginAnswered == login.isLoading_ ~> ~login.isLoading_ \/ spoiled

===============================================================================
