---------------------------- MODULE MobileClient ----------------------------
(***************************************************************************)
(* The connection of the mobile app (RaikoWsClient): one connect()         *)
(* coroutine at a time, a reconnect timer, and the user, interleaved at    *)
(* the coroutine's awaits with the callbacks of sockets old and new.       *)
(*                                                                         *)
(* The dashboard has just called start().  Time is abstracted: a timer     *)
(* that is armed fires at any later moment, so the back-off delay and the  *)
(* attempt counter behind it do not appear.  Disposing the client is a     *)
(* disconnect nothing follows.                                             *)
(***************************************************************************)
EXTENDS Integers

CONSTANTS Conn,       \* socket objects; a closed one may be used again
          NoConn,     \* _socket = null
          MaxOutages  \* bound: how often the backend becomes unreachable

ASSUME ConnAssumption == NoConn \notin Conn /\ MaxOutages \in Nat

VARIABLES
  up,         \* can the backend be reached and serve
  outages,    \* outages so far
  conn,       \* each socket: free, open, or closing
  socket,     \* _socket
  step,       \* the coroutine's await; idle means isConnecting = false
  connected,  \* isConnected
  timer,      \* is _reconnectTimer armed
  auto        \* _autoReconnect

vars == <<up, outages, conn, socket, step, connected, timer, auto>>

TypeOK ==
  /\ up \in BOOLEAN
  /\ outages \in 0..MaxOutages
  /\ conn \in [Conn -> {"free", "open", "closing"}]
  /\ socket \in Conn \cup {NoConn}
  /\ step \in {"idle", "closing", "dialing", "registering", "abandoning"}
  /\ connected \in BOOLEAN
  /\ timer \in BOOLEAN
  /\ auto \in BOOLEAN

Init ==
  /\ up \in BOOLEAN
  /\ outages = 0
  /\ conn = [c \in Conn |-> "free"]
  /\ socket = NoConn
  /\ step = "dialing"
  /\ connected = FALSE
  /\ timer = FALSE
  /\ auto = TRUE

-----------------------------------------------------------------------------
(* _socket = null with close() called on what it was. *)
DropSocket ==
  /\ socket' = NoConn
  /\ connected' = FALSE
  /\ conn' = [c \in Conn |-> IF c = socket /\ conn[c] = "open" THEN "closing" ELSE conn[c]]

(* connect(force: true): a no-op while another attempt is under way. *)
BeginConnect ==
  IF step = "idle"
  THEN /\ step' = IF socket = NoConn THEN "dialing" ELSE "closing"
       /\ DropSocket
  ELSE UNCHANGED <<step, socket, connected, conn>>

(* start() and reconnect() *)
Reconnect ==
  /\ auto' = TRUE
  /\ BeginConnect
  /\ UNCHANGED <<up, outages, timer>>

TimerFires ==
  /\ timer
  /\ timer' = FALSE
  /\ IF auto THEN BeginConnect ELSE UNCHANGED <<step, socket, connected, conn>>
  /\ UNCHANGED <<up, outages, auto>>

(* The old socket's close() returns, perhaps before its onDone. *)
OldSocketClosed ==
  /\ step = "closing"
  /\ step' = "dialing"
  /\ UNCHANGED <<up, outages, conn, socket, connected, timer, auto>>

(* WebSocket.connect returns: the socket is taken whatever happened since. *)
DialSucceeds ==
  /\ step = "dialing"
  /\ up
  /\ \E c \in Conn : /\ conn[c] = "free"
                     /\ conn' = [conn EXCEPT ![c] = "open"]
                     /\ socket' = c
  /\ connected' = FALSE
  /\ step' = "registering"
  /\ UNCHANGED <<up, outages, timer, auto>>

(* The catch branch: nothing schedules another attempt. *)
DialFails ==
  /\ step = "dialing"
  /\ ~up
  /\ connected' = FALSE
  /\ step' = "idle"
  /\ UNCHANGED <<up, outages, conn, socket, timer, auto>>

(* Any ack completes the pending registration, one of a closing socket too. *)
Registered ==
  /\ step = "registering"
  /\ (up /\ conn[socket] = "open") \/ \E c \in Conn : conn[c] = "closing"
  /\ connected' = TRUE
  /\ step' = "idle"
  /\ UNCHANGED <<up, outages, conn, socket, timer, auto>>

(* Mutant: the socket of a failed attempt is forgotten without being closed. *)
RegistrationLeaks ==
  /\ step = "registering"
  /\ ~up
  /\ socket' = NoConn
  /\ connected' = FALSE
  /\ step' = "abandoning"
  /\ UNCHANGED <<up, outages, conn, timer, auto>>

(* An error answer, or five seconds without any: the catch branch again. *)
RegistrationFails ==
  /\ step = "registering"
  /\ ~up
  /\ DropSocket
  /\ step' = "abandoning"
  /\ UNCHANGED <<up, outages, timer, auto>>

(* Mutant: isConnecting is reset on success only. *)
AbandonedForGood ==
  /\ step = "abandoning"
  /\ step' = "failed"
  /\ UNCHANGED <<up, outages, conn, socket, connected, timer, auto>>

Abandoned ==
  /\ step = "abandoning"
  /\ step' = "idle"
  /\ UNCHANGED <<up, outages, conn, socket, connected, timer, auto>>

-----------------------------------------------------------------------------
(* Mutant: the callback does not ask whether its socket is still in use. *)
DoneUnguarded(c) ==
  /\ conn[c] = "closing" \/ (conn[c] = "open" /\ ~up)
  /\ conn' = [conn EXCEPT ![c] = "free"]
  /\ socket' = NoConn
  /\ connected' = FALSE
  /\ timer' = (timer \/ auto)
  /\ step' = IF step = "registering" THEN "idle" ELSE step
  /\ UNCHANGED <<up, outages, auto>>

(* Mutant: a lost connection is noticed, but no retry is scheduled. *)
DoneWithoutRetry(c) ==
  /\ conn[c] = "closing" \/ (conn[c] = "open" /\ ~up)
  /\ conn' = [conn EXCEPT ![c] = "free"]
  /\ IF c = socket
     THEN /\ socket' = NoConn
          /\ connected' = FALSE
          /\ step' = IF step = "registering" THEN "idle" ELSE step
     ELSE UNCHANGED <<socket, connected, step>>
  /\ UNCHANGED <<up, outages, timer, auto>>

(* onDone or onError: only the current socket's counts.  A registration it  *)
(* interrupts fails, which ends the coroutine with no socket left to close. *)
Done(c) ==
  /\ conn[c] = "closing" \/ (conn[c] = "open" /\ ~up)
  /\ conn' = [conn EXCEPT ![c] = "free"]
  /\ IF c = socket
     THEN /\ socket' = NoConn
          /\ connected' = FALSE
          /\ timer' = (timer \/ auto)
          /\ step' = IF step = "registering" THEN "idle" ELSE step
     ELSE UNCHANGED <<socket, connected, timer, step>>
  /\ UNCHANGED <<up, outages, auto>>

(* disconnect(): a pending registration fails, a dial in flight goes on. *)
Disconnect ==
  /\ auto' = FALSE
  /\ timer' = FALSE
  /\ DropSocket
  /\ step' = IF step = "registering" THEN "idle" ELSE step
  /\ UNCHANGED <<up, outages>>

-----------------------------------------------------------------------------
Outage ==
  /\ up
  /\ outages < MaxOutages
  /\ up' = FALSE
  /\ outages' = outages + 1
  /\ UNCHANGED <<conn, socket, step, connected, timer, auto>>

Recover ==
  /\ ~up
  /\ up' = TRUE
  /\ UNCHANGED <<outages, conn, socket, step, connected, timer, auto>>

Attempt ==
  \/ OldSocketClosed \/ DialSucceeds \/ DialFails
  \/ Registered \/ RegistrationFails \/ Abandoned

Next ==
  \/ Reconnect \/ Disconnect
  \/ TimerFires
  \/ Attempt
  \/ \E c \in Conn : Done(c)
  \/ Outage \/ Recover

Spec == Init /\ [][Next]_vars

(* Dialling, registering and closing end (the last two by a 5 s timeout),   *)
(* timers fire, outages end.  The user is not obliged to do anything.       *)
Fairness ==
  /\ WF_vars(Attempt)
  /\ WF_vars(TimerFires)
  /\ WF_vars(Recover)
  /\ \A c \in Conn : WF_vars(conn[c] = "closing" /\ Done(c))

FairSpec == Spec /\ Fairness

-----------------------------------------------------------------------------
(* The client never leaks a connection: the socket it would send through is *)
(* the only one it has not closed, whatever user, timer and callbacks did;  *)
(* and "connected" is shown only while there is one and no attempt runs.    *)
NoLeakedConnection ==
  /\ \A c \in Conn : conn[c] = "open" => c = socket
  /\ connected => socket # NoConn /\ conn[socket] = "open" /\ step = "idle"

(* The late onDone of a replaced socket does not take the new one with it:  *)
(* a socket is forgotten only when it is closed or being closed.            *)
ForgetsOnlyClosed ==
  [][\A c \in Conn : socket = c /\ socket' # c => conn'[c] # "open"]_vars

(* A connection that was up and goes away leaves a retry armed, unless the  *)
(* user disconnected or a new attempt is already under way.                 *)
LossArmsRetry ==
  [][connected /\ ~connected' => timer' \/ ~auto' \/ step' # "idle"]_vars

(* No attempt lasts for ever, so isConnecting never blocks the next one.    *)
AttemptEnds == step # "idle" ~> step = "idle"

(* What the README calls auto-reconnect: once a connection was lost and the *)
(* retry is armed, the client ends up connected again when the backend is   *)
(* back for good, unless the user no longer wants to be.                    *)
ReconnectsEventually == timer ~> connected \/ ~auto

=============================================================================
