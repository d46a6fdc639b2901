------------------------- MODULE MobileClientProofs -------------------------
(* Machine-checked proofs about MobileClient, for any number of sockets and  *)
(* outages.                                                                  *)
EXTENDS MobileClient, TLAPS

(* Whoever dials has let go of the old socket first, and the socket that is *)
(* in use is open: this makes the promises about connections inductive.     *)
ConnInv ==
  /\ TypeOK
  /\ step \in {"closing", "dialing", "abandoning"} => socket = NoConn
  /\ step = "registering" => socket # NoConn
  /\ socket # NoConn => conn[socket] = "open"
  /\ NoLeakedConnection

(* A dial that succeeds while the coroutine waits for it takes the only     *)
(* open socket there is.                                                    *)
LEMMA DialStep == ConnInv /\ DialSucceeds => ConnInv'
<1> SUFFICES ASSUME ConnInv, DialSucceeds PROVE ConnInv'
  OBVIOUS
<1>1. TypeOK'
  BY DEF ConnInv, TypeOK, DialSucceeds
<1>2. NoLeakedConnection'
  BY ConnAssumption DEF ConnInv, TypeOK, DialSucceeds, NoLeakedConnection
<1>3. socket' # NoConn /\ conn'[socket'] = "open"
  BY ConnAssumption DEF ConnInv, TypeOK, DialSucceeds
<1> QED
  BY <1>1, <1>2, <1>3 DEF ConnInv, DialSucceeds

LEMMA ConnInvariant == Spec => []ConnInv
<1> USE ConnAssumption DEF ConnInv, TypeOK, NoLeakedConnection
<1>1. Init => ConnInv
  <2>1. 0 \in 0..MaxOutages
    OBVIOUS
  <2> QED
    BY <2>1 DEF Init
<1>2. ConnInv /\ [Next]_vars => ConnInv'
  <2> SUFFICES ASSUME ConnInv, [Next]_vars PROVE ConnInv'
    OBVIOUS
  <2>1. CASE Reconnect
    BY <2>1 DEF Reconnect, BeginConnect, DropSocket
  <2>2. CASE Disconnect
    BY <2>2 DEF Disconnect, DropSocket
  <2>3. CASE TimerFires
    BY <2>3 DEF TimerFires, BeginConnect, DropSocket
  <2>4. CASE OldSocketClosed
    BY <2>4 DEF OldSocketClosed
  <2>5. CASE DialFails
    BY <2>5 DEF DialFails
  <2>6. CASE Abandoned
    BY <2>6 DEF Abandoned
  <2>7. CASE DialSucceeds
    <3> HIDE DEF ConnInv
    <3> QED
      BY <2>7, DialStep
  <2>8. CASE Registered
    BY <2>8 DEF Registered
  <2>9. CASE RegistrationFails
    BY <2>9 DEF RegistrationFails, DropSocket
  <2>10. ASSUME NEW c \in Conn, Done(c) PROVE ConnInv'
    BY <2>10 DEF Done
  <2>11. CASE Outage
    <3>1. outages' \in 0..MaxOutages
      BY <2>11 DEF Outage
    <3> QED
      BY <2>11, <3>1 DEF Outage
  <2>12. CASE Recover
    BY <2>12 DEF Recover
  <2>13. CASE UNCHANGED vars
    BY <2>13 DEF vars
  <2> QED
    BY <2>1, <2>2, <2>3, <2>4, <2>5, <2>6, <2>7, <2>8, <2>9, <2>10, <2>11, <2>12, <2>13
       DEF Next, Attempt
<1> QED
  BY <1>1, <1>2, PTL DEF Spec

(* The client's own state and its sockets keep their types. *)
THEOREM TypeCorrect == Spec => []TypeOK
<1>1. ConnInv => TypeOK
  BY DEF ConnInv
<1> QED
  BY <1>1, ConnInvariant, PTL

(* Whatever the interleaving of user, timer, coroutine and callbacks, every  *)
(* socket the client left open is the one it uses, and "connected" is true.  *)
THEOREM NoLeak == Spec => []NoLeakedConnection
<1>1. ConnInv => NoLeakedConnection
  BY DEF ConnInv
<1> QED
  BY <1>1, ConnInvariant, PTL

(* A callback of a replaced socket never takes the socket in use away.       *)
THEOREM LateCallbacksHarmless == Spec => ForgetsOnlyClosed
<1>1. ConnInv /\ [Next]_vars =>
        [\A c \in Conn : socket = c /\ socket' # c => conn'[c] # "open"]_vars
  <2> SUFFICES ASSUME ConnInv, Next, NEW c \in Conn, socket = c, socket' # c
               PROVE  conn'[c] # "open"
    OBVIOUS
  <2> USE ConnAssumption DEF ConnInv, TypeOK
  <2>1. CASE Reconnect \/ TimerFires \/ Disconnect \/ RegistrationFails
    BY <2>1 DEF Reconnect, TimerFires, Disconnect, RegistrationFails, BeginConnect, DropSocket
  <2>2. CASE DialSucceeds
    BY <2>2 DEF DialSucceeds
  <2>3. ASSUME NEW d \in Conn, Done(d) PROVE conn'[c] # "open"
    BY <2>3 DEF Done
  <2> QED
    BY <2>1, <2>2, <2>3 DEF Next, Attempt, OldSocketClosed, DialFails, Abandoned, Registered,
       Outage, Recover
<1> QED
  BY <1>1, ConnInvariant, PTL DEF Spec, ForgetsOnlyClosed

(* A connection that was up and is lost leaves a retry behind. *)
THEOREM LossIsFollowed == Spec => LossArmsRetry
<1>1. ConnInv /\ [Next]_vars =>
        [connected /\ ~connected' => timer' \/ ~auto' \/ step' # "idle"]_vars
  <2> SUFFICES ASSUME ConnInv, Next, connected, ~connected'
               PROVE  timer' \/ ~auto' \/ step' # "idle"
    OBVIOUS
  <2> USE ConnAssumption DEF ConnInv, TypeOK, NoLeakedConnection
  <2>1. CASE Reconnect \/ TimerFires \/ Disconnect
    BY <2>1 DEF Reconnect, TimerFires, Disconnect, BeginConnect, DropSocket
  <2>2. ASSUME NEW d \in Conn, Done(d) PROVE timer' \/ ~auto' \/ step' # "idle"
    BY <2>2 DEF Done
  <2> QED
    BY <2>1, <2>2 DEF Next, Attempt, OldSocketClosed, DialFails, DialSucceeds, Abandoned,
       Registered, RegistrationFails, Outage, Recover
<1> QED
  BY <1>1, ConnInvariant, PTL DEF Spec, LossArmsRetry

=============================================================================
