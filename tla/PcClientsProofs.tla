-------------------------- MODULE PcClientsProofs --------------------------
(* Machine-checked proofs about PcClients, for any number of agents, desktop *)
(* apps, sockets and outages, and whoever shares an id.                      *)
EXTENDS PcClients, TLAPS

(* A socket belongs to a program of its kind until that has noticed its end, *)
(* and the registry has no socket that is free, dialing or of another id,    *)
(* and none under two ids.                                                   *)
PcInv ==
  /\ TypeOK
  /\ \A c \in Socket : user[c] = None <=> conn[c] \in {"free", "left"}
  /\ \A c \in AgentSocket : user[c] \in Agent \cup {None}
  /\ \A c \in AppSocket : user[c] \in App \cup {None}
  /\ \A p \in App : socket[p] # None => socket[p] \in AppSocket /\ Holds(p, socket[p])
  /\ \A p \in App : socket[p] # None => conn[socket[p]] # "dialing"
  /\ \A i \in Id : entry[i] # None =>
       \/ conn[entry[i]] \in {"registered", "closing"} /\ IdOf(user[entry[i]]) = i
       \/ conn[entry[i]] = "left"
  /\ \A i, j \in Id : entry[i] = entry[j] /\ entry[i] # None => i = j
  /\ OneConnectionOrRetry
  /\ OneRegistered
  /\ ShownIsConnected

LEMMA PcInvariant == Spec => []PcInv
<1> USE PcAssumption DEF Client, Socket, Id, IdOf, Holds, Established
<1>1. Init => PcInv
  <2> SUFFICES ASSUME Init PROVE PcInv
    OBVIOUS
  <2>1. TypeOK
    BY DEF Init, TypeOK
  <2> QED
    BY <2>1 DEF Init, PcInv, OneConnectionOrRetry, OneRegistered,
       ShownIsConnected
<1>2. PcInv /\ [Next]_vars => PcInv'
  <2> SUFFICES ASSUME PcInv, [Next]_vars PROVE PcInv'
    OBVIOUS
  <2> USE DEF backend, PcInv, TypeOK, OneConnectionOrRetry, OneRegistered,
      ShownIsConnected
  <2>1. ASSUME NEW a \in Agent, AgentConnects(a) PROVE PcInv'
    BY <2>1 DEF AgentConnects, Dial
  <2>2. ASSUME NEW a \in Agent, NEW c \in AgentSocket, AgentOpened(a, c) PROVE PcInv'
    BY <2>2 DEF AgentOpened
  <2>3. ASSUME NEW a \in Agent, NEW c \in AgentSocket, AgentClosed(a, c) PROVE PcInv'
    <3>1. PICK to \in {"free", "left"} : conn' = [conn EXCEPT ![c] = to] /\ (to = "free" => ~Listed(c))
      BY <2>3 DEF AgentClosed, Closed
    <3>2. \A i \in Id : entry[i] = c => to = "left"
      BY <3>1 DEF Listed
    <3> QED
      BY <2>3, <3>1, <3>2 DEF AgentClosed, Closed
  <2>4. ASSUME NEW p \in App, AppConnects(p) PROVE PcInv'
    BY <2>4 DEF AppConnects, Dial
  <2>5. ASSUME NEW p \in App, NEW c \in AppSocket, AppOpened(p, c) PROVE PcInv'
    BY <2>5 DEF AppOpened
  <2>6. ASSUME NEW p \in App, NEW c \in AppSocket, AppClosed(p, c) PROVE PcInv'
    <3>1. PICK to \in {"free", "left"} : conn' = [conn EXCEPT ![c] = to] /\ (to = "free" => ~Listed(c))
      BY <2>6 DEF AppClosed, Closed
    <3>2. \A i \in Id : entry[i] = c => to = "left"
      BY <3>1 DEF Listed
    <3> QED
      BY <2>6, <3>1, <3>2 DEF AppClosed, Closed
  <2>7. ASSUME NEW p \in App, AppDisconnects(p) PROVE PcInv'
    BY <2>7 DEF AppDisconnects
  <2>8. ASSUME NEW c \in Socket, Register(c) PROVE PcInv'
    <3> DEFINE i == IdOf(user[c])
    <3>1. /\ user[c] \in Client /\ i \in Id
          /\ conn' = [d \in Socket |-> IF d = c THEN "registered"
                                       ELSE IF d # entry[i] THEN conn[d]
                                       ELSE IF conn[d] = "left" THEN "free" ELSE "closing"]
          /\ entry' = [entry EXCEPT ![i] = c]
      BY <2>8 DEF Register
    <3>2. OneRegistered'
      <4> SUFFICES ASSUME NEW d \in Socket, conn'[d] = "registered", d # c
                   PROVE  entry'[IdOf(user[d])] = d
        BY <2>8, <3>1 DEF Register
      <4>1. conn[d] = "registered" /\ entry[IdOf(user[d])] = d /\ d # entry[i]
        BY <3>1
      <4> QED
        BY <3>1, <4>1
    <3>3. \A p \in Client : socket[p] # None /\ conn[socket[p]] # "dialing" =>
                              conn'[socket[p]] # "dialing" /\ conn'[socket[p]] # "free"
      BY <2>8, <3>1 DEF Register
    <3>4. TypeOK' /\ ShownIsConnected'
      BY <2>8, <3>1, <3>3 DEF Register
    <3>5. OneConnectionOrRetry'
      BY <2>8, <3>1 DEF Register
    <3>6. \A d \in Socket : user'[d] = None <=> conn'[d] \in {"free", "left"}
      BY <2>8, <3>1 DEF Register
    <3>7. ASSUME NEW j \in Id, entry'[j] # None
          PROVE  \/ conn'[entry'[j]] \in {"registered", "closing"} /\ IdOf(user'[entry'[j]]) = j
                 \/ conn'[entry'[j]] = "left"
      <4>1. CASE j = i
        BY <2>8, <3>1, <4>1 DEF Register
      <4>2. CASE j # i /\ entry[j] # entry[i]
        <5>1. entry'[j] = entry[j] /\ entry[j] # c
          BY <2>8, <3>1, <4>2 DEF Register
        <5> QED
          BY <2>8, <3>1, <3>7, <4>2, <5>1 DEF Register
      <4>3. CASE j # i /\ entry[j] = entry[i]
        BY <3>1, <3>7, <4>3
      <4> QED
        BY <4>1, <4>2, <4>3
    <3> QED
      BY <2>8, <3>1, <3>2, <3>3, <3>4, <3>5, <3>6, <3>7 DEF Register
  <2>9. CASE Outage
    <3>1. outages' \in 0..MaxOutages /\ up' = FALSE
      BY <2>9 DEF Outage
    <3>2. conn' \in [Socket -> {"free", "dialing", "open", "registered", "closing", "left"}]
      BY <2>9 DEF Outage
    <3>3. \A c \in Socket : conn'[c] = conn[c] \/ (Established(c) /\ conn'[c] = "closing")
      BY <2>9 DEF Outage
    <3>4. UNCHANGED <<user, entry, socket, retries, beat, shown>>
      BY <2>9 DEF Outage
    <3>5. TypeOK'
      BY <3>1, <3>2, <3>4
    <3>6. OneConnectionOrRetry'
      BY <3>3, <3>4
    <3>7. OneRegistered'
      BY <3>3, <3>4
    <3>8. ShownIsConnected'
      BY <3>3, <3>4
    <3> QED
      BY <3>5, <3>3, <3>4, <3>6, <3>7, <3>8
  <2>10. CASE Recover
    BY <2>10 DEF Recover
  <2>12. ASSUME NEW c \in Socket, Forget(c) PROVE PcInv'
    BY <2>12 DEF Forget, Listed
  <2>11. CASE UNCHANGED vars
    BY <2>11 DEF vars
  <2> QED
    BY <2>1, <2>2, <2>3, <2>4, <2>5, <2>6, <2>7, <2>8, <2>9, <2>10, <2>11, <2>12
       DEF Next, AgentStep, AppStep
<1> QED
  BY <1>1, <1>2, PTL DEF Spec

(* Types, for any number of programs and sockets. *)
THEOREM TypeCorrect == Spec => []TypeOK
<1>1. PcInv => TypeOK
  BY DEF PcInv
<1> QED
  BY <1>1, PcInvariant, PTL

(* No agent is ever left without both a connection and a retry, or has two;  *)
(* its heartbeats last as long as its connection.                            *)
THEOREM NeverStranded == Spec => []OneConnectionOrRetry
<1>1. PcInv => OneConnectionOrRetry
  BY DEF PcInv
<1> QED
  BY <1>1, PcInvariant, PTL

(* Any number of programs with one id leave it with one registered connection. *)
THEOREM IdHasOneConnection == Spec => []OneRegistered
<1>1. PcInv => OneRegistered
  BY DEF PcInv
<1> QED
  BY <1>1, PcInvariant, PTL

(* The registry the programs drive implements Roster: it changes hands only  *)
(* by a registration, and no other connection of the id stays registered.    *)
THEOREM Refinement == Spec => RegistryIsARoster
<1> USE PcAssumption DEF Client, Socket, Id, IdOf, Holds, Established
<1> DEFINE Registered(i) == {c \in Socket : conn[c] = "registered" /\ IdOf(user[c]) = i}
<1>1. Init => Registry!RosterInit
  BY DEF Init, Registry!RosterInit
<1>2. PcInv /\ PcInv' /\ [Next]_vars => [Registry!RosterNext]_Registry!rosterVars
  <2> SUFFICES ASSUME PcInv, PcInv', [Next]_vars
               PROVE  Registry!RosterNext \/ UNCHANGED Registry!rosterVars
    OBVIOUS
  <2> USE DEF backend, PcInv, TypeOK, OneRegistered, Registry!rosterVars
  <2>1. ASSUME NEW c \in Socket, Register(c) PROVE Registry!RosterNext
    <3> DEFINE alone == {c}
    <3>0. PICK i \in Id : i = IdOf(user[c])
      BY <2>1 DEF Register
    <3>1. \A j \in Id : entry[j] # c /\ c \notin Registered(j)
      BY <2>1 DEF Register
    <3>2. ASSUME NEW j \in Id
          PROVE  Registered(j)' = IF j = i THEN alone ELSE Registered(j)
      BY <2>1, <3>0 DEF Register
    <3>3. [j \in Id |-> Registered(j)]' = [[j \in Id |-> Registered(j)] EXCEPT ![i] = alone]
      <4> HIDE DEF Registered, alone, Id, PcInv
      <4> QED
        BY <3>2
    <3>4. entry' = [entry EXCEPT ![i] = c]
      BY <2>1, <3>0 DEF Register
    <3>5. Registry!Register(i, c)
      BY <3>1, <3>3, <3>4 DEF Registry!Register
    <3> QED
      BY <3>5 DEF Registry!RosterNext
  <2>2. ASSUME NEW c \in Socket, Closed(c) PROVE UNCHANGED Registry!rosterVars
    <3>1. conn[c] \in {"closing", "dialing"} /\ conn'[c] \in {"left", "free"}
      BY <2>2 DEF Closed
    <3>2. \A d \in Socket \ {c} : conn'[d] = conn[d] /\ user'[d] = user[d]
      BY <2>2 DEF Closed
    <3>3. \A i \in Id : Registered(i)' = Registered(i)
      BY <3>1, <3>2
    <3> QED
      BY <2>2, <3>3 DEF Closed
  <2>13. ASSUME NEW c \in Socket, Forget(c) PROVE Registry!Lose
    <3>1. /\ \A d \in Socket : conn'[d] = "registered" <=> conn[d] = "registered"
          /\ user' = user /\ conn[c] # "registered"
      BY <2>13 DEF Forget
    <3> DEFINE open == [i \in Id |-> Registered(i)]
    <3>2. open' = open
      BY <3>1
    <3>3. \A i \in Id : entry[i] = c => open[i] = {}
      BY <3>1
    <3>4. entry' = [i \in Id |-> IF entry[i] = c THEN None ELSE entry[i]]
      BY <2>13 DEF Forget
    <3>5. open \in [Id -> SUBSET Socket]
      OBVIOUS
    <3>6. entry' \in [Id -> Socket \cup {None}]
      OBVIOUS
    <3>7. \A i \in Id : entry'[i] \in {entry[i], None} /\ (entry'[i] # entry[i] => open[i] = {})
      BY <3>3, <3>4
    <3>8. open' \in [Id -> SUBSET Socket] /\ \A i \in Id : open'[i] = open[i]
      BY <3>2, <3>5
    <3> QED
      BY ONLY <3>6, <3>7, <3>8 DEF Registry!Lose, Registered
  <2>3. ASSUME NEW p \in App, AppDisconnects(p) PROVE Registry!Lose
    BY <2>3 DEF AppDisconnects, Registry!Lose
  <2>4. CASE Outage
    <3>1. \A c \in Socket : conn'[c] = conn[c] \/ conn'[c] = "closing"
      BY <2>4 DEF Outage
    <3>2. user' = user /\ entry' = entry
      BY <2>4 DEF Outage
    <3>3. Registry!Lose
      BY <3>1, <3>2 DEF Registry!Lose
    <3> QED
      BY <3>3 DEF Registry!RosterNext
  <2>5. ASSUME NEW a \in Agent, AgentConnects(a) PROVE UNCHANGED Registry!rosterVars
    BY <2>5 DEF AgentConnects, Dial
  <2>6. ASSUME NEW p \in App, AppConnects(p) PROVE UNCHANGED Registry!rosterVars
    BY <2>6 DEF AppConnects, Dial
  <2>7. ASSUME NEW a \in Agent, NEW c \in AgentSocket, AgentOpened(a, c)
        PROVE  UNCHANGED Registry!rosterVars
    BY <2>7 DEF AgentOpened
  <2>8. ASSUME NEW p \in App, NEW c \in AppSocket, AppOpened(p, c)
        PROVE  UNCHANGED Registry!rosterVars
    BY <2>8 DEF AppOpened
  <2>9. CASE Recover \/ UNCHANGED vars
    BY <2>9 DEF Recover, vars
  <2>10. ASSUME NEW a \in Agent, NEW c \in AgentSocket, AgentClosed(a, c)
         PROVE  UNCHANGED Registry!rosterVars
    BY <2>2, <2>10 DEF AgentClosed
  <2>11. ASSUME NEW p \in App, NEW c \in AppSocket, AppClosed(p, c)
         PROVE  UNCHANGED Registry!rosterVars
    BY <2>2, <2>11 DEF AppClosed
  <2>12. \A p \in App : AppDisconnects(p) => Registry!RosterNext
    BY <2>3 DEF Registry!RosterNext
  <2>14. \A c \in Socket : Forget(c) => Registry!RosterNext
    BY <2>13 DEF Registry!RosterNext
  <2> QED
    BY <2>1, <2>4, <2>5, <2>6, <2>7, <2>8, <2>9, <2>10, <2>11, <2>12, <2>14
       DEF Next, AgentStep, AppStep
<1> QED
  BY <1>1, <1>2, PcInvariant, PTL DEF Spec, RegistryIsARoster, Registry!RosterSpec

(* The desktop app's "connected" is true, whatever else it leaks. *)
THEOREM ShownIsTrue == Spec => []ShownIsConnected
<1>1. PcInv => ShownIsConnected
  BY DEF PcInv
<1> QED
  BY <1>1, PcInvariant, PTL

=============================================================================
