--------------------------- MODULE PresenceProofs ---------------------------
(* Machine-checked proofs about Presence, for any set of connections and ids. *)
EXTENDS Presence, TLAPS

(* Every connection whose id the registry holds registered that id. *)
EntriesAreRegistered ==
  /\ \A d \in DeviceId : devices[d] # NoSocket => devOf[devices[d]] = d
  /\ \A a \in AgentId : agents[a] # NoSocket => agtOf[agents[a]] = a

(* A connection registers nothing before it is open, and as agent alone   *)
(* unless the id is a desktop app's.                                      *)
RegistrationOrder ==
  \A s \in Socket :
    /\ sock[s] = "idle" => devOf[s] = NoId /\ agtOf[s] = NoId
    /\ agtOf[s] \in AgentId \ DeviceId => devOf[s] = NoId

(* The strengthening that makes registry ownership inductive. *)
Ownership ==
  /\ TypeOK
  /\ EntriesAreRegistered
  /\ RegistrationOrder
  /\ NoClosedSocketOfSingleClient
  /\ OpenConnectionOwnsItsId

-----------------------------------------------------------------------------
(* Every variable keeps its type: the statuses are those the schema admits    *)
(* and every handler is at one of its statements.                             *)
THEOREM TypeCorrect == Spec => []TypeOK
<1>1. Init => TypeOK
  BY BoundsAssumption DEF Init, TypeOK, Id, AgentRowId, RowStatus
<1>2. TypeOK /\ [Next]_vars => TypeOK'
  <2> SUFFICES ASSUME TypeOK, [Next]_vars PROVE TypeOK'
    OBVIOUS
  <2> USE DEF TypeOK, RowStatus
  <2>1. CASE Boot
    BY <2>1 DEF Boot, rows, handlers
  <2>2. CASE ReconcileDevices
    BY <2>2 DEF ReconcileDevices, Offline, handlers
  <2>3. CASE ReconcileAgents
    BY <2>3 DEF ReconcileAgents, Offline, handlers
  <2>4. CASE Crash
    BY <2>4, BoundsAssumption DEF Crash, rows
  <2>5. ASSUME NEW s \in Socket, Connect(s) PROVE TypeOK'
    BY <2>5 DEF Connect, process, rows, handlers
  <2>6. ASSUME NEW s \in Socket, NEW d \in DeviceId, DeviceRegister(s, d) PROVE TypeOK'
    <3>1. Busy(d) \in BOOLEAN
      BY DEF Busy
    <3>2. sock' \in [Socket -> {"idle", "open", "closing", "closed"}]
      BY <2>6 DEF DeviceRegister, DropExistingSocket
    <3> QED
      BY <2>6, <3>1, <3>2 DEF DeviceRegister, process, rows
  <2>7. ASSUME NEW s \in Socket, NEW a \in AgentId, AgentRegister(s, a) PROVE TypeOK'
    <3>1. Busy(a) \in BOOLEAN
      BY DEF Busy
    <3>2. sock' \in [Socket -> {"idle", "open", "closing", "closed"}]
      BY <2>7 DEF AgentRegister, DropExistingSocket
    <3> QED
      BY <2>7, <3>1, <3>2 DEF AgentRegister, process, rows
  <2>8. ASSUME NEW s \in Socket, Heartbeat(s) PROVE TypeOK'
    <3>1. (racy[agtOf[s]] \/ Busy(agtOf[s]) \/ agents[agtOf[s]] # s) \in BOOLEAN
      OBVIOUS
    <3> QED
      BY <2>8, <3>1 DEF Heartbeat, process, rows
  <2>9. ASSUME NEW s \in Socket, Close(s) PROVE TypeOK'
    <3>1. \A x : Busy(x) \in BOOLEAN
      BY DEF Busy
    <3>2. /\ devices' \in [DeviceId -> Socket \cup {NoSocket}]
          /\ agents' \in [AgentId -> Socket \cup {NoSocket}]
          /\ gone' \in [Socket -> {"idle", "device", "companion", "agent"}]
          /\ racy' \in [Id -> BOOLEAN]
      BY <2>9, <3>1 DEF Close, UnregisterSocket
    <3> QED
      BY <2>9, <3>2 DEF Close, process, rows
  <2>10. ASSUME NEW s \in Socket, Statement(s) PROVE TypeOK'
    <3>1. CASE UpsertDevice(s)
      BY <3>1 DEF UpsertDevice, process
    <3>2. CASE UpsertCompanion(s)
      BY <3>2 DEF UpsertCompanion, process
    <3>3. CASE UpsertAgent(s)
      BY <3>3 DEF UpsertAgent, process
    <3>4. CASE BeatDevices(s)
      BY <3>4 DEF BeatDevices, Online, process
    <3>5. CASE BeatAgents(s)
      BY <3>5 DEF BeatAgents, Online, process
    <3>6. CASE MarkDeviceDisconnected(s)
      BY <3>6 DEF MarkDeviceDisconnected, Offline, process
    <3>7. CASE MarkCompanionDisconnected(s)
      BY <3>7 DEF MarkCompanionDisconnected, Offline, process
    <3>8. CASE MarkAgentDisconnected(s)
      BY <3>8 DEF MarkAgentDisconnected, Offline, process
    <3> QED
      BY <2>10, <3>1, <3>2, <3>3, <3>4, <3>5, <3>6, <3>7, <3>8 DEF Statement
  <2>11. ASSUME NEW s \in Socket, Failure(s) PROVE TypeOK'
    <3>1. CASE RegisterFails(s)
      BY <3>1 DEF RegisterFails, process, rows
    <3>2. CASE BeatFails(s)
      BY <3>2 DEF BeatFails, process, rows
    <3>3. CASE CloseFails(s)
      BY <3>3 DEF CloseFails, process, rows
    <3> QED
      BY <2>11, <3>1, <3>2, <3>3 DEF Failure
  <2>12. CASE UNCHANGED vars
    BY <2>12 DEF vars, process, rows, handlers
  <2> QED
    BY <2>1, <2>2, <2>3, <2>4, <2>5, <2>6, <2>7, <2>8, <2>9, <2>10, <2>11, <2>12
       DEF Next, Lifecycle, Client
<1> QED
  BY <1>1, <1>2, PTL DEF Spec


-----------------------------------------------------------------------------
(* The steps that leave registry, connections and registrations alone. *)
registryVars == <<sock, devOf, agtOf, devices, agents>>

LEMMA QuietSteps ==
  ASSUME NEW s \in Socket, Statement(s) \/ Failure(s) \/ Heartbeat(s)
  PROVE  UNCHANGED registryVars
BY DEF Statement, Failure, Heartbeat, UpsertDevice, UpsertCompanion, UpsertAgent, BeatDevices,
       BeatAgents, MarkDeviceDisconnected, MarkCompanionDisconnected, MarkAgentDisconnected,
       RegisterFails, BeatFails, CloseFails, registryVars

LEMMA OwnershipUnchanged ==
  ASSUME Ownership, TypeOK', UNCHANGED registryVars
  PROVE  Ownership'
BY DEF Ownership, EntriesAreRegistered, RegistrationOrder, NoClosedSocketOfSingleClient,
       OpenConnectionOwnsItsId, registryVars

(* The registry never holds an id for a connection that did not register    *)
(* it; it holds no closed connection (a desktop app's agent entry aside);   *)
(* and a connection that stays open after registering owns its id.          *)
THEOREM RegistryOwnership == Spec => []Ownership
<1> USE NullAssumption
<1>1. Init => Ownership
  <2> SUFFICES ASSUME Init, TypeOK PROVE Ownership
    BY BoundsAssumption DEF Init, TypeOK, Id, AgentRowId, RowStatus
  <2> QED
    BY DEF Init, Ownership, EntriesAreRegistered, RegistrationOrder,
           NoClosedSocketOfSingleClient, OpenConnectionOwnsItsId
<1>2. Ownership /\ TypeOK' /\ [Next]_vars => Ownership'
  <2> SUFFICES ASSUME Ownership, TypeOK', [Next]_vars PROVE Ownership'
    OBVIOUS
  <2> USE DEF Ownership
  <2>1. CASE Lifecycle \/ UNCHANGED vars
    <3>1. UNCHANGED registryVars
      BY <2>1 DEF Lifecycle, Boot, ReconcileDevices, ReconcileAgents, registryVars, vars
    <3> QED
      BY <3>1, OwnershipUnchanged
  <2>2. CASE Crash
    BY <2>2 DEF Crash, TypeOK, EntriesAreRegistered, RegistrationOrder,
                NoClosedSocketOfSingleClient, OpenConnectionOwnsItsId
  <2>3. ASSUME NEW s \in Socket, Connect(s) PROVE Ownership'
    BY <2>3 DEF Connect, TypeOK, EntriesAreRegistered, RegistrationOrder,
                NoClosedSocketOfSingleClient, OpenConnectionOwnsItsId
  <2>4. ASSUME NEW s \in Socket, NEW d \in DeviceId, DeviceRegister(s, d) PROVE Ownership'
    <3> USE <2>4 DEF DeviceRegister, DropExistingSocket, Readable, TypeOK
    <3>1. EntriesAreRegistered'
      BY DEF EntriesAreRegistered
    <3>2. RegistrationOrder'
      BY DEF RegistrationOrder
    <3>3. NoClosedSocketOfSingleClient'
      BY DEF NoClosedSocketOfSingleClient
    <3>4. OpenConnectionOwnsItsId'
      BY DEF OpenConnectionOwnsItsId, EntriesAreRegistered
    <3> QED
      BY <3>1, <3>2, <3>3, <3>4
  <2>5. ASSUME NEW s \in Socket, NEW a \in AgentId, AgentRegister(s, a) PROVE Ownership'
    <3> USE <2>5 DEF AgentRegister, DropExistingSocket, Readable, TypeOK
    <3>1. EntriesAreRegistered'
      BY DEF EntriesAreRegistered
    <3>2. RegistrationOrder'
      BY DEF RegistrationOrder
    <3>3. NoClosedSocketOfSingleClient'
      BY DEF NoClosedSocketOfSingleClient
    <3>4. OpenConnectionOwnsItsId'
      BY DEF OpenConnectionOwnsItsId, EntriesAreRegistered
    <3> QED
      BY <3>1, <3>2, <3>3, <3>4
  <2>6. ASSUME NEW s \in Socket, Close(s) PROVE Ownership'
    <3> USE <2>6 DEF Close, UnregisterSocket, Readable, TypeOK
    <3>1. EntriesAreRegistered'
      BY DEF EntriesAreRegistered
    <3>2. RegistrationOrder'
      BY DEF RegistrationOrder
    <3>3. NoClosedSocketOfSingleClient'
      <4>1. \A d \in DeviceId : devices'[d] # s
        BY DEF EntriesAreRegistered
      <4>2. \A a \in AgentId \ DeviceId : agents'[a] # s
        BY DEF EntriesAreRegistered, RegistrationOrder
      <4> QED
        BY <4>1, <4>2 DEF NoClosedSocketOfSingleClient
    <3>4. OpenConnectionOwnsItsId'
      BY DEF OpenConnectionOwnsItsId, EntriesAreRegistered
    <3> QED
      BY <3>1, <3>2, <3>3, <3>4
  <2>7. ASSUME NEW s \in Socket, Statement(s) \/ Failure(s) \/ Heartbeat(s) PROVE Ownership'
    BY <2>7, QuietSteps, OwnershipUnchanged
  <2> QED
    BY <2>1, <2>2, <2>3, <2>4, <2>5, <2>6, <2>7 DEF Next, Client
<1> QED
  BY <1>1, <1>2, TypeCorrect, PTL DEF Spec

(* No entry of a single-registration client outlives its connection. *)
COROLLARY NoClosedSocket == Spec => []NoClosedSocketOfSingleClient
<1>1. Ownership => NoClosedSocketOfSingleClient
  BY DEF Ownership
<1> QED
  BY <1>1, RegistryOwnership, PTL

(* An open registered connection is the one its id is reached by, so an id   *)
(* never has two open connections.                                           *)
COROLLARY OpenOwns == Spec => []OpenConnectionOwnsItsId
<1>1. Ownership => OpenConnectionOwnsItsId
  BY DEF Ownership
<1> QED
  BY <1>1, RegistryOwnership, PTL

(* The two maps implement Roster.  A registration is Register in the map it  *)
(* is for; in the other map it may lose a connection, for a desktop app that *)
(* is superseded under one name leaves both.                                 *)
THEOREM Rosters == Spec => RegistryIsARoster
<1> USE NullAssumption
<1> USE DEF Devices!Register, Devices!Lose, Agents!Register, Agents!Lose
<1> DEFINE Openings(f, i) == {s \in Socket : sock[s] = "open" /\ f[s] = i}
           DevicesStep == Devices!RosterNext \/ UNCHANGED Devices!rosterVars
           AgentsStep == Agents!RosterNext \/ UNCHANGED Agents!rosterVars
<1>1. Init => Devices!RosterInit /\ Agents!RosterInit
  BY DEF Init, Devices!RosterInit, Agents!RosterInit
<1>2. Ownership /\ TypeOK' /\ [Next]_vars => DevicesStep /\ AgentsStep
  <2> SUFFICES ASSUME Ownership, TypeOK', [Next]_vars PROVE DevicesStep /\ AgentsStep
    OBVIOUS
  <2> USE DEF Ownership, TypeOK
  <2>1. ASSUME UNCHANGED registryVars PROVE DevicesStep /\ AgentsStep
    BY <2>1 DEF registryVars, Devices!rosterVars, Agents!rosterVars
  <2>2. ASSUME NEW s \in Socket, NEW d \in DeviceId, DeviceRegister(s, d)
        PROVE  DevicesStep /\ AgentsStep
    <3> USE <2>2 DEF DeviceRegister, DropExistingSocket
    <3> DEFINE stays == IF sock[s] = "open" THEN {s} ELSE {}
    <3>1. \A j \in DeviceId : devices[j] # s /\ s \notin Openings(devOf, j)
      BY DEF EntriesAreRegistered
    <3>2. ASSUME NEW j \in DeviceId
          PROVE  Openings(devOf, j)' = IF j = d THEN stays ELSE Openings(devOf, j)
      BY DEF EntriesAreRegistered, OpenConnectionOwnsItsId
    <3>3. [j \in DeviceId |-> Openings(devOf, j)]'
            = [[j \in DeviceId |-> Openings(devOf, j)] EXCEPT ![d] = stays]
      <4> HIDE DEF Openings, stays
      <4> QED
        BY <3>2
    <3>4. Devices!Register(d, s)
      BY <3>1, <3>3
    <3>5. Agents!Lose
      BY DEF OpenConnectionOwnsItsId
    <3> QED
      BY <3>4, <3>5 DEF Devices!RosterNext, Agents!RosterNext
  <2>3. ASSUME NEW s \in Socket, NEW a \in AgentId, AgentRegister(s, a)
        PROVE  DevicesStep /\ AgentsStep
    <3> USE <2>3 DEF AgentRegister, DropExistingSocket
    <3> DEFINE stays == IF sock[s] = "open" THEN {s} ELSE {}
    <3>1. \A j \in AgentId : agents[j] # s /\ s \notin Openings(agtOf, j)
      BY DEF EntriesAreRegistered
    <3>2. ASSUME NEW j \in AgentId
          PROVE  Openings(agtOf, j)' = IF j = a THEN stays ELSE Openings(agtOf, j)
      BY DEF EntriesAreRegistered, OpenConnectionOwnsItsId
    <3>3. [j \in AgentId |-> Openings(agtOf, j)]'
            = [[j \in AgentId |-> Openings(agtOf, j)] EXCEPT ![a] = stays]
      <4> HIDE DEF Openings, stays
      <4> QED
        BY <3>2
    <3>4. Agents!Register(a, s)
      BY <3>1, <3>3
    <3>5. Devices!Lose
      BY DEF OpenConnectionOwnsItsId
    <3> QED
      BY <3>4, <3>5 DEF Devices!RosterNext, Agents!RosterNext
  <2>4. ASSUME NEW s \in Socket, Close(s) PROVE Devices!Lose /\ Agents!Lose
    BY <2>4 DEF Close, UnregisterSocket, Readable, EntriesAreRegistered, OpenConnectionOwnsItsId
  <2>5. ASSUME Crash PROVE Devices!Lose /\ Agents!Lose
    BY <2>5 DEF Crash
  <2>6. ASSUME NEW s \in Socket, Connect(s) PROVE DevicesStep /\ AgentsStep
    BY <2>6 DEF Connect, RegistrationOrder, Devices!rosterVars, Agents!rosterVars
  <2>7. CASE Lifecycle \/ UNCHANGED vars
    BY <2>1, <2>7 DEF Lifecycle, Boot, ReconcileDevices, ReconcileAgents, registryVars, vars
  <2> QED
    BY <2>1, <2>2, <2>3, <2>4, <2>5, <2>6, <2>7, QuietSteps
       DEF Next, Client, Devices!RosterNext, Agents!RosterNext
<1> QED
  BY <1>1, <1>2, RegistryOwnership, TypeCorrect, PTL
     DEF Spec, RegistryIsARoster, Devices!RosterSpec, Agents!RosterSpec

(* A superseded connection's close, however late, leaves the successor's     *)
(* entry alone.                                                              *)
THEOREM EntryLeaves == Spec => EntryLeavesWithItsSocket
<1> USE NullAssumption
<1> DEFINE Leaves ==
      /\ \A d \in DeviceId : devices[d] # NoSocket /\ devices'[d] # devices[d] =>
           IF devices'[d] = NoSocket THEN sock'[devices[d]] = "closed"
                                     ELSE sock'[devices[d]] # "open"
      /\ \A a \in AgentId : agents[a] # NoSocket /\ agents'[a] # agents[a] =>
           IF agents'[a] = NoSocket THEN sock'[agents[a]] = "closed"
                                    ELSE sock'[agents[a]] # "open"
<1>1. Ownership /\ [Next]_vars => [Leaves]_vars
  <2> SUFFICES ASSUME Ownership, Next PROVE Leaves
    OBVIOUS
  <2>1. CASE Lifecycle
    BY <2>1 DEF Lifecycle, Boot, ReconcileDevices, ReconcileAgents
  <2>2. CASE Crash
    BY <2>2 DEF Crash, Ownership, TypeOK, RegistrationOrder, EntriesAreRegistered
  <2>3. ASSUME NEW s \in Socket, Connect(s) PROVE Leaves
    BY <2>3 DEF Connect
  <2>4. ASSUME NEW s \in Socket, NEW d \in DeviceId, DeviceRegister(s, d) PROVE Leaves
    BY <2>4 DEF DeviceRegister, DropExistingSocket, Ownership, TypeOK
  <2>5. ASSUME NEW s \in Socket, NEW a \in AgentId, AgentRegister(s, a) PROVE Leaves
    BY <2>5 DEF AgentRegister, DropExistingSocket, Ownership, TypeOK
  <2>6. ASSUME NEW s \in Socket, Close(s) PROVE Leaves
    BY <2>6 DEF Close, UnregisterSocket, Ownership, TypeOK
  <2>7. ASSUME NEW s \in Socket, Statement(s) \/ Failure(s) \/ Heartbeat(s) PROVE Leaves
    BY <2>7, QuietSteps DEF registryVars
  <2> QED
    BY <2>1, <2>2, <2>3, <2>4, <2>5, <2>6, <2>7 DEF Next, Client
<1> QED
  BY <1>1, RegistryOwnership, PTL DEF Spec, EntryLeavesWithItsSocket


-----------------------------------------------------------------------------
(* While the process is not up no handler of an earlier life is left, and    *)
(* once the devices are reconciled no device row claims a connection.        *)
Startup ==
  /\ TypeOK
  /\ phase # "up" => \A s \in Socket : ~InFlight(s)
  /\ phase = "agents" => \A d \in DeviceId : devRow[d] # "online"

LEMMA StartupInvariant == Spec => []Startup
<1>1. Init => Startup
  <2> SUFFICES ASSUME Init, TypeOK PROVE Startup
    BY BoundsAssumption DEF Init, TypeOK, Id, AgentRowId, RowStatus
  <2> QED
    BY DEF Init, Startup, InFlight
<1>2. Startup /\ TypeOK' /\ [Next]_vars => Startup'
  <2> SUFFICES ASSUME Startup, TypeOK', [Next]_vars PROVE Startup'
    OBVIOUS
  <2> USE DEF Startup, InFlight, TypeOK
  <2>1. CASE Boot
    BY <2>1 DEF Boot, handlers
  <2>2. CASE ReconcileDevices
    BY <2>2 DEF ReconcileDevices, Offline, handlers
  <2>3. CASE ReconcileAgents
    BY <2>3 DEF ReconcileAgents, handlers
  <2>4. CASE Crash
    BY <2>4 DEF Crash, rows
  <2>5. ASSUME NEW s \in Socket, Client(s) PROVE Startup'
    <3>1. phase = "up" /\ phase' = "up"
      BY <2>5 DEF Client, Connect, DeviceRegister, AgentRegister, Heartbeat, Close, Readable, process
    <3> QED
      BY <3>1
  <2>6. ASSUME NEW s \in Socket, Statement(s) \/ Failure(s) PROVE Startup'
    <3>1. InFlight(s) /\ phase' = phase
      BY <2>6 DEF Statement, Failure, UpsertDevice, UpsertCompanion, UpsertAgent, BeatDevices,
                  BeatAgents, MarkDeviceDisconnected, MarkCompanionDisconnected,
                  MarkAgentDisconnected, RegisterFails, BeatFails, CloseFails, process
    <3> QED
      BY <3>1
  <2>7. CASE UNCHANGED vars
    BY <2>7 DEF vars, process, rows, handlers
  <2> QED
    BY <2>1, <2>2, <2>3, <2>4, <2>5, <2>6, <2>7 DEF Next, Lifecycle
<1> QED
  BY <1>1, <1>2, TypeCorrect, PTL DEF Spec

(* However the earlier life ended, and wherever an earlier startup stopped,  *)
(* the gateway listens only when every row that was online is offline.       *)
THEOREM ListensClean == Spec => ListensWithNobodyOnline
<1> DEFINE Clean == phase # "up" /\ phase' = "up" =>
                      /\ \A d \in DeviceId : devRow'[d] # "online"
                      /\ \A a \in AgentRowId : agtRow'[a] # "online"
<1>1. Startup /\ [Next]_vars => [Clean]_vars
  <2> SUFFICES ASSUME Startup, Next, phase # "up", phase' = "up" PROVE Clean
    OBVIOUS
  <2>1. ReconcileAgents
    BY DEF Next, Lifecycle, Boot, ReconcileDevices, Crash, Client, Connect, DeviceRegister,
           AgentRegister, Heartbeat, Close, Readable, Statement, Failure, UpsertDevice,
           UpsertCompanion, UpsertAgent, BeatDevices, BeatAgents, MarkDeviceDisconnected,
           MarkCompanionDisconnected, MarkAgentDisconnected, RegisterFails, BeatFails,
           CloseFails, process
  <2> QED
    BY <2>1 DEF ReconcileAgents, Offline, Startup, TypeOK
<1> QED
  BY <1>1, StartupInvariant, PTL DEF Spec, ListensWithNobodyOnline

-----------------------------------------------------------------------------
(* A handler in flight belongs to a connection that has registered, a close  *)
(* handler to one that is closed, and who registers twice is a desktop app.  *)
HandlersRegistered ==
  \A s \in Socket :
    /\ regDev[s] # "idle" => devOf[s] # NoId
    /\ regAgt[s] # "idle" \/ beat[s] # "idle" => agtOf[s] # NoId
    /\ gone[s] # "idle" => sock[s] = "closed"
    /\ gone[s] \in {"device", "companion"} => devOf[s] # NoId
    /\ gone[s] = "agent" => agtOf[s] # NoId
    /\ agtOf[s] # NoId => devOf[s] = IF agtOf[s] \in DeviceId THEN agtOf[s] ELSE NoId

EmptyUntilUp ==
  phase # "up" => /\ \A d \in DeviceId : devices[d] = NoSocket
                  /\ \A a \in AgentId : agents[a] = NoSocket

(* What the one handler of a device that is not racy has written so far. *)
DeviceSettles(d) ==
  phase = "up" /\ ~racy[d] =>
    /\ \A s, t \in Socket : devOf[s] = d /\ devOf[t] = d /\ InFlight(s) /\ InFlight(t) => s = t
    /\ \A s \in Socket : devOf[s] = d =>
         /\ regDev[s] # "idle" => gone[s] = "idle" /\ devices[d] # NoSocket
         /\ gone[s] # "idle" => devices[d] = NoSocket
         /\ regDev[s] = "companion" => devRow[d] = "online"
         /\ gone[s] = "companion" => devRow[d] # "online"
    /\ (\A s \in Socket : devOf[s] = d => ~InFlight(s)) =>
         /\ devRow[d] = "online" <=> devices[d] # NoSocket
         /\ agtRow[Companion(d)] = "online" <=> devices[d] # NoSocket

(* The same for an agent, whose heartbeats find its row online. *)
AgentSettles(a) ==
  phase = "up" /\ ~racy[a] =>
    /\ \A s, t \in Socket : agtOf[s] = a /\ agtOf[t] = a /\ InFlight(s) /\ InFlight(t) => s = t
    /\ \A s \in Socket : agtOf[s] = a =>
         /\ regAgt[s] # "idle" => gone[s] = "idle" /\ beat[s] = "idle" /\ agents[a] # NoSocket
         /\ beat[s] # "idle" => gone[s] = "idle" /\ agents[a] # NoSocket /\ agtRow[a] = "online"
         /\ gone[s] # "idle" => agents[a] = NoSocket
    /\ (\A s \in Socket : agtOf[s] = a => ~InFlight(s)) =>
         (agtRow[a] = "online" <=> agents[a] # NoSocket)

Settling ==
  /\ Ownership
  /\ Startup
  /\ HandlersRegistered
  /\ EmptyUntilUp
  /\ \A d \in DeviceId \ AgentId : DeviceSettles(d)
  /\ \A a \in AgentId \ DeviceId : AgentSettles(a)

(* Steps of connections that are not d's leave what d's handlers do alone.   *)
LEMMA DeviceFrame ==
  ASSUME NEW d \in DeviceId, DeviceSettles(d),
         phase' = phase, racy'[d] = racy[d], devRow'[d] = devRow[d],
         agtRow'[Companion(d)] = agtRow[Companion(d)], devices'[d] = devices[d],
         \A t \in Socket : devOf'[t] = d <=> devOf[t] = d,
         \A t \in Socket : devOf[t] = d =>
           /\ regDev'[t] = regDev[t] /\ regAgt'[t] = regAgt[t]
           /\ beat'[t] = beat[t] /\ gone'[t] = gone[t]
  PROVE  DeviceSettles(d)'
BY DEF DeviceSettles, InFlight

(* Likewise for an agent's row and registry entry. *)
LEMMA AgentFrame ==
  ASSUME NEW a \in AgentId, AgentSettles(a),
         phase' = phase, racy'[a] = racy[a], agtRow'[a] = agtRow[a], agents'[a] = agents[a],
         \A t \in Socket : agtOf'[t] = a <=> agtOf[t] = a,
         \A t \in Socket : agtOf[t] = a =>
           /\ regDev'[t] = regDev[t] /\ regAgt'[t] = regAgt[t]
           /\ beat'[t] = beat[t] /\ gone'[t] = gone[t]
  PROVE  AgentSettles(a)'
BY DEF AgentSettles, InFlight

(* Every connection of a phone is a device's only, every one of a PC an      *)
(* agent's only, so that Busy is what the invariants above call it.          *)
LEMMA OneRole ==
  ASSUME Settling, NEW s \in Socket
  PROVE  /\ \A d \in DeviceId \ AgentId :
              /\ Uses(s, d) <=> devOf[s] = d
              /\ devOf[s] = d => agtOf[s] = NoId /\ regAgt[s] = "idle" /\ beat[s] = "idle"
                                 /\ gone[s] # "agent"
         /\ \A a \in AgentId \ DeviceId :
              /\ Uses(s, a) <=> agtOf[s] = a
              /\ agtOf[s] = a => devOf[s] = NoId /\ regDev[s] = "idle"
                                 /\ gone[s] \in {"idle", "agent"}
BY NullAssumption DEF Settling, HandlersRegistered, Ownership, TypeOK, Uses

(* Every step keeps HandlersRegistered. *)
LEMMA HandlersRegisteredKept ==
  ASSUME Settling, TypeOK', [Next]_vars
  PROVE  HandlersRegistered' /\ EmptyUntilUp'
<1> USE NullAssumption DEF Settling, HandlersRegistered, EmptyUntilUp, TypeOK
<1>1. CASE Lifecycle \/ UNCHANGED vars
  BY <1>1 DEF Lifecycle, Boot, ReconcileDevices, ReconcileAgents, vars, handlers, process
<1>2. CASE Crash
  BY <1>2 DEF Crash
<1>3. ASSUME NEW s \in Socket, Connect(s) PROVE HandlersRegistered' /\ EmptyUntilUp'
  BY <1>3 DEF Connect, handlers, process
<1>4. ASSUME NEW s \in Socket, NEW d \in DeviceId, DeviceRegister(s, d)
      PROVE  HandlersRegistered' /\ EmptyUntilUp'
  BY <1>4 DEF DeviceRegister, DropExistingSocket, Readable, process
<1>5. ASSUME NEW s \in Socket, NEW a \in AgentId, AgentRegister(s, a)
      PROVE  HandlersRegistered' /\ EmptyUntilUp'
  BY <1>5 DEF AgentRegister, DropExistingSocket, Readable, process
<1>6. ASSUME NEW s \in Socket, Heartbeat(s) PROVE HandlersRegistered' /\ EmptyUntilUp'
  BY <1>6 DEF Heartbeat, Readable, process
<1>7. ASSUME NEW s \in Socket, Close(s) PROVE HandlersRegistered' /\ EmptyUntilUp'
  BY <1>7 DEF Close, UnregisterSocket, Readable, process, Ownership, EntriesAreRegistered
<1>8. ASSUME NEW s \in Socket, Statement(s) PROVE HandlersRegistered' /\ EmptyUntilUp'
  BY <1>8 DEF Statement, UpsertDevice, UpsertCompanion, UpsertAgent, BeatDevices, BeatAgents,
              MarkDeviceDisconnected, MarkCompanionDisconnected, MarkAgentDisconnected, process
<1>9. ASSUME NEW s \in Socket, Failure(s) PROVE HandlersRegistered' /\ EmptyUntilUp'
  BY <1>9 DEF Failure, RegisterFails, BeatFails, CloseFails, process
<1> QED
  BY <1>1, <1>2, <1>3, <1>4, <1>5, <1>6, <1>7, <1>8, <1>9 DEF Next, Client

(* A phone's handlers, one after the other, write what its entry says.        *)
LEMMA DeviceSettlesKept ==
  ASSUME Settling, TypeOK', Next, NEW d \in DeviceId \ AgentId
  PROVE  DeviceSettles(d)'
<1> USE NullAssumption DEF TypeOK
<1> TypeOK /\ DeviceSettles(d) /\ d \in Id
  BY DEF Settling, Ownership, Id
<1>1. CASE Boot \/ ReconcileDevices \/ Crash
  BY <1>1 DEF Boot, ReconcileDevices, Crash, DeviceSettles
<1>2. CASE ReconcileAgents
  <2>1. devices[d] = NoSocket /\ devices' = devices
    BY <1>2 DEF ReconcileAgents, Settling, EmptyUntilUp
  <2>2. devRow'[d] # "online" /\ agtRow'[Companion(d)] # "online"
    BY <1>2 DEF ReconcileAgents, Settling, Startup, Offline, AgentRowId
  <2>3. \A s \in Socket : ~InFlight(s)'
    BY <1>2 DEF ReconcileAgents, Settling, Startup, InFlight, handlers
  <2> QED
    BY <2>1, <2>2, <2>3 DEF DeviceSettles, InFlight
<1>3. ASSUME NEW s \in Socket, Client(s) \/ Statement(s) \/ Failure(s), devOf[s] # d, devOf'[s] # d
      PROVE  DeviceSettles(d)'
  <2>1. /\ phase' = phase /\ devices'[d] = devices[d] /\ racy'[d] = racy[d]
        /\ \A t \in Socket \ {s} : /\ devOf'[t] = devOf[t]
                                   /\ regDev'[t] = regDev[t] /\ regAgt'[t] = regAgt[t]
                                   /\ beat'[t] = beat[t] /\ gone'[t] = gone[t]
    <3>1. CASE Client(s)
      BY <1>3, <3>1 DEF Client, Connect, DeviceRegister, AgentRegister, Heartbeat, Close,
           UnregisterSocket, process, handlers, Settling, Ownership, EntriesAreRegistered
    <3>2. CASE Statement(s)
      BY <1>3, <3>2 DEF Statement, UpsertDevice, UpsertCompanion, UpsertAgent, BeatDevices,
           BeatAgents, MarkDeviceDisconnected, MarkCompanionDisconnected, MarkAgentDisconnected,
           process
    <3>3. CASE Failure(s)
      BY <1>3, <3>3 DEF Failure, RegisterFails, BeatFails, CloseFails, process, Settling,
           HandlersRegistered
    <3> QED
      BY <1>3, <3>1, <3>2, <3>3
  <2>2. devRow'[d] = devRow[d] /\ agtRow'[Companion(d)] = agtRow[Companion(d)]
    <3>1. CASE Client(s) \/ Failure(s)
      BY <3>1 DEF Client, Connect, DeviceRegister, AgentRegister, Heartbeat, Close, Failure,
           RegisterFails, BeatFails, CloseFails, rows
    <3>2. CASE Statement(s)
      BY <1>3, <3>2, CompanionAssumption DEF Statement, UpsertDevice, UpsertCompanion, UpsertAgent,
           BeatDevices, BeatAgents, MarkDeviceDisconnected, MarkCompanionDisconnected,
           MarkAgentDisconnected, Settling, HandlersRegistered, AgentRowId, Companion
    <3> QED
      BY <1>3, <3>1, <3>2
  <2> QED
    BY <1>3, <2>1, <2>2, DeviceFrame
<1>4. ASSUME NEW s \in Socket, Client(s), devOf[s] = d \/ devOf'[s] = d PROVE DeviceSettles(d)'
  <2>1. \A t \in Socket : Uses(t, d) <=> devOf[t] = d
    BY OneRole
  <2>2. CASE Connect(s)
    BY <1>4, <2>2, DeviceFrame DEF Connect, process, rows, handlers
  <2>3. CASE DeviceRegister(s, d)
    <3>1. devices'[d] = s /\ regDev'[s] = "device" /\ (racy'[d] <=> Busy(d))
      BY <2>3 DEF DeviceRegister
    <3>2. regAgt[s] = "idle" /\ beat[s] = "idle" /\ gone[s] = "idle"
      BY <2>3 DEF DeviceRegister, Readable, Settling, HandlersRegistered
    <3>3. \A t \in Socket \ {s} : devOf'[t] = devOf[t] /\ (InFlight(t)' <=> InFlight(t))
                                  /\ regDev'[t] = regDev[t] /\ gone'[t] = gone[t]
      BY <2>3 DEF DeviceRegister, InFlight
    <3>4. InFlight(s)' /\ devOf'[s] = d /\ gone'[s] = "idle"
      BY <2>3, <3>1, <3>2 DEF DeviceRegister, InFlight
    <3>5. ~Busy(d) => \A t \in Socket \ {s} : devOf[t] = d => ~InFlight(t)
      BY <2>1 DEF Busy
    <3>6. ~Busy(d) => \A t \in Socket \ {s} : devOf[t] = d => regDev[t] = "idle" /\ gone[t] = "idle"
      BY <3>5 DEF InFlight
    <3> QED
      BY <3>1, <3>3, <3>4, <3>5, <3>6 DEF DeviceSettles
  <2>4. CASE Close(s)
    <3>1. devOf[s] = d
      BY <1>4, <2>4 DEF Close
    <3>2. CASE devices[d] = s
      <4>1. devices'[d] = NoSocket /\ gone'[s] = "device" /\ (racy'[d] <=> Busy(d))
        BY <2>4, <3>1, <3>2 DEF Close, UnregisterSocket, Settling, Ownership, EntriesAreRegistered
      <4>2. \A t \in Socket : devOf'[t] = devOf[t] /\ regDev'[t] = regDev[t]
                              /\ (t # s => gone'[t] = gone[t] /\ (InFlight(t)' <=> InFlight(t)))
        BY <2>4, <3>2 DEF Close, UnregisterSocket, InFlight
      <4>3. InFlight(s)'
        BY <4>1 DEF InFlight
      <4>4. ~Busy(d) => \A t \in Socket : devOf[t] = d => ~InFlight(t)
        BY <2>1 DEF Busy
      <4>5. ~Busy(d) => \A t \in Socket : devOf[t] = d => regDev[t] = "idle" /\ gone[t] = "idle"
        BY <4>4 DEF InFlight
      <4> QED
        BY <3>1, <4>1, <4>2, <4>3, <4>4, <4>5 DEF DeviceSettles
    <3>3. CASE devices[d] # s
      <4>1. (\A e \in DeviceId : devices[e] # s) /\ (\A a \in AgentId : agents[a] # s)
        BY <3>1, <3>3, OneRole DEF Settling, Ownership, EntriesAreRegistered
      <4>2. UNCHANGED <<devices, agents, gone, racy>>
        BY <2>4, <4>1 DEF Close, UnregisterSocket
      <4> QED
        BY <2>4, <4>2, DeviceFrame DEF Close, process, rows
    <3> QED
      BY <3>2, <3>3
  <2>5. ASSUME NEW e \in DeviceId \ {d}, DeviceRegister(s, e) PROVE FALSE
    BY <1>4, <2>5 DEF DeviceRegister
  <2>6. ASSUME NEW a \in AgentId, AgentRegister(s, a) PROVE FALSE
    BY <1>4, <2>6 DEF AgentRegister
  <2>7. CASE Heartbeat(s)
    BY <1>4, <2>7, OneRole DEF Heartbeat
  <2> QED
    BY <1>4, <2>2, <2>3, <2>4, <2>5, <2>6, <2>7 DEF Client
<1>5. ASSUME NEW s \in Socket, Statement(s) \/ Failure(s), devOf[s] = d \/ devOf'[s] = d
      PROVE  DeviceSettles(d)'
  <2>1. devOf[s] = d /\ devOf' = devOf /\ devices' = devices /\ phase' = phase
    BY <1>5 DEF Statement, Failure, UpsertDevice, UpsertCompanion, UpsertAgent, BeatDevices,
         BeatAgents, MarkDeviceDisconnected, MarkCompanionDisconnected, MarkAgentDisconnected,
         RegisterFails, BeatFails, CloseFails, process
  <2>2. regAgt[s] = "idle" /\ beat[s] = "idle" /\ gone[s] # "agent"
    BY <2>1, OneRole
  <2>3. CASE Failure(s)
    <3>1. racy'[d]
      BY <2>1, <2>2, <2>3 DEF Failure, RegisterFails, BeatFails, CloseFails
    <3> QED
      BY <3>1 DEF DeviceSettles
  <2>4. CASE UpsertDevice(s)
    BY <2>1, <2>2, <2>4 DEF UpsertDevice, DeviceSettles, InFlight
  <2>5. CASE UpsertCompanion(s)
    BY <2>1, <2>2, <2>5 DEF UpsertCompanion, DeviceSettles, InFlight, AgentRowId
  <2>6. CASE MarkDeviceDisconnected(s)
    BY <2>1, <2>2, <2>6 DEF MarkDeviceDisconnected, DeviceSettles, InFlight, Offline
  <2>7. CASE MarkCompanionDisconnected(s)
    BY <2>1, <2>2, <2>7 DEF MarkCompanionDisconnected, DeviceSettles, InFlight, Offline, AgentRowId
  <2> QED
    BY <1>5, <2>2, <2>3, <2>4, <2>5, <2>6, <2>7
       DEF Statement, UpsertAgent, BeatDevices, BeatAgents, MarkAgentDisconnected
<1> QED
  BY <1>1, <1>2, <1>3, <1>4, <1>5 DEF Next, Lifecycle

(* A PC's handlers, its heartbeats among them, do the same.                  *)
LEMMA AgentSettlesKept ==
  ASSUME Settling, TypeOK', Next, NEW a \in AgentId \ DeviceId
  PROVE  AgentSettles(a)'
<1> USE NullAssumption DEF TypeOK
<1> TypeOK /\ AgentSettles(a) /\ a \in Id /\ a \in AgentRowId
  BY DEF Settling, Ownership, Id, AgentRowId
<1>1. CASE Boot \/ ReconcileDevices \/ Crash
  BY <1>1 DEF Boot, ReconcileDevices, Crash, AgentSettles
<1>2. CASE ReconcileAgents
  <2>1. agents[a] = NoSocket /\ agents' = agents
    BY <1>2 DEF ReconcileAgents, Settling, EmptyUntilUp
  <2>2. agtRow'[a] # "online"
    BY <1>2 DEF ReconcileAgents, Offline
  <2>3. \A s \in Socket : ~InFlight(s)'
    BY <1>2 DEF ReconcileAgents, Settling, Startup, InFlight, handlers
  <2> QED
    BY <2>1, <2>2, <2>3 DEF AgentSettles, InFlight
<1>3. ASSUME NEW s \in Socket, Client(s) \/ Statement(s) \/ Failure(s), agtOf[s] # a, agtOf'[s] # a
      PROVE  AgentSettles(a)'
  <2>1. /\ phase' = phase /\ agents'[a] = agents[a] /\ racy'[a] = racy[a]
        /\ \A t \in Socket \ {s} : /\ agtOf'[t] = agtOf[t]
                                   /\ regDev'[t] = regDev[t] /\ regAgt'[t] = regAgt[t]
                                   /\ beat'[t] = beat[t] /\ gone'[t] = gone[t]
    <3>1. CASE Client(s)
      BY <1>3, <3>1 DEF Client, Connect, DeviceRegister, AgentRegister, Heartbeat, Close,
           UnregisterSocket, process, handlers, Settling, Ownership, EntriesAreRegistered
    <3>2. CASE Statement(s)
      BY <1>3, <3>2 DEF Statement, UpsertDevice, UpsertCompanion, UpsertAgent, BeatDevices,
           BeatAgents, MarkDeviceDisconnected, MarkCompanionDisconnected, MarkAgentDisconnected,
           process
    <3>3. CASE Failure(s)
      BY <1>3, <3>3 DEF Failure, RegisterFails, BeatFails, CloseFails, process, Settling,
           HandlersRegistered
    <3> QED
      BY <1>3, <3>1, <3>2, <3>3
  <2>2. agtRow'[a] = agtRow[a]
    <3>1. CASE Client(s) \/ Failure(s)
      BY <3>1 DEF Client, Connect, DeviceRegister, AgentRegister, Heartbeat, Close, Failure,
           RegisterFails, BeatFails, CloseFails, rows
    <3>2. CASE Statement(s)
      BY <1>3, <3>2, CompanionAssumption DEF Statement, UpsertDevice, UpsertCompanion, UpsertAgent,
           BeatDevices, BeatAgents, MarkDeviceDisconnected, MarkCompanionDisconnected,
           MarkAgentDisconnected, Settling, HandlersRegistered
    <3> QED
      BY <1>3, <3>1, <3>2
  <2> QED
    BY <1>3, <2>1, <2>2, AgentFrame
<1>4. ASSUME NEW s \in Socket, Client(s), agtOf[s] = a \/ agtOf'[s] = a PROVE AgentSettles(a)'
  <2>1. \A t \in Socket : Uses(t, a) <=> agtOf[t] = a
    BY OneRole
  <2>2. ~Busy(a) => \A t \in Socket : agtOf[t] = a => ~InFlight(t)
    BY <2>1 DEF Busy
  <2>3. ~Busy(a) => \A t \in Socket : agtOf[t] = a =>
                      regAgt[t] = "idle" /\ beat[t] = "idle" /\ gone[t] = "idle"
    BY <2>2 DEF InFlight
  <2>4. CASE Connect(s)
    BY <1>4, <2>4, AgentFrame DEF Connect, process, rows, handlers
  <2>5. CASE AgentRegister(s, a)
    <3>1. agents'[a] = s /\ regAgt'[s] = "agent" /\ (racy'[a] <=> Busy(a))
      BY <2>5 DEF AgentRegister
    <3>2. beat[s] = "idle" /\ gone[s] = "idle" /\ beat' = beat /\ gone' = gone
      BY <2>5 DEF AgentRegister, Readable, Settling, HandlersRegistered
    <3>3. \A t \in Socket \ {s} : agtOf'[t] = agtOf[t] /\ (InFlight(t)' <=> InFlight(t))
                                  /\ regAgt'[t] = regAgt[t]
      BY <2>5 DEF AgentRegister, InFlight
    <3>4. InFlight(s)' /\ agtOf'[s] = a
      BY <2>5, <3>1 DEF AgentRegister, InFlight
    <3> QED
      BY <2>2, <2>3, <3>1, <3>2, <3>3, <3>4 DEF AgentSettles
  <2>6. CASE Heartbeat(s)
    <3>1. agtOf[s] = a /\ agtOf' = agtOf
      BY <1>4, <2>6 DEF Heartbeat
    <3>2. racy'[a] \/ (~racy[a] /\ ~Busy(a) /\ agents[a] = s)
      BY <2>6, <3>1 DEF Heartbeat
    <3>3. /\ beat'[s] = "devices" /\ regAgt' = regAgt /\ gone' = gone /\ agents' = agents
          /\ agtRow' = agtRow /\ phase' = phase
          /\ \A t \in Socket \ {s} : beat'[t] = beat[t] /\ (InFlight(t)' <=> InFlight(t))
      BY <2>6 DEF Heartbeat, rows, process, InFlight
    <3>4. InFlight(s)'
      BY <3>3 DEF InFlight
    <3>5. ~racy'[a] /\ phase' = "up" => agtRow[a] = "online"
      BY <2>2, <3>2, <3>3 DEF AgentSettles
    <3> QED
      BY <2>2, <2>3, <3>1, <3>2, <3>3, <3>4, <3>5 DEF AgentSettles
  <2>7. CASE Close(s)
    <3>1. agtOf[s] = a /\ \A d \in DeviceId : devices[d] # s
      BY <1>4, <2>7, OneRole DEF Close, Settling, Ownership, EntriesAreRegistered
    <3>2. CASE agents[a] = s
      <4>1. agents'[a] = NoSocket /\ gone'[s] = "agent" /\ (racy'[a] <=> Busy(a))
        BY <2>7, <3>1, <3>2 DEF Close, UnregisterSocket, Settling, Ownership, EntriesAreRegistered
      <4>2. /\ agtOf' = agtOf /\ regAgt' = regAgt /\ beat' = beat
            /\ \A t \in Socket : t # s => gone'[t] = gone[t] /\ (InFlight(t)' <=> InFlight(t))
        BY <2>7, <3>1, <3>2 DEF Close, UnregisterSocket, InFlight
      <4>3. InFlight(s)'
        BY <4>1 DEF InFlight
      <4> QED
        BY <2>2, <2>3, <3>1, <4>1, <4>2, <4>3 DEF AgentSettles
    <3>3. CASE agents[a] # s
      <4>1. \A b \in AgentId : agents[b] # s
        BY <3>1, <3>3 DEF Settling, Ownership, EntriesAreRegistered
      <4>2. UNCHANGED <<devices, agents, gone, racy>>
        BY <2>7, <3>1, <4>1 DEF Close, UnregisterSocket
      <4> QED
        BY <2>7, <4>2, AgentFrame DEF Close, process, rows
    <3> QED
      BY <3>2, <3>3
  <2>8. ASSUME NEW d \in DeviceId, DeviceRegister(s, d) PROVE FALSE
    BY <1>4, <2>8 DEF DeviceRegister
  <2>9. ASSUME NEW b \in AgentId \ {a}, AgentRegister(s, b) PROVE FALSE
    BY <1>4, <2>9 DEF AgentRegister
  <2> QED
    BY <1>4, <2>4, <2>5, <2>6, <2>7, <2>8, <2>9 DEF Client
<1>5. ASSUME NEW s \in Socket, Statement(s) \/ Failure(s), agtOf[s] = a \/ agtOf'[s] = a
      PROVE  AgentSettles(a)'
  <2>1. agtOf[s] = a /\ agtOf' = agtOf /\ agents' = agents /\ phase' = phase
    BY <1>5 DEF Statement, Failure, UpsertDevice, UpsertCompanion, UpsertAgent, BeatDevices,
         BeatAgents, MarkDeviceDisconnected, MarkCompanionDisconnected, MarkAgentDisconnected,
         RegisterFails, BeatFails, CloseFails, process
  <2>2. regDev[s] = "idle" /\ gone[s] \in {"idle", "agent"}
    BY <2>1, OneRole
  <2>3. CASE RegisterFails(s) \/ CloseFails(s)
    <3>1. racy'[a]
      BY <2>1, <2>2, <2>3 DEF RegisterFails, CloseFails
    <3> QED
      BY <3>1 DEF AgentSettles
  <2>4. CASE BeatFails(s)
    BY <2>1, <2>2, <2>4 DEF BeatFails, AgentSettles, InFlight, rows
  <2>5. CASE UpsertAgent(s)
    BY <2>1, <2>2, <2>5 DEF UpsertAgent, AgentSettles, InFlight
  <2>6. CASE BeatDevices(s)
    BY <2>1, <2>2, <2>6 DEF BeatDevices, AgentSettles, InFlight
  <2>7. CASE BeatAgents(s)
    BY <2>1, <2>2, <2>7 DEF BeatAgents, AgentSettles, InFlight, Online
  <2>8. CASE MarkAgentDisconnected(s)
    BY <2>1, <2>2, <2>8 DEF MarkAgentDisconnected, AgentSettles, InFlight, Offline
  <2> QED
    BY <1>5, <2>2, <2>3, <2>4, <2>5, <2>6, <2>7, <2>8
       DEF Statement, Failure, UpsertDevice, UpsertCompanion, MarkDeviceDisconnected,
           MarkCompanionDisconnected
<1> QED
  BY <1>1, <1>2, <1>3, <1>4, <1>5 DEF Next, Lifecycle

(* For any number of connections: once the handlers of an id are done, and   *)
(* unless they overlapped or failed, the tables say what the registry says.  *)
THEOREM PresenceSettles == Spec => []SettledPresenceAgrees
<1>1. Init /\ TypeOK /\ Ownership /\ Startup => Settling
  BY NullAssumption DEF Init, TypeOK, Settling, HandlersRegistered, EmptyUntilUp,
                        DeviceSettles, AgentSettles
<1>2. Settling /\ Ownership' /\ Startup' /\ [Next]_vars => Settling'
  <2> SUFFICES ASSUME Settling, Ownership', Startup', [Next]_vars PROVE Settling'
    OBVIOUS
  <2>1. TypeOK'
    BY DEF Ownership
  <2>2. HandlersRegistered' /\ EmptyUntilUp'
    BY <2>1, HandlersRegisteredKept
  <2>3. CASE Next
    BY <2>1, <2>2, <2>3, DeviceSettlesKept, AgentSettlesKept DEF Settling
  <2>4. CASE UNCHANGED vars
    <3>1. \A d \in DeviceId \ AgentId : DeviceSettles(d)'
      BY <2>4, DeviceFrame DEF Settling, vars, process, rows, handlers
    <3>2. \A a \in AgentId \ DeviceId : AgentSettles(a)'
      BY <2>4, AgentFrame DEF Settling, vars, process, rows, handlers
    <3> QED
      BY <2>2, <3>1, <3>2 DEF Settling
  <2> QED
    BY <2>3, <2>4
<1>3. Settling => SettledPresenceAgrees
  <2> SUFFICES ASSUME Settling, phase = "up", NEW x \in Id, ~Busy(x), ~racy[x]
               PROVE  /\ x \in DeviceId \ AgentId =>
                           /\ (devRow[x] = "online") = (devices[x] # NoSocket)
                           /\ (agtRow[Companion(x)] = "online") = (devices[x] # NoSocket)
                      /\ x \in AgentId \ DeviceId => (agtRow[x] = "online") = (agents[x] # NoSocket)
    BY DEF SettledPresenceAgrees
  <2>1. \A s \in Socket : (devOf[s] = x \/ agtOf[s] = x) => ~InFlight(s)
    BY DEF Busy, Uses
  <2>2. CASE x \in DeviceId \ AgentId
    BY <2>1, <2>2 DEF Settling, DeviceSettles
  <2>3. CASE x \in AgentId \ DeviceId
    BY <2>1, <2>3 DEF Settling, AgentSettles
  <2> QED
    BY <2>2, <2>3
<1> QED
  BY <1>1, <1>2, <1>3, TypeCorrect, RegistryOwnership, StartupInvariant, PTL DEF Spec

=============================================================================
