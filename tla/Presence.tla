------------------------------ MODULE Presence ------------------------------
(***************************************************************************)
(* Who is online: the backend's in-memory registry of live connections     *)
(* beside the `devices` and `agents` tables that outlive the process.      *)
(*                                                                         *)
(* A message or close handler of the gateway runs without interruption to  *)
(* its first `await`; every statement it awaits is a step of its own.      *)
(* The statements of different handlers run on different connections of    *)
(* the pool, so they take effect in any order.  The activity row and the   *)
(* snapshot broadcast that end every handler change none of this state     *)
(* and are left out.                                                       *)
(***************************************************************************)
EXTENDS Integers

CONSTANTS Socket,     \* websocket connections, each used once
          DeviceId,   \* ids that register with device.register
          AgentId,    \* ids that register with agent.register; an id in both
                      \* sets is a desktop app, which registers as both on
                      \* one connection
          NoSocket,   \* "the registry has no such entry"
          NoId,       \* "not registered"
          StatementsFail, \* may a statement fail
          MaxCrashes  \* bound: how often the backend process may die

ASSUME BoundsAssumption == MaxCrashes \in Nat /\ StatementsFail \in BOOLEAN
ASSUME NullAssumption == NoSocket \notin Socket /\ NoId \notin DeviceId \cup AgentId

VARIABLES
  phase,     \* the process: down, reconciling "devices" then "agents", or up
  crashes,   \* process deaths so far
  sock,      \* readyState of each connection, "idle" before it is opened
  devOf,     \* the id a connection registered with device.register
  agtOf,     \* the id a connection registered with agent.register
  devices,   \* DeviceRegistry.devices: id -> the connection it is reached by
  agents,    \* DeviceRegistry.agents
  devRow,    \* devices.status in the database
  agtRow,    \* agents.status in the database, companion rows included
  regDev,    \* device.register handler: the statement it runs next
  regAgt,    \* agent.register handler: the statement it runs next
  beat,      \* heartbeat handler: the statement it runs next
  gone,      \* close handler: the statement it runs next
  racy       \* history: an id two of whose handlers overlapped, or one of
             \* whose handlers failed, since it was last written cleanly

handlers == <<regDev, regAgt, beat, gone>>
rows == <<devRow, agtRow>>
process == <<phase, crashes>>
vars == <<process, sock, devOf, agtOf, devices, agents, rows, handlers, racy>>

Id == DeviceId \cup AgentId
Companion(d) == <<d, "agent">>

(* No agent is given the id of a companion ("<deviceId>-agent"). *)
ASSUME CompanionAssumption == \A d \in DeviceId : Companion(d) \notin AgentId

AgentRowId == AgentId \cup {Companion(d) : d \in DeviceId}
RowStatus == {"absent", "online", "offline"}

TypeOK ==
  /\ phase \in {"down", "devices", "agents", "up"}
  /\ crashes \in 0..MaxCrashes
  /\ sock \in [Socket -> {"idle", "open", "closing", "closed"}]
  /\ devOf \in [Socket -> DeviceId \cup {NoId}]
  /\ agtOf \in [Socket -> AgentId \cup {NoId}]
  /\ devices \in [DeviceId -> Socket \cup {NoSocket}]
  /\ agents \in [AgentId -> Socket \cup {NoSocket}]
  /\ devRow \in [DeviceId -> RowStatus]
  /\ agtRow \in [AgentRowId -> RowStatus]
  /\ regDev \in [Socket -> {"idle", "device", "companion"}]
  /\ regAgt \in [Socket -> {"idle", "agent"}]
  /\ beat \in [Socket -> {"idle", "devices", "agents"}]
  /\ gone \in [Socket -> {"idle", "device", "companion", "agent"}]
  /\ racy \in [Id -> BOOLEAN]

Init ==
  /\ phase = "down"
  /\ crashes = 0
  /\ sock = [s \in Socket |-> "idle"]
  /\ devOf = [s \in Socket |-> NoId]
  /\ agtOf = [s \in Socket |-> NoId]
  /\ devices = [d \in DeviceId |-> NoSocket]
  /\ agents = [a \in AgentId |-> NoSocket]
  /\ devRow = [d \in DeviceId |-> "absent"]
  /\ agtRow = [a \in AgentRowId |-> "absent"]
  /\ regDev = [s \in Socket |-> "idle"]
  /\ regAgt = [s \in Socket |-> "idle"]
  /\ beat = [s \in Socket |-> "idle"]
  /\ gone = [s \in Socket |-> "idle"]
  /\ racy = [x \in Id |-> FALSE]

-----------------------------------------------------------------------------
(* A handler is in flight while a statement of it is outstanding. *)
InFlight(s) ==
  regDev[s] # "idle" \/ regAgt[s] # "idle" \/ beat[s] # "idle" \/ gone[s] # "idle"

Uses(s, x) == devOf[s] = x \/ agtOf[s] = x
Busy(x) == \E s \in Socket : Uses(s, x) /\ InFlight(s)

(* The socket accepts messages until its close event, the ones sent before *)
(* the peer saw the close frame included.                                  *)
Readable(s) == phase = "up" /\ sock[s] \in {"open", "closing"}

Online(status) == IF status = "absent" THEN "absent" ELSE "online"
Offline(status) == IF status = "absent" THEN "absent" ELSE "offline"

(* Mutant: the superseded connection is left open. *)
KeepExistingSocket(held) == sock' = sock

(* dropExistingSocket: close(1000, "superseded") if the id is held by an OPEN one. *)
DropExistingSocket(held) ==
  sock' = [s \in Socket |-> IF s = held /\ sock[s] = "open" THEN "closing" ELSE sock[s]]

-----------------------------------------------------------------------------
(* Startup: two UPDATE statements, then the gateway listens. *)
Boot ==
  /\ phase = "down"
  /\ phase' = "devices"
  /\ UNCHANGED <<crashes, sock, devOf, agtOf, devices, agents, rows, handlers, racy>>

ReconcileDevices ==
  /\ phase = "devices"
  /\ phase' = "agents"
  /\ devRow' = [d \in DeviceId |-> Offline(devRow[d])]
  /\ UNCHANGED <<crashes, sock, devOf, agtOf, devices, agents, agtRow, handlers, racy>>

(* Mutant: only the devices table is reconciled. *)
ReconcileAgentsSkipped ==
  /\ phase = "agents"
  /\ phase' = "up"
  /\ racy' = [x \in Id |-> FALSE]
  /\ UNCHANGED <<crashes, sock, devOf, agtOf, devices, agents, rows, handlers>>

ReconcileAgents ==
  /\ phase = "agents"
  /\ phase' = "up"
  /\ agtRow' = [a \in AgentRowId |-> Offline(agtRow[a])]
  /\ racy' = [x \in Id |-> FALSE]
  /\ UNCHANGED <<crashes, sock, devOf, agtOf, devices, agents, devRow, handlers>>

(* The process dies: registry, connections and handlers go with it. *)
Crash ==
  /\ phase # "down"
  /\ crashes < MaxCrashes
  /\ crashes' = crashes + 1
  /\ phase' = "down"
  /\ sock' = [s \in Socket |-> IF sock[s] = "idle" THEN "idle" ELSE "closed"]
  /\ devices' = [d \in DeviceId |-> NoSocket]
  /\ agents' = [a \in AgentId |-> NoSocket]
  /\ regDev' = [s \in Socket |-> "idle"]
  /\ regAgt' = [s \in Socket |-> "idle"]
  /\ beat' = [s \in Socket |-> "idle"]
  /\ gone' = [s \in Socket |-> "idle"]
  /\ UNCHANGED <<devOf, agtOf, rows, racy>>

Connect(s) ==
  /\ phase = "up"
  /\ sock[s] = "idle"
  /\ sock' = [sock EXCEPT ![s] = "open"]
  /\ UNCHANGED <<process, devOf, agtOf, devices, agents, rows, handlers, racy>>

-----------------------------------------------------------------------------
(* device.register: the registry at once, then the two upserts. *)
DeviceRegister(s, d) ==
  /\ Readable(s)
  /\ devOf[s] = NoId /\ agtOf[s] = NoId
  /\ devOf' = [devOf EXCEPT ![s] = d]
  /\ DropExistingSocket(devices[d])
  /\ devices' = [devices EXCEPT ![d] = s]
  /\ regDev' = [regDev EXCEPT ![s] = "device"]
  /\ racy' = [racy EXCEPT ![d] = Busy(d)]
  /\ UNCHANGED <<process, agtOf, agents, rows, regAgt, beat, gone>>

UpsertDevice(s) ==
  /\ regDev[s] = "device"
  /\ devRow' = [devRow EXCEPT ![devOf[s]] = "online"]
  /\ regDev' = [regDev EXCEPT ![s] = "companion"]
  /\ UNCHANGED <<process, sock, devOf, agtOf, devices, agents, agtRow, regAgt, beat, gone, racy>>

UpsertCompanion(s) ==
  /\ regDev[s] = "companion"
  /\ agtRow' = [agtRow EXCEPT ![Companion(devOf[s])] = "online"]
  /\ regDev' = [regDev EXCEPT ![s] = "idle"]
  /\ UNCHANGED <<process, sock, devOf, agtOf, devices, agents, devRow, regAgt, beat, gone, racy>>

(* agent.register.  A desktop app sends it after device.register, with the same id. *)
AgentRegister(s, a) ==
  /\ Readable(s)
  /\ agtOf[s] = NoId
  /\ devOf[s] = IF a \in DeviceId THEN a ELSE NoId
  /\ agtOf' = [agtOf EXCEPT ![s] = a]
  /\ DropExistingSocket(agents[a])
  /\ agents' = [agents EXCEPT ![a] = s]
  /\ regAgt' = [regAgt EXCEPT ![s] = "agent"]
  /\ racy' = [racy EXCEPT ![a] = Busy(a)]
  /\ UNCHANGED <<process, devOf, devices, rows, regDev, beat, gone>>

(* Mutant: a status that is none of ConnectionStatus is written. *)
UpsertAgentBadStatus(s) ==
  /\ regAgt[s] = "agent"
  /\ agtRow' = [agtRow EXCEPT ![agtOf[s]] = "connected"]
  /\ regAgt' = [regAgt EXCEPT ![s] = "idle"]
  /\ UNCHANGED <<process, sock, devOf, agtOf, devices, agents, devRow, regDev, beat, gone, racy>>

UpsertAgent(s) ==
  /\ regAgt[s] = "agent"
  /\ agtRow' = [agtRow EXCEPT ![agtOf[s]] = "online"]
  /\ regAgt' = [regAgt EXCEPT ![s] = "idle"]
  /\ UNCHANGED <<process, sock, devOf, agtOf, devices, agents, devRow, regDev, beat, gone, racy>>

(* heartbeat, sent by agents only: UPDATE devices, then agents if no row matched. *)
(* Bound: one heartbeat of a connection in flight (they are 15 s apart).          *)
Heartbeat(s) ==
  /\ Readable(s)
  /\ agtOf[s] # NoId
  /\ beat[s] = "idle"
  /\ beat' = [beat EXCEPT ![s] = "devices"]
  /\ LET a == agtOf[s] IN
     racy' = [racy EXCEPT ![a] = racy[a] \/ Busy(a) \/ agents[a] # s]
  /\ UNCHANGED <<process, sock, devOf, agtOf, devices, agents, rows, regDev, regAgt, gone>>

BeatDevices(s) ==
  /\ beat[s] = "devices"
  /\ LET a == agtOf[s]
         matched == a \in DeviceId /\ devRow[a] # "absent"
     IN  /\ devRow' = [d \in DeviceId |-> IF d = a THEN Online(devRow[d]) ELSE devRow[d]]
         /\ beat' = [beat EXCEPT ![s] = IF matched THEN "idle" ELSE "agents"]
  /\ UNCHANGED <<process, sock, devOf, agtOf, devices, agents, agtRow, regDev, regAgt, gone, racy>>

BeatAgents(s) ==
  /\ beat[s] = "agents"
  /\ agtRow' = [agtRow EXCEPT ![agtOf[s]] = Online(@)]
  /\ beat' = [beat EXCEPT ![s] = "idle"]
  /\ UNCHANGED <<process, sock, devOf, agtOf, devices, agents, devRow, regDev, regAgt, gone, racy>>

-----------------------------------------------------------------------------
(* Mutant: only the device entries are searched. *)
UnregisterDeviceOnly(s) ==
  \/ \E d \in DeviceId :
       /\ devices[d] = s
       /\ devices' = [devices EXCEPT ![d] = NoSocket]
       /\ gone' = [gone EXCEPT ![s] = "device"]
       /\ racy' = [racy EXCEPT ![d] = Busy(d)]
       /\ UNCHANGED agents
  \/ /\ \A d \in DeviceId : devices[d] # s
     /\ UNCHANGED <<devices, agents, gone, racy>>

(* Mutant: the entry is looked up by the id the connection registered. *)
UnregisterById(s) ==
  /\ devices' = [d \in DeviceId |-> IF d = devOf[s] THEN NoSocket ELSE devices[d]]
  /\ agents' = [a \in AgentId |-> IF a = agtOf[s] THEN NoSocket ELSE agents[a]]
  /\ gone' = [gone EXCEPT ![s] = IF devOf[s] # NoId THEN "device"
                                  ELSE IF agtOf[s] # NoId THEN "agent" ELSE "idle"]
  /\ racy' = [x \in Id |-> IF Uses(s, x) THEN Busy(x) ELSE racy[x]]

(* unregisterSocket: the first entry held by s goes, a device entry before  *)
(* an agent entry, and only that one.                                       *)
UnregisterSocket(s) ==
  \/ \E d \in DeviceId :
       /\ devices[d] = s
       /\ devices' = [devices EXCEPT ![d] = NoSocket]
       /\ gone' = [gone EXCEPT ![s] = "device"]
       /\ racy' = [racy EXCEPT ![d] = Busy(d)]
       /\ UNCHANGED agents
  \/ \E a \in AgentId :
       /\ \A d \in DeviceId : devices[d] # s
       /\ agents[a] = s
       /\ agents' = [agents EXCEPT ![a] = NoSocket]
       /\ gone' = [gone EXCEPT ![s] = "agent"]
       /\ racy' = [racy EXCEPT ![a] = Busy(a)]
       /\ UNCHANGED devices
  \/ /\ \A d \in DeviceId : devices[d] # s
     /\ \A a \in AgentId : agents[a] # s
     /\ UNCHANGED <<devices, agents, gone, racy>>

(* The close event: the peer left, or the superseded socket finished closing. *)
Close(s) ==
  /\ Readable(s)
  /\ sock' = [sock EXCEPT ![s] = "closed"]
  /\ UnregisterSocket(s)
  /\ UNCHANGED <<process, devOf, agtOf, rows, regDev, regAgt, beat>>

(* Mutant: the companion of a device that left stays online. *)
MarkDeviceOnly(s) ==
  /\ gone[s] = "device"
  /\ devRow' = [devRow EXCEPT ![devOf[s]] = Offline(@)]
  /\ gone' = [gone EXCEPT ![s] = "idle"]
  /\ UNCHANGED <<process, sock, devOf, agtOf, devices, agents, agtRow, regDev, regAgt, beat, racy>>

MarkDeviceDisconnected(s) ==
  /\ gone[s] = "device"
  /\ devRow' = [devRow EXCEPT ![devOf[s]] = Offline(@)]
  /\ gone' = [gone EXCEPT ![s] = "companion"]
  /\ UNCHANGED <<process, sock, devOf, agtOf, devices, agents, agtRow, regDev, regAgt, beat, racy>>

MarkCompanionDisconnected(s) ==
  /\ gone[s] = "companion"
  /\ agtRow' = [agtRow EXCEPT ![Companion(devOf[s])] = Offline(@)]
  /\ gone' = [gone EXCEPT ![s] = "idle"]
  /\ UNCHANGED <<process, sock, devOf, agtOf, devices, agents, devRow, regDev, regAgt, beat, racy>>

MarkAgentDisconnected(s) ==
  /\ gone[s] = "agent"
  /\ agtRow' = [agtRow EXCEPT ![agtOf[s]] = Offline(@)]
  /\ gone' = [gone EXCEPT ![s] = "idle"]
  /\ UNCHANGED <<process, sock, devOf, agtOf, devices, agents, devRow, regDev, regAgt, beat, racy>>

-----------------------------------------------------------------------------
(* A statement fails: the handler's promise rejects, the gateway answers with *)
(* an error (or, for a close, only logs it) and nothing retries.              *)
RegisterFails(s) ==
  /\ regDev[s] # "idle" \/ regAgt[s] # "idle"
  /\ \/ /\ regDev[s] # "idle"
        /\ regDev' = [regDev EXCEPT ![s] = "idle"]
        /\ racy' = [racy EXCEPT ![devOf[s]] = TRUE]
        /\ UNCHANGED regAgt
     \/ /\ regAgt[s] # "idle"
        /\ regAgt' = [regAgt EXCEPT ![s] = "idle"]
        /\ racy' = [racy EXCEPT ![agtOf[s]] = TRUE]
        /\ UNCHANGED regDev
  /\ UNCHANGED <<process, sock, devOf, agtOf, devices, agents, rows, beat, gone>>

BeatFails(s) ==
  /\ beat[s] # "idle"
  /\ beat' = [beat EXCEPT ![s] = "idle"]
  /\ UNCHANGED <<process, sock, devOf, agtOf, devices, agents, rows, regDev, regAgt, gone, racy>>

CloseFails(s) ==
  /\ gone[s] # "idle"
  /\ gone' = [gone EXCEPT ![s] = "idle"]
  /\ racy' = [racy EXCEPT ![IF gone[s] = "agent" THEN agtOf[s] ELSE devOf[s]] = TRUE]
  /\ UNCHANGED <<process, sock, devOf, agtOf, devices, agents, rows, regDev, regAgt, beat>>

-----------------------------------------------------------------------------
Lifecycle == Boot \/ ReconcileDevices \/ ReconcileAgents

Client(s) ==
  \/ Connect(s)
  \/ \E d \in DeviceId : DeviceRegister(s, d)
  \/ \E a \in AgentId : AgentRegister(s, a)
  \/ Heartbeat(s)
  \/ Close(s)

Statement(s) ==
  \/ UpsertDevice(s) \/ UpsertCompanion(s) \/ UpsertAgent(s)
  \/ BeatDevices(s) \/ BeatAgents(s)
  \/ MarkDeviceDisconnected(s) \/ MarkCompanionDisconnected(s) \/ MarkAgentDisconnected(s)

Failure(s) == StatementsFail /\ (RegisterFails(s) \/ BeatFails(s) \/ CloseFails(s))

Next ==
  \/ Lifecycle
  \/ Crash
  \/ \E s \in Socket : Client(s) \/ Statement(s) \/ Failure(s)

Spec == Init /\ [][Next]_vars

(* docker-compose restarts a dead backend; a statement is answered or fails; ws *)
(* ends a close handshake within its 30 s timeout.  Clients promise nothing.    *)
Fairness ==
  /\ WF_vars(Lifecycle)
  /\ \A s \in Socket : /\ WF_vars(Statement(s) \/ Failure(s))
                       /\ WF_vars(sock[s] = "closing" /\ Close(s))

FairSpec == Spec /\ Fairness

-----------------------------------------------------------------------------
(* What the dashboards are told (listAgents) and what a command can reach     *)
(* (the dispatcher): a companion is reached through its device's connection.  *)
Listed(a) == agtRow[a] = "online" \/ (a \in AgentId /\ agents[a] # NoSocket)

Reachable(a) ==
  \/ a \in AgentId /\ agents[a] # NoSocket
  \/ \E d \in DeviceId : a = Companion(d) /\ devices[d] # NoSocket

(* No entry of the registry outlives its connection: an id is listed as     *)
(* connected only while a socket that has not closed stands behind it.      *)
NoClosedSocketRegistered ==
  /\ \A d \in DeviceId : devices[d] # NoSocket => sock[devices[d]] \in {"open", "closing"}
  /\ \A a \in AgentId : agents[a] # NoSocket => sock[agents[a]] \in {"open", "closing"}

(* The same for every client that registers once on a connection; a desktop *)
(* app registers twice, and its agent entry does outlive the connection.    *)
NoClosedSocketOfSingleClient ==
  /\ \A d \in DeviceId : devices[d] # NoSocket => sock[devices[d]] \in {"open", "closing"}
  /\ \A a \in AgentId \ DeviceId :
       agents[a] # NoSocket => sock[agents[a]] \in {"open", "closing"}

(* At most one connection of an id stays open, and it is the one commands   *)
(* are sent to: every open registered connection is its id's registry entry.*)
OpenConnectionOwnsItsId ==
  \A s \in Socket : sock[s] = "open" =>
    /\ devOf[s] # NoId => devices[devOf[s]] = s
    /\ agtOf[s] # NoId => agents[agtOf[s]] = s

(* Each of the two maps is the registry that Roster describes, whatever the *)
(* other one, the statements behind it and the failures of the process do;  *)
(* a desktop app's forgotten agent entry is one that is removed too late.   *)
Devices == INSTANCE Roster WITH
  Id <- DeviceId, Conn <- Socket, None <- NoSocket, holder <- devices,
  open <- [d \in DeviceId |-> {s \in Socket : sock[s] = "open" /\ devOf[s] = d}]
Agents == INSTANCE Roster WITH
  Id <- AgentId, Conn <- Socket, None <- NoSocket, holder <- agents,
  open <- [a \in AgentId |-> {s \in Socket : sock[s] = "open" /\ agtOf[s] = a}]
RegistryIsARoster == Devices!RosterSpec /\ Agents!RosterSpec

(* The late close of a superseded connection never takes its successor's    *)
(* entry with it: an entry vanishes with its own socket (or the process),   *)
(* and is taken over only from a socket that no longer stays open.          *)
EntryLeavesWithItsSocket ==
  [][/\ \A d \in DeviceId : devices[d] # NoSocket /\ devices'[d] # devices[d] =>
          IF devices'[d] = NoSocket THEN sock'[devices[d]] = "closed"
                                    ELSE sock'[devices[d]] # "open"
     /\ \A a \in AgentId : agents[a] # NoSocket /\ agents'[a] # agents[a] =>
          IF agents'[a] = NoSocket THEN sock'[agents[a]] = "closed"
                                   ELSE sock'[agents[a]] # "open"]_vars

(* Once the handlers of an id are done, the tables and the registry agree   *)
(* on whether it is online -- unless two of them overlapped or one failed   *)
(* since the id was last written, which is what racy records.  The          *)
(* companion row follows its device, and what is listed can be reached.     *)
SettledPresenceAgrees ==
  phase = "up" => \A x \in Id : ~Busy(x) /\ ~racy[x] =>
    /\ x \in DeviceId \ AgentId =>
         /\ (devRow[x] = "online") = (devices[x] # NoSocket)
         /\ (agtRow[Companion(x)] = "online") = (devices[x] # NoSocket)
    /\ x \in AgentId \ DeviceId => (agtRow[x] = "online") = (agents[x] # NoSocket)

(* The dashboards never keep listing an agent that nothing is in flight for *)
(* and that no command can reach: the realtime state the README promises.   *)
NoGhostAgent ==
  phase = "up" =>
    /\ \A a \in AgentId : ~Busy(a) /\ Listed(a) => Reachable(a)
    /\ \A d \in DeviceId : ~Busy(d) /\ Listed(Companion(d)) => Reachable(Companion(d))

(* A restarted backend listens only when no row claims a connection of an   *)
(* earlier life, wherever in its handlers or its startup that life ended.   *)
ListensWithNobodyOnline ==
  [][phase # "up" /\ phase' = "up" =>
       /\ \A d \in DeviceId : devRow'[d] # "online"
       /\ \A a \in AgentRowId : agtRow'[a] # "online"]_vars

(* A lost connection of a client that registers once is eventually written  *)
(* down, by its close handler or by the startup of the next process, unless *)
(* the id is back or racy.                                                  *)
DisconnectIsRecorded ==
  /\ \A d \in DeviceId \ AgentId :
       devices[d] = NoSocket ~>
         racy[d] \/ devices[d] # NoSocket \/
           (devRow[d] # "online" /\ agtRow[Companion(d)] # "online")
  /\ \A a \in AgentId \ DeviceId :
       agents[a] = NoSocket ~> racy[a] \/ agents[a] # NoSocket \/ agtRow[a] # "online"

=============================================================================
