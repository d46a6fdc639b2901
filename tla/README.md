# R.A.I.K.O in TLA+

R.A.I.K.O lets a phone or a desktop app control Windows PCs through a backend:
clients and agents keep WebSockets to it, commands travel over them, everything
is recorded in PostgreSQL, and every dashboard is told what changed. This
directory holds TLA+ models of the parts of that system where the order of
events matters, the TLC configurations that check them on small instances, and
proofs, checked by TLAPS, that the central properties hold for any number of
sockets, clients, commands, PCs and processes. Paths below are relative to the
repository.

Contents: [1 The system](#1-the-system) ·
[2 Modules and code](#2-modules-and-code) ·
[3 Runs](#3-runs) ·
[4 Fairness](#4-fairness) ·
[5 Proofs](#5-proofs) ·
[6 Where code and documents disagree](#6-where-code-and-documents-disagree) ·
[7 What is not modelled](#7-what-is-not-modelled) ·
[8 Plan](#8-plan)

To repeat a result: `tlc -config Presence.cfg Presence.tla` (the module of each
run is in the table of section 3), `tlapm PresenceProofs.tla`.

## 1 The system

### Components, their state and their operations

| Component | State | Operations | What makes it correct |
|---|---|---|---|
| Device registry and devices module (`apps/backend/src/modules/devices`) | in memory: id -> live socket, for devices and for agents; tables `devices`, `agents` | register (superseding the connection that had the id), heartbeat, close, reconcile at startup, list | an open connection is its id's only one; entries go with their socket; the tables agree with the registry once handlers are done; a restarted backend starts with nobody online |
| Gateway (`server/websocket-gateway.ts`) | none of its own; one handler per message, interleaved at every `await` | `device.register`, `agent.register`, `heartbeat`, `command.send`, `command.result`, close; broadcast of snapshots | every change reaches every dashboard; none stays wrong for good |
| Commands (`modules/commands`, `network/wol-sender.ts`) | tables `commands`, `command_results` | store, dispatch to an agent's or a device's socket, wake-up, answer the sender, record a result in a transaction | the history is true and never half-written; the sender is told the truth; a pending command has a reason |
| Database (`database/database.ts`) | `schema_migrations` and the schema | query, transaction, migrate, ensureReady | the history of migrations is true; a backend serves only on a database that went through all of its files |
| Mobile connection (`apps/mobile/lib/src/core/network/raiko_ws_client.dart`) | `_socket`, `isConnecting`, `isConnected`, `_reconnectTimer`, `_autoReconnect` | start, connect, reconnect, disconnect, onDone / onError, retry | no leaked socket; "connected" is true; an attempt ends; a loss is retried |
| Mobile lists (same file, `raiko_api_client.dart`) | devices, agents, activity, commands | apply a snapshot, load the overview over HTTP | show what the backend has |
| Choice of the target PC (both apps' `raiko_ws_client.dart`, `home_tab.dart`, `voice_relay_modal.dart`, `raiko_voice_engine.dart:138-230`) | the list of agents, `selectedAgentId`, an open dropdown, a sentence the backend is asked about | apply a list, pick from the menu, press a button, act on an intent | a command goes to the PC the user meant, however the list changes meanwhile |
| Intent parser (`modules/intent/intent-parser.ts`) | none | a sentence and a list of agents to a command and a target | a sentence that names one PC means that PC |
| Agents (`apps/agent-windows`, `tools/standalone-agent.mjs`) | one socket, a heartbeat interval, a reconnect timeout | connect, register, heartbeat, execute, report, reconnect | never stranded, never doubled |
| Desktop app (`apps/desktop/lib/src/core/network/raiko_ws_client.dart`) | `_socket`, `isConnected` | connect, disconnect, callbacks; registers as a device and as an agent | "connected" is true |
| Voice relay (`apps/mobile/lib/src/core/voice`, `features/voice`) | `state`, `_initialized`, the recorder's flag and words, an audio player | activate, type, remote desktop, initialize, play a response | the modal never shows work that is not there; the microphone is given back; nothing hangs |
| Piper synthesis, authorization | none, or a temporary file | one request each | — |
| Settings, users, automation, activity | tables | single statements | — |
| Screens, themes, platform runners, installers, containers | — | presentation and packaging | — |

### How they interact, and what is hard about it

* **Handlers interleave.** The gateway does not wait for one message before it
  takes the next. A handler runs undisturbed to its first `await`; from then on
  its statements, which run on different connections of the pool, take effect
  in any order relative to those of other handlers — also of the *same* client.
  A registration's upsert may follow the update of the close that came after it.
* **Two kinds of truth.** The registry dies with the process, the tables do not;
  what dashboards are shown is a merge of both.
* **Sockets outlive their use.** A superseded or abandoned socket still delivers
  its last messages and its close event, after its successor has been installed.
  Backend, phone and desktop each have to tell old from new, and each does it in
  its own way (by socket, by `identical`, not at all).
* **Messages go into the void.** `ws` drops what is sent on a closing socket and
  reports nothing; a dispatched command, its result, or a snapshot may vanish.
* **Processes die** at any statement; docker restarts the backend, and several
  processes (backends, `npm run migrate`) may migrate one database at once.
* **Ids are shared.** Agents left at their default configuration are all
  `agent-win-01` (`apps/agent-windows/src/config.ts:37`), all desktop apps are
  `desktop-windows-01`: programs with one id supersede each other, and agents
  reconnect for ever.
* **Shared variables of coroutines.** `isConnecting` on the phone and `state` in
  the voice engine gate what the user can do; every coroutine that sets them has
  to reset them on every path.

* **Lists change under what refers to them.** A selected agent, an open menu and
  a sentence whose meaning the backend is working out all outlive the list they
  were made from; the next list may have the agents in another order, or not at
  all.

The hazards that follow from this are listed, at their lines, in
`PROJECT.json` under "hazards", each with the properties that would catch it or
a note why none does.

## 2 Modules and code

| Module | Models | Proofs |
|---|---|---|
| `Presence` | registry, device tables, startup reconciliation | `PresenceProofs` |
| `Commands` (instances in `MCCommands`) | the life of a command | `CommandsProofs` |
| `CommandLog` | abstract: what the command history promises, and what is left of it for a shared id; implemented by `Commands` | in `CommandsProofs` |
| `Roster` | abstract: what a registry of connections promises to those who send through it; implemented by the registry of `Presence` (as devices and as agents) and by that of `PcClients` | in `PresenceProofs`, `PcClientsProofs` |
| `MobileClient` | the phone's connection | `MobileClientProofs` |
| `PcClients` | agents and desktop apps with the registry between them | `PcClientsProofs` |
| `Snapshots` | broadcasts and the dashboards' lists | `SnapshotsProofs` |
| `Intent` | the rules of the intent parser | in `SelectionProofs` |
| `Selection` (instance in `MCSelection`), extends `Intent` | which PC a command goes to: lists, menu, voice | `SelectionProofs` |
| `VoiceEngine` | the voice relay's coroutines | `VoiceEngineProofs` |
| `Startup` (instance in `MCStartup`) | migrations and the way to serving | `StartupProofs` |
| `Ledger` | abstract: what migrations promise, as if one process at a time carried out one file; implemented by `Startup` | in `StartupProofs` |

The modules meet at their edges. `Presence` decides which connection an id has;
`Commands` takes that as the state of a link (none, open, closing) and lets the
row, which `Presence` writes at times of its own, say online or not where it is
read: every change `Presence` makes of an id's connection is `Attach`,
`StartClosing`, `DropLink` or two of them. `PcClients` drives the same
registry from the clients' side, and both are shown to implement the same
`Roster`, so that what either says of ids rests on one contract. `Snapshots` takes registry, rows and history as
three version numbers, changed at the points where handlers of `Presence` and
`Commands` change them; its fairness of heartbeats is what `PcClients` shows of
agents. `Selection` takes the lists as they come, which is more than `Snapshots`
lets happen, and the moments at which a voice flow asks and is answered, which
are two awaits of `VoiceEngine`; what it sends becomes a `Request` of
`Commands`. `Presence` relies on `Startup` for a database it may use.

**Presence.** One action for the synchronous part of each handler
(`DeviceRegister`, `AgentRegister`, `Heartbeat`, `Close`) and one for each
statement it awaits (`UpsertDevice`, `UpsertCompanion`, `MarkAgentDisconnected`,
...). `regDev`, `regAgt`, `beat` and `gone` are the handlers' program counters
per socket. `UnregisterSocket` is the loop of `unregisterSocket`, which removes
the first entry it finds. `Crash` empties the memory and keeps the tables;
`ReconcileDevices` and `ReconcileAgents` are `reconcileStartupState`. `racy` is a
history variable: it marks an id two of whose handlers overlapped, or one of
whose statements failed, since its rows were last written cleanly. Left out: the
activity rows, timestamps, the `status` field of an entry (clients only ever
send `online`), half-open connections, and statements still running in the
database when the process dies.

**Commands.** `payload` is what a request asks for: an action and a target,
fixed by its sender. `pc` follows the request through `dispatch` (stored,
dispatched, turned down or tried as a wake-up, recorded) to the answer its
sender gets: `accepted`, `rejected`, `refused` (a bad target), `errored` or
nothing because the backend died. `job` follows the message to the agent and
its result back, into the transaction of `recordResult`. An agent refuses an
action it does not know; a `Standalone` agent reports success before a program
it spawned can fail to start (`SpawnErrorUnheard`). A wake-up always ends in a
failure, because `setBroadcast` throws on a socket that has not been bound
(`wol-sender.ts:76`); so nothing of the packet or the 2 s timer is reached. The
UPDATE of that transaction holds the row lock until its
COMMIT (`Locked`). `Lose`, `DropLink` (with or without the death of the agent)
and `Crash` lose what the real ones lose. `Sent` is what becomes of a result when
its program sends it: over an open connection it goes out, over a closing one it
may be dropped, and a `Forgetful` target drops it although the backend holds an
open connection for its id — a desktop app whose `_socket` the late `onDone` of
an older connection has cleared (desktop `raiko_ws_client.dart:201-207, 385-389`),
or an agent superseded by a namesake (`agent-client.ts:118-121`); the result is
then `unsent`. Ids are values of the constant `IdOf`:
the client takes the clock's milliseconds (`TECHNICAL_REPORT.md:269-274`), so
several commands, and results nobody waits for, may have one (`Shared`). The
tables know a command by its id only, and the properties say what a collision
can do to whom. Left out: arguments, outputs, the dry run of the agents.

**MobileClient.** `step` is the `await` at which the one `connect()` coroutine
stands; `idle` is `isConnecting = false`. Timer, user and callbacks of old
sockets run in between. Time is abstract, so the back-off delay and the attempt
counter are left out, and any acknowledgement completes a registration, as in
the code. A connection that is superseded while it is up is not modelled.

**PcClients.** `retries[a]` counts the armed `setTimeout`s of an agent, so that
"exactly one" is a theorem and not an assumption; a socket is assigned when the
agent dials. A desktop app's `connect()` leaves no trace before its `await`, so
it may dial several times, and its callbacks act on `_socket` whichever socket
they belong to. Registrations arrive at the backend in any order. The two ends
of a connection notice its end separately: `Closed` is the program's callback,
after which the registry may still have the socket (`left`), and `Forget` is the
backend's `close`, which may come before, after, or not at all.

**Snapshots.** A handler writes, tracks, then reads: the registry at once, the
tables by statements of their own. The order in which two handlers broadcast is
free. A heartbeat writes the status too (`devices.repository.ts:185-206`): one
that finds its row marked offline changes what dashboards are to be shown
(`BeatRevives`), the others change only times (`StoreNothingNew`). `wire` is the FIFO of each dashboard; `overview` is the HTTP answer that
overwrites all lists when it arrives. `shown` is a history variable: the sources
whose present version a dashboard has been sent. Left out: the activity list
(it travels like the history), the selected agent (`Selection`), the
`command.result` message, `lastSeenAt`, superseded connections and crashes.

**Intent.** A sentence is a model value; what the parser's rules look at in it
are the constants: the commands with a keyword in it (`Keywords`), whether a
keyword of `set_name` is (`Naming`), the names it contains (`Named`) and those
whose first three letters begin one of its words (`Alike`). The operators are
the rules over these, in the order of the code: `set_name` first, then the first
pattern, and the first agent *of the list* that sounds right, else `all`.

**Selection.** One module for both apps (`app`), which treat a list without the
selected agent alike and an empty one differently. `menu` is the set of agents
an open dropdown was opened with; `asked` holds the sentence of each voice flow
and the list it was sent with, and the answer is used against the list of the
moment it arrives (`Targets`). `sent` is the command of the step. `chosen` and
`missed` are history variables: the agent last picked, and whether a list
without it was shown since. Names are model values; `Within` says which names
contain which.

**VoiceEngine.** `flow` and `play` are the awaits of the coroutines that use the
engine and of `_playResponse`, which most callers do not await; `owner` says who
does. Each `initialize()` makes a new recorder and a new player, which running
coroutines may or may not see. Left out: what is said and to whom (`Selection`)
and the words of the responses; the wake word, whose detection is not wired to
`activate()`; `dispose()` and overlapping calls of `initialize()`.

**Startup.** A migration is a file: its name, by which `schema_migrations` knows
it and the files are sorted (here the name's rank among all names), and the
checksum of its text. The number that a name begins with means nothing to the
code, so two checkouts may have different files of one number, and both are
carried out. `applied` is `schema_migrations`, `schema` the files the database
really went through, in order, `open` the processes inside a transaction, `todo`
the list a process computed before its transactions. What SQL does is given by
two relations on texts: `Conflict`, whose statements want a table in common and
wait for each other (`Waits`), and `Clash`, whose second fails after the first
(`Clashing`: "column already exists"). Transactions that share no table run side
by side; only an equal file name makes them wait at the primary key (`Record`).

`PROJECT.json` maps every definition to its lines.

## 3 Runs

Twelve configurations; the first eight must pass, the other four must fail in
the way described in section 6.

| Run | Module | Instance | States | Question |
|---|---|---|---|---|
| `Presence` | `Presence` | 2 sockets; a phone, a PC, a desktop app that is both; statements fail; 1 crash | 398 000 | Does the registry hold the right sockets, and do the tables follow? |
| `Commands` | `MCCommands` | a request that is a wake-up or a command for a Windows or a standalone agent, one for a phone's companion (an action the gateway may refuse), a stray result with the id of the second; a desktop target that may drop a result; crashes, losses, failures | 477 000 | Is the history true, and a log? Is the sender told the truth? Why may a command stay pending? |
| `MobileConnection` | `MobileClient` | 4 sockets, 2 outages | 1 634 | Are sockets leaked, losses forgotten, attempts left open? |
| `PcClients` | `PcClients` | 2 agents with one id, a desktop app, 3 sockets each side, 2 outages | 555 000 | Are agents ever stranded or doubled? Do they come back? Is "connected" true? |
| `SnapshotsHeal` | `Snapshots` | a dashboard, 2 overlapping handlers, 2 messages or heartbeats that change something, any number of others, 1 failing statement, 1 overview request | 1 904 000 | Is every change shown? Is a wrong view put right? |
| `Selection` | `MCSelection` | 3 PCs, one named inside another's name, every list of them in every order, 6 sentences, 1 voice flow, both apps | 489 000 | Does a command go to the PC that was meant? |
| `VoiceRelay` | `VoiceEngine` | 2 flows, 2 playbacks, 2 initializations | 522 000 | Does the modal tell the truth, is the microphone released, does anything hang? |
| `Startup` | `MCStartup` | 3 releases, two of them with different files of one number, a migration from a shell with both, one edited; 2 deaths | 150 000 | Do migrations act as if one process carried out one file at a time; do backends come to serve? |
| `PresenceDesktopDead` | `Presence` | a desktop app | | section 6.1 |
| `PresenceGhost` | `Presence` | a PC | | section 6.2 |
| `CommandsWakeOffline` | `MCCommands` | a wake-up | | section 6.3 |
| `MobileGivesUp` | `MobileClient` | as above | | section 6.4 |

### What the properties say

`PROJECT.json` names, for each hazard, the properties that would catch it, or why
none does. What a property deliberately permits is said here.

*Presence.* `NoClosedSocketOfSingleClient`: no entry outlives its socket, for
clients that register once. `RegistryIsARoster`: each of the two maps, beside
the connections that are open and registered, implements `Roster` — an id is
held by the connection that registered it last and by no other open one, a
connection registers once, and an entry goes only when no open connection of its
id is left. `EntryLeavesWithItsSocket`
(action): an entry vanishes only with its own socket, and is taken over only
from one that is no longer open — the late close of a superseded connection
harms nobody. `SettledPresenceAgrees`: with no handler of an id in flight, and
unless its handlers overlapped or failed, row and registry agree; what an
overlap does is finding 6.2, and a failed statement leaves whatever the others
wrote.
`ListensWithNobodyOnline` (action): whatever statement the process died at, the
next one listens with no row online. `DisconnectIsRecorded` (liveness): a lost
connection is eventually written down, across a crash.

*Commands.* `StatusMatchesResult`: no verdict without the same result; where an
id is reused, the old result stays beside the new "pending".
`AnswersAreTrue`: a sender told "rejected" finds its command failed, unless a
namesake wrote over that, and no agent runs it; one told "accepted" had it
handed to its target's socket. `OwnResultsAreKnown`: no agent is so fast that its
result finds no command, and no collision makes it so.
`SuccessWasExecuted`: a success is the claim of a report with that id, whose
request was executed, unless a phone's companion, a standalone agent or nobody's
command reports it: the first executes nothing, the second does not hear
that its program failed to start. Two commands of one id may take each other's
verdict, but none that no agent gave. `HistoryIsALog`: `Commands` refines
`CommandLog` — a command appears pending, settles once, with status and result
together; an entry of a shared id may be reopened, and no other entry notices.
`PendingIsExplained`: at every moment a pending row is somebody's to settle —
a handler's, an agent's, a message's — or that somebody is known to be gone, or
to have dropped the result.
`PendingHasACause` (liveness): a command settles unless a connection or agent
was lost, a statement failed, the backend died, or its target dropped the result
over a connection it no longer calls its own, be it to a namesake that put the
row they share back to pending. A dropped result needs no loss and no
failure around it: the connection stays open and registered, the command has
been executed, and the history says "pending" for good. A wake-up does settle.

*MobileClient.* `NoLeakedConnection`: every open socket is the one in use, and
"connected" is shown only with one. `ForgetsOnlyClosed` (action): late callbacks
never take the socket in use away. `LossArmsRetry` (action): a loss that is
noticed is followed by a retry, unless the user disconnected; whether that retry
succeeds or is followed by another is `ReconnectsEventually`, which is false
(finding 6.4). `AttemptEnds`
(liveness): no attempt leaves `isConnecting` set for ever.

*PcClients.* `OneConnectionOrRetry`: an agent has one armed timeout or one socket,
the one it sends through, and its interval lasts exactly as long as its
connection. `RegistryIsARoster`: the registry implements `Roster` here too,
however many programs share an id, whatever the app leaks and an outage breaks.
`ShownIsConnected`: a desktop app that shows "connected" is; one that shows
"disconnected" may well be registered (section 6). `AgentsComeBack`
(liveness): each agent is registered again and again, two with one id included.

*Snapshots.* `EveryChangeShown`: with nothing failed and nothing under way, each
registered dashboard has been sent the last version of everything — which holds
only because each handler, that of a heartbeat included, broadcasts after its
last write. `HeartbeatHeals`
(liveness): with an agent online, every dashboard ends up right, whatever failed
or overtook what.

*Selection.* `SelectionStays`: the selection leaves the agent the user chose, from
the menu or by voice, only over a list without that agent, and is always an
agent of the list, apart from two cases it names (an agent picked from a menu
that is older than the list, a desktop app with an empty list). So a button
never commands another PC than the chosen one while that one stays listed. Once
it has dropped out of a list the selection is elsewhere and stays there after it
returns, as in the code.
`VoiceHitsNamed` (action): a sentence that names one PC and sounds like no other
commands that PC, with the first command it has a keyword of, whatever was
selected meanwhile and however the list was reordered while the backend worked.
Its precondition is as narrow as the parser makes it: "off" begins like
"Office", so "turn off the workstation" is not a sentence that sounds like one
PC where an Office PC is listed, and shuts the wrong one down (section 6).

*VoiceEngine.* `BusyMeansRunning`: the modal shows work only while a coroutine
runs; the reverse, "idle" over a flow that runs, does happen (section 6).
`MicIsReleased`: every path out of `transcribe()` gives the recorder back.
`FlowsEnd` (liveness): no flow hangs.

*Startup.* `MigrationsAreSerial`: the database and `schema_migrations` change as
in `Ledger` — one file at a time, after every file that comes before it in its
own checkout, no file name twice, recorded in the same step, never undone —
although processes work from lists they made before they took a lock. It does
not say that files of several checkouts stay apart or in order: they do not
(section 6). `ServesOnItsSchema`: a backend serves only on a database that went
through every file it was built with, with its text. `BackendsServe` (liveness):
migrators that collide do not block each other for ever; what keeps a backend
from serving is a file of its own that was applied with another text, or one
that fails on what the database went through.

### Why the bounds are enough

* Two sockets are one supersession; three would be a chain of them, which the
  theorems of `PresenceProofs` cover for any number. The desktop app is in the
  instance because it is the client that has two entries on one socket.
* Two commands of different kinds and a stray result meet in every table and
  lock: the result has the id of one command, so that both a shared and an
  unshared id are in the instance. One id for all three gives 621 000 states and
  the same results; the theorems cover every other sharing.
* Four sockets of the phone are one in use, one in a dial and two that close
  late, the most that two outages and an impatient user need to reuse one.
* Three sockets for two agents are one more than `OneConnectionOrRetry` says
  their programs can ever hold, for one the registry has yet to forget; three for the app allow a leak, its replacement and the dial
  after it.
* Two handlers are what reordering takes; a third adds only another order of the
  same pairs. The bounds `MaxMessages`, `MaxFailures`, `MaxOverviews` count
  events; of heartbeats only those that change a row are counted: `HeartbeatHeals` speaks of what follows
  once the bounded events are over. `MaxQueued = 0` starts no handler while a
  dashboard has unread messages, so that the version numbers stay small; the
  handlers that have started still overlap, and deliveries overlap with them.
* Three PCs are two whose names can be confused and one that cannot; the lists
  are all 16 there are of them. Six sentences are one per rule of the parser
  that matters to the target. One voice flow suffices for what a flow does to a
  selection; two of them with two PCs and two sentences give 35 000 states and
  the same results, and the theorems hold for any number.
* Two flows and two playbacks are one that is awaited under one that is not;
  three flows would also show the overlap described in section 6.
* Four migrating or serving processes contain every pair of equal, longer and
  different checkouts, among them two with a file of their own between or behind
  the other's (`0002_b`, `0002_e`) and one with another text of the same name.
  `a` is the real first migration, whose statements all say `IF NOT EXISTS` and
  so never clash; `b` fails when it is carried out twice, as the real second one
  does; `e` fails after `b` but not before it, so that both orders and a file
  that can no longer be carried out are in the instance.

`CHECK_DEADLOCK FALSE` is set for `Presence` and `VoiceEngine` only, where the
system may come to rest: clients promise nothing and the instance's sockets are
used up; the voice modal has no control left after an error.

## 4 Fairness

Fairness is stated only for what the code or its surroundings do of themselves.

* The backend and its migrations are restarted: `docker-compose.yml:68`,
  `restart: unless-stopped`. Nobody is obliged to run `npm run migrate`.
* A statement is answered or fails, and the handler goes on or ends.
* A closing WebSocket closes: `ws` ends the handshake after 30 s. A connection
  that stays open promises nothing, and `PcClients` does not even assume that the
  backend notices an end.
* A registration is answered or times out (5 s), a dial succeeds or fails,
  armed timers fire, outages end.
* An agent's heartbeats come every 15 s as long as it is connected; only
  `HeartbeatHeals` uses that.
* A recording ends after its 10 s and 1 s, a request for audio after 30 s, a
  playback after 15 s. Completions of the audio player are *not* assumed.
* Users, and clients as far as they act for users, are under no fairness. Weak
  fairness is enough throughout: no step depends on one that is enabled only now
  and then.

## 5 Proofs

All proofs hold for every value of the constants under the named assumptions of
each module (`NullAssumption`, `RequestAssumption`, `ConnAssumption`,
`PcAssumption`, `SnapshotsAssumption`, `SentenceAssumption`, `AgentAssumption`,
`VoiceAssumption`, `StartupAssumption`: bounds are natural numbers, "no socket"
is not a socket, a list holds an agent once, no PC is called "all", and so on;
`CompanionAssumption`: the row a phone's companion has is no agent's, which
holds as long as no agent is named `<deviceId>-agent`). Nothing is assumed of
command ids.

| Theorem | Establishes | Argument |
|---|---|---|
| `PresenceProofs`: `TypeCorrect`, `RegistryOwnership`, `NoClosedSocket`, `OpenOwns`, `Rosters`, `EntryLeaves`, `ListensClean`, `PresenceSettles` | the safety of the registry, that it implements `Roster` twice over, and its agreement with the tables, for any number of sockets, ids and crashes | `Ownership`: an entry's socket registered that very id, a socket that is open and registered is the entry. `NoClosedSocket` and `OpenOwns` alone are not inductive: closing a socket is harmless only because of *whose* entry it is. In the refinement a registration is `Register`, a close or a crash is `Lose`; that the entry superseded is the only open connection of its id is `Ownership` again. `Startup`: while a process reconciles, the tables it has done have nobody online and no handler exists. `Settling` adds, for an id whose handlers neither overlapped nor failed (`racy`), what the one handler that may be in flight has written so far: a registration holds the entry and owes the row, a close has taken the entry and owes the row, a heartbeat finds both online. That it is *one* handler is part of the invariant |
| `CommandsProofs`: `TypeCorrect`, `StatusAndResultAgree`, `AnswersTrue`, `OwnResultsKnown`, `SuccessIsReal`, `PendingExplained`, `Refinement` | the safety of the history, and that `Commands` implements `CommandLog` | `HistoryInv` ties `pc`, `job`, `outcome`, `ran`, `row` and `result` of a command together, in two layers. `Owned` holds whoever has the same id, because it speaks only of what no namesake can undo: a row once stored is never absent again, a result never taken back. On it rests `Consistent`, which says for an id nobody shares what the row is at each point of the command's life and who may still write it; only there does another command's step leave it alone (`SoleOwner`). `PendingIsExplained` is inductive beside them: who has to settle a row hands that on with each step, and `Owned` says that a handler which dies had not dispatched. In the refinement, `StorePending` is `Accept`, the commits are `Settle`, everything else stutters |
| `MobileClientProofs`: `TypeCorrect`, `NoLeak`, `LateCallbacksHarmless`, `LossIsFollowed` | the phone's connection, for any number of sockets and outages | `ConnInv`: whoever dials has let go of the old socket, and the socket in use is open |
| `PcClientsProofs`: `TypeCorrect`, `NeverStranded`, `IdHasOneConnection`, `Refinement`, `ShownIsTrue` | agents and desktop apps, for any number of each and any sharing of ids, and that their registry implements `Roster` | `PcInv`: a socket belongs to one program of its kind until that has noticed its end, the registry holds no free socket and none under two ids, and an entry's socket registered the id it is entered under unless its program has left it — without this a late close could free a slot the registry still names, and the next registration would close a stranger's socket |
| `SnapshotsProofs`: `TypeCorrect`, `ChangesAreShown` | `EveryChangeShown`, for any number of dashboards, handlers and messages | `NothingSkipped`: as long as nothing failed, the present version of each source has been shown to a registered dashboard, is on its wire, or is going to be read by some handler; a heartbeat that changes a row is such a handler |
| `SelectionProofs`: `TypeCorrect`, `ChoiceStays`, `NamedPcIsCommanded` | the selection and voice commands, for any agents, names, lists, sentences and number of flows | `TypeOK /\ SelectionStays` is inductive. For the voice: `find()` returns a member of the list that matches (`FirstInFinds`); the only name that matches is the PC's, so the answer is that name; and the only listed agent whose name contains it is the PC |
| `VoiceEngineProofs`: `TypeCorrect`, `BusyIsRunning`, `MicReleased` | the modal's state and the microphone, for any number of flows, playbacks and initializations | `Awaiting`: an awaited playback belongs to exactly one flow, which is answering |
| `StartupProofs`: `TypeCorrect`, `HistoryTrue`, `ServesCurrent`, `HistoryKept`, `Refinement` | migrations, for any number of processes, releases and deaths, and that `Startup` implements `Ledger` | `Agreement`: the history lists what the database went through; the files of a migrating process that are not on its list have been carried out, with its text; who is in a transaction is a migrator with a list; a name that is inserted is in no other open transaction and not in the table. From it, a commit is a file of a new name, after all that come before it in its process's checkout (`CommitExtends`): `Apply` of `Ledger`; all else stutters |

Every invariant used was first checked with TLC on the instances above.

**Only model-checked:** liveness (`DisconnectIsRecorded`, `PendingHasACause`,
`AttemptEnds`, `AgentsComeBack`, `HeartbeatHeals`, `FlowsEnd`, `BackendsServe`),
because fairness and ENABLED are beyond the prover. Every invariant and action
property of a passing run is a theorem. No module declares a RECURSIVE operator,
and nothing in the models computes by induction over data.

## 6 Where code and documents disagree

Each of these is a run whose property TLC finds violated.

1. **A desktop app leaves a dead agent behind** (`PresenceDesktopDead`,
   `device-registry.ts:71`). `unregisterSocket` returns after the first map that
   holds the socket; the app registers as device and as agent on one socket, so
   its agent entry stays, online, with a closed socket.
   `device-registry.test.ts:67` expects no entry of a socket that left.
2. **A ghost agent** (`PresenceGhost`, `devices.module.ts:68`). The close of a
   connection is handled while its registration's upsert is outstanding; the
   offline update comes first, the online upsert second and for good.
   `README.md:9` promises realtime online/offline state.
3. **Only online PCs can be woken** (`CommandsWakeOffline`,
   `command-dispatcher.ts:119`). `getOfflineAgent` always returns null, while
   the comment at `:85` and `TECHNICAL_REPORT.md:17` speak of offline PCs.
4. **The phone gives up** (`MobileGivesUp`, mobile `raiko_ws_client.dart:157`).
   A retry that fails schedules no further one. `README.md:287` and
   `docs/STATUS_REPORT.md:89` describe a schedule of retries.

Met while modelling, and not made into runs:

* A command can stay pending although nothing was lost: a desktop app that has
  forgotten its connection (below) executes it and drops the result
  (`raiko_ws_client.dart:385-389`). `PendingHasACause` names this as a reason.
* Two releases with different migrations of one number are both applied, in
  whichever order they come (`database.ts:151, 172, 194` know files by name
  only): the history then mixes two branches, and a file may be carried out
  after one that its checkout does not know. `TECHNICAL_REPORT.md:510` says
  "lexically sorted", which is true of each checkout.
* Old lists can stay on a screen (`devices.module.ts:144`): two handlers read in
  one order and broadcast in the other. `docs/STATUS_REPORT.md:80-82` calls the
  registry the authoritative source, but the rows are merged in again.
  `HeartbeatHeals` shows that this lasts until the next heartbeat of some agent
  — and for good if there is none.
* No PC is ever woken, online or not: `setBroadcast` on a socket that is not
  bound throws `EBADF` (`wol-sender.ts:76`), and the wake-up is recorded as
  failed.
* A standalone agent reports that a program was started before the start can
  fail, and has no listener for the error (`standalone-agent.mjs:111`), which
  ends the process.
* Responses that are spoken without being awaited end by setting the state to
  idle, whatever runs by then (`raiko_voice_engine.dart:190, 309-318`): the modal
  can show that it is ready while a command is being worked out.
* "Turn off the workstation" shuts down the Office PC where one is listed first:
  a word counts as a name when it begins with the name's first three letters
  (`intent-parser.ts:143-145`). A name nobody recognises becomes `all`, which
  goes to the first agent of the list.
* The keyword "im" of `set_name` is part of "immediately" and "time", and is
  tried before the commands: "lock the office pc immediately" renames the phone.
* "Open remote desktop" contains "open", a keyword of the earlier `open_app`;
  only "anydesk" and "remote access" reach `open_remote_desktop`.
* A voice command moves the selection that the buttons of the dashboard use
  (`raiko_voice_engine.dart:190`).
* `disconnect()` during a dial of the phone does not stop it; the dial then
  succeeds and registers (mobile `raiko_ws_client.dart:106`).
* A desktop app whose old socket reports its end late loses the socket in use
  (`raiko_ws_client.dart:206`): it shows "disconnected" while it is registered
  and executes commands whose results it drops. Pressing Connect again
  supersedes the forgotten connection, whose end takes the new one away, so the
  state repeats itself until the backend goes away.
* After an error the voice modal offers no control until a playback ends or the
  settings change (`raiko_voice_engine.dart:122`, `voice_relay_modal.dart:71`);
  `README.md:328-330` draws Retry, Dismiss and Back.
* The guard against a second recording sits inside the `try` whose handler
  clears the flag (`raiko_speech_to_text.dart:52-53`), so a *third* call records
  beside the first.
* A command for "all" goes to the first agent only, and success is announced
  for all, before anything is known of it (`raiko_voice_engine.dart:202-207`).

## 7 What is not modelled

* **Activity list and `command.result`** in the dashboards: both repeat what the
  command history, which is modelled, carries.
* **Piper**: a process per request and a temporary file, which stays behind when
  the client goes away before the answer (`routes.ts:108`).
* **Two backends that serve at once** on one database: `Startup` lets several
  migrate and serve, `Presence` has one, as the deployment does.
* **Half-open connections**: nobody pings, so a peer that vanishes without a
  close is only noticed by the operating system; the models let a connection end
  at any time instead.
* **Authorization** (a stateless comparison), **settings, users, automation,
  activity rows** (single statements that nothing reads to decide anything),
  **configuration, logging, screens, themes, runners, installers**:
  input and output, or presentation.

`PROJECT.json` lists every component with its status.

## 8 Plan

Done, in this order: `Presence`, `Commands` with `CommandLog`, `MobileClient`,
`Snapshots`, `VoiceEngine`, `Startup`, `PcClients`, `Intent` with `Selection`,
each with its proofs; then the theorems of `Commands` without the assumption that
command ids are unique, `Roster` as the contract `Presence` and `PcClients`
share, and `Ledger` for `Startup`. Next:

1. **Commands over a Roster**: the links of `Commands` are still changed by an
   environment that may do more than `Presence` does; the theorems hold for the
   more general one, so this would only sharpen what they say of a companion.
2. **Snapshots** — the activity list, `command.result`, and the desktop app as a
   dashboard that never asks for the overview.
3. **Two backends on one database** in `Presence`, which no deployment of the
   repository has yet.
