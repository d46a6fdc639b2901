----------------------------- MODULE Snapshots -----------------------------
(***************************************************************************)
(* How the dashboards follow the backend.  Every handler of the gateway    *)
(* ends by reading the whole state again and sending it to every           *)
(* dashboard; handlers interleave at each statement, so the snapshots of   *)
(* two handlers may be read in one order and sent in another.  Beside the  *)
(* socket a dashboard may ask for the overview over HTTP, and takes the    *)
(* answer whenever it comes.                                               *)
(*                                                                         *)
(* The state itself is three version numbers: what the registry holds (the *)
(* devices and agents of live connections, in memory), the online rows of  *)
(* the agents table that listAgents merges in, and the command history.    *)
(* Left out: the activity list, which travels like the history; the        *)
(* command.result message; lastSeenAt; superseded connections (Presence has *)
(* them) and crashes of the backend.                                       *)
(***************************************************************************)
EXTENDS Integers, Sequences, Functions

CONSTANTS Dash,        \* dashboards: the phones and desktop apps
          MaxHandlers, \* bound: handlers that run at the same time
          MaxMessages, \* bound: messages and closes, and heartbeats that change a row
          MaxFailures, \* bound: statements that fail
          MaxOverviews, \* bound: HTTP requests for the overview
          MaxQueued    \* bound: unread messages for a handler to start

ASSUME SnapshotsAssumption ==
  /\ MaxHandlers \in Nat
  /\ MaxMessages \in Nat
  /\ MaxFailures \in Nat
  /\ MaxOverviews \in Nat
  /\ MaxQueued \in Nat

Slot == 1..MaxHandlers

(* The registry is read at once, the tables by statements of their own. *)
Table == {"rows", "commands"}
Source == {"registry"} \cup Table

VARIABLES
  truth,    \* the version of each source
  listed,   \* dashboards whose socket is open and registered
  job,      \* the handler in each slot
  wire,     \* messages sent to each dashboard and not yet read
  view,     \* what each dashboard displays
  overview, \* the answer to a dashboard's HTTP request, as far as it is read
  asking,   \* dashboards with such a request under way
  asked,    \* such requests so far
  messages, \* such messages, closes and heartbeats so far
  failures, \* statements that failed so far
  shown     \* history: sources whose present version a dashboard was sent

vars == <<truth, listed, job, wire, view, overview, asking, asked, messages, failures, shown>>

(* A message or an unfinished reading tells about some of the sources. *)
IsReading(f) == DOMAIN f \subseteq Source /\ \A x \in DOMAIN f : f[x] \in Nat
Nothing == [x \in {} |-> 0]

(* A handler: its await, what called it, what it has read for its broadcast. *)
Kind == {"none", "presence", "send", "result", "beat"}
At == {"idle", "storing", "rejecting", "tracking", "reading"}
Idle == [at |-> "idle", kind |-> "none", got |-> Nothing]

TypeOK ==
  /\ truth \in [Source -> Nat]
  /\ listed \in SUBSET Dash
  /\ \A s \in Slot : job[s].at \in At /\ job[s].kind \in Kind /\ IsReading(job[s].got)
  /\ \A d \in Dash : \A i \in DOMAIN wire[d] : IsReading(wire[d][i])
  /\ view \in [Dash -> [Source -> Nat]]
  /\ \A d \in Dash : IsReading(overview[d])
  /\ asking \in SUBSET Dash
  /\ asked \in 0..MaxOverviews
  /\ messages \in 0..MaxMessages
  /\ failures \in 0..MaxFailures
  /\ shown \in [Dash -> SUBSET Source]

(* The backend has just started; dashboards show what they last saw. *)
Init ==
  /\ truth = [x \in Source |-> 1]
  /\ listed = {}
  /\ job = [s \in Slot |-> Idle]
  /\ wire = [d \in Dash |-> <<>>]
  /\ view = [d \in Dash |-> [x \in Source |-> 0]]
  /\ overview = [d \in Dash |-> Nothing]
  /\ asking = {}
  /\ asked = 0
  /\ messages = 0
  /\ failures = 0
  /\ shown = [d \in Dash |-> {}]

-----------------------------------------------------------------------------
(* The handlers of the gateway. *)

Extend(f, x, v) == [y \in DOMAIN f \cup {x} |-> IF y = x THEN v ELSE f[y]]

(* A new version of x, which no dashboard has been sent. *)
Change(x) ==
  /\ truth' = [truth EXCEPT ![x] = @ + 1]
  /\ shown' = [d \in Dash |-> shown[d] \ {x}]

(* A message arrives; its handler takes the first free slot and is about to write. *)
Accept(s, kind) ==
  /\ job[s].at = "idle"
  /\ \A r \in Slot : r < s => job[r].at # "idle"
  /\ \A d \in Dash : Len(wire[d]) <= MaxQueued
  /\ job' = [job EXCEPT ![s] = [at |-> "storing", kind |-> kind, got |-> Nothing]]

Count ==
  /\ messages < MaxMessages
  /\ messages' = messages + 1

(* device.register: in the registry at once, in the tables later. *)
DashboardRegisters(s, d) ==
  /\ d \notin listed
  /\ Accept(s, "presence")
  /\ Count
  /\ listed' = listed \cup {d}
  /\ truth' = [truth EXCEPT !["registry"] = @ + 1]
  /\ shown' = [e \in Dash |-> IF e = d THEN {} ELSE shown[e] \ {"registry"}]
  /\ UNCHANGED <<wire, view, overview, asking, asked, failures>>

(* The close of a dashboard's socket; what was under way to it is lost. *)
DashboardCloses(s, d) ==
  /\ d \in listed
  /\ Accept(s, "presence")
  /\ Count
  /\ listed' = listed \ {d}
  /\ wire' = [wire EXCEPT ![d] = <<>>]
  /\ Change("registry")
  /\ UNCHANGED <<view, overview, asking, asked, failures>>

(* agent.register, or the close of an agent's socket. *)
AgentComesOrGoes(s) ==
  /\ Accept(s, "presence")
  /\ Count
  /\ Change("registry")
  /\ UNCHANGED <<listed, wire, view, overview, asking, asked, failures>>

(* command.send of a supported action, and command.result. *)
CommandMessage(s) ==
  /\ \E kind \in {"send", "result"} : Accept(s, kind)
  /\ Count
  /\ UNCHANGED <<truth, listed, wire, view, overview, asking, asked, failures, shown>>

(* Mutant: a heartbeat is noted in memory and answered with no broadcast. *)
HeartbeatSilent(s) ==
  /\ job[s].at = "idle"
  /\ UNCHANGED vars

(* One at a time: the bound on heartbeats. *)
Heartbeat(s) ==
  /\ \A r \in Slot : job[r].kind # "beat"
  /\ Accept(s, "beat")
  /\ UNCHANGED <<truth, listed, wire, view, overview, asking, asked, messages, failures, shown>>

Goto(s, at) == job' = [job EXCEPT ![s].at = at]

(* Mutant: the lists are read before the upserts are written. *)
StorePresenceLate(s) ==
  /\ job[s].at = "storing"
  /\ job[s].kind = "presence"
  /\ Change("rows")
  /\ job' = [job EXCEPT ![s].at = "reading", ![s].got = truth]
  /\ UNCHANGED <<listed, wire, view, overview, asking, asked, messages, failures>>

(* The upserts of a registration, or the offline updates of a close. *)
StorePresence(s) ==
  /\ job[s].at = "storing"
  /\ job[s].kind = "presence"
  /\ Change("rows")
  /\ Goto(s, "tracking")
  /\ UNCHANGED <<listed, wire, view, overview, asking, asked, messages, failures>>

(* The pending row of a command; then it is sent to its agent or turned down. *)
StorePending(s) ==
  /\ job[s].at = "storing"
  /\ job[s].kind = "send"
  /\ Change("commands")
  /\ \E at \in {"tracking", "rejecting"} : Goto(s, at)
  /\ UNCHANGED <<listed, wire, view, overview, asking, asked, messages, failures>>

RecordRejection(s) ==
  /\ job[s].at = "rejecting"
  /\ Change("commands")
  /\ Goto(s, "tracking")
  /\ UNCHANGED <<listed, wire, view, overview, asking, asked, messages, failures>>

RecordResult(s) ==
  /\ job[s].at = "storing"
  /\ job[s].kind = "result"
  /\ Change("commands")
  /\ Goto(s, "tracking")
  /\ UNCHANGED <<listed, wire, view, overview, asking, asked, messages, failures>>

(* The result of a command nobody knows: the handler returns. *)
IgnoreResult(s) ==
  /\ job[s].at = "storing"
  /\ job[s].kind = "result"
  /\ job' = [job EXCEPT ![s] = Idle]
  /\ UNCHANGED <<truth, listed, wire, view, overview, asking, asked, messages, failures, shown>>

(* A heartbeat writes the status, too: the row that a close, or another      *)
(* handler's late update, has marked offline is online again.                *)
BeatRevives(s) ==
  /\ job[s].at = "storing"
  /\ job[s].kind = "beat"
  /\ Count
  /\ Change("rows")
  /\ Goto(s, "tracking")
  /\ UNCHANGED <<listed, wire, view, overview, asking, asked, failures>>

(* The rows already said what is stored, up to their times: most heartbeats, *)
(* or the registration of who is registered.                                 *)
StoreNothingNew(s) ==
  /\ job[s].at = "storing"
  /\ job[s].kind \in {"presence", "beat"}
  /\ Goto(s, "tracking")
  /\ UNCHANGED <<truth, listed, wire, view, overview, asking, asked, messages, failures, shown>>

(* The activity row is in: broadcastSnapshots starts, the registry first. *)
BeginBroadcast(s) ==
  /\ job[s].at = "tracking"
  /\ job' = [job EXCEPT ![s].at = "reading", ![s].got = Extend(Nothing, "registry", truth["registry"])]
  /\ UNCHANGED <<truth, listed, wire, view, overview, asking, asked, messages, failures, shown>>

(* Each list is a statement on a pool connection of its own. *)
ReadTable(s, x) ==
  /\ job[s].at = "reading"
  /\ x \notin DOMAIN job[s].got
  /\ job' = [job EXCEPT ![s].got = Extend(@, x, truth[x])]
  /\ UNCHANGED <<truth, listed, wire, view, overview, asking, asked, messages, failures, shown>>

(* device.state, then command.snapshot, to every registered open socket. *)
Messages(got) ==
  <<Restrict(got, {"registry", "rows"}), Restrict(got, {"commands"})>>

Broadcast(s) ==
  /\ job[s].at = "reading"
  /\ DOMAIN job[s].got = Source
  /\ wire' = [d \in Dash |-> IF d \in listed THEN wire[d] \o Messages(job[s].got) ELSE wire[d]]
  /\ job' = [job EXCEPT ![s] = Idle]
  /\ UNCHANGED <<truth, listed, view, overview, asking, asked, messages, failures, shown>>

(* A statement fails: the handler ends there, and its broadcast with it. *)
StatementFails(s) ==
  /\ job[s].at # "idle"
  /\ DOMAIN job[s].got # Source
  /\ failures < MaxFailures
  /\ failures' = failures + 1
  /\ job' = [job EXCEPT ![s] = Idle]
  /\ UNCHANGED <<truth, listed, wire, view, overview, asking, asked, messages, shown>>

-----------------------------------------------------------------------------
(* The dashboard. *)

(* Mutant: a message is taken for the whole overview. *)
DeliverAll(d) ==
  /\ wire[d] # <<>>
  /\ view' = [view EXCEPT ![d] = Head(wire[d])]
  /\ wire' = [wire EXCEPT ![d] = Tail(@)]
  /\ UNCHANGED <<truth, listed, job, overview, asking, asked, messages, failures, shown>>

(* A message replaces the lists it carries, whatever they were. *)
Deliver(d) ==
  /\ wire[d] # <<>>
  /\ LET msg == Head(wire[d]) IN
       /\ view' = [view EXCEPT ![d] = [x \in Source |-> IF x \in DOMAIN msg THEN msg[x] ELSE @[x]]]
       /\ shown' = [shown EXCEPT ![d] = @ \cup {x \in DOMAIN msg : msg[x] = truth[x]}]
  /\ wire' = [wire EXCEPT ![d] = Tail(@)]
  /\ UNCHANGED <<truth, listed, job, overview, asking, asked, messages, failures>>

(* loadOverview: GET /api/overview reads the registry as it starts. *)
AskOverview(d) ==
  /\ d \notin asking
  /\ asked < MaxOverviews
  /\ asked' = asked + 1
  /\ asking' = asking \cup {d}
  /\ overview' = [overview EXCEPT ![d] = Extend(Nothing, "registry", truth["registry"])]
  /\ UNCHANGED <<truth, listed, job, wire, view, messages, failures, shown>>

ReadOverview(d, x) ==
  /\ d \in asking
  /\ x \notin DOMAIN overview[d]
  /\ overview' = [overview EXCEPT ![d] = Extend(@, x, truth[x])]
  /\ UNCHANGED <<truth, listed, job, wire, view, asking, asked, messages, failures, shown>>

(* _applyOverview replaces every list, those of later messages too. *)
ApplyOverview(d) ==
  /\ d \in asking
  /\ DOMAIN overview[d] = Source
  /\ view' = [view EXCEPT ![d] = overview[d]]
  /\ asking' = asking \ {d}
  /\ overview' = [overview EXCEPT ![d] = Nothing]
  /\ UNCHANGED <<truth, listed, job, wire, asked, messages, failures, shown>>

(* The request fails, or its answer is an error: nothing is replaced. *)
OverviewFails(d) ==
  /\ d \in asking
  /\ asking' = asking \ {d}
  /\ overview' = [overview EXCEPT ![d] = Nothing]
  /\ UNCHANGED <<truth, listed, job, wire, view, asked, messages, failures, shown>>

-----------------------------------------------------------------------------
HandlerStep(s) ==
  \/ StorePresence(s) \/ StorePending(s) \/ RecordRejection(s)
  \/ RecordResult(s) \/ IgnoreResult(s) \/ BeatRevives(s) \/ StoreNothingNew(s)
  \/ BeginBroadcast(s)
  \/ \E x \in Table : ReadTable(s, x)
  \/ Broadcast(s)

OverviewStep(d) ==
  \/ \E x \in Table : ReadOverview(d, x)
  \/ ApplyOverview(d)

Next ==
  \/ \E s \in Slot, d \in Dash : DashboardRegisters(s, d) \/ DashboardCloses(s, d)
  \/ \E s \in Slot : AgentComesOrGoes(s) \/ CommandMessage(s) \/ Heartbeat(s)
  \/ \E s \in Slot : HandlerStep(s) \/ StatementFails(s)
  \/ \E d \in Dash : Deliver(d) \/ AskOverview(d) \/ OverviewStep(d) \/ OverviewFails(d)

Spec == Init /\ [][Next]_vars

(* Statements are answered and messages read; an agent stays connected and *)
(* sends a heartbeat every 15 s for as long as it does.                    *)
Fairness ==
  /\ \A s \in Slot : WF_vars(HandlerStep(s))
  /\ \A d \in Dash : WF_vars(Deliver(d)) /\ WF_vars(OverviewStep(d))
  /\ WF_vars(\E s \in Slot : Heartbeat(s))

FairSpec == Spec /\ Fairness

-----------------------------------------------------------------------------
Quiet ==
  /\ \A s \in Slot : job[s].at = "idle"
  /\ \A d \in Dash : wire[d] = <<>>
  /\ asking = {}

(* No change is skipped: once the handlers are done, a dashboard has been  *)
(* sent the last version of everything since it registered or it changed,  *)
(* however handlers overlapped, as long as no statement failed. It is why  *)
(* each handler, that of a heartbeat too, broadcasts only after its last   *)
(* write, and registers the dashboard in the registry before that.         *)
EveryChangeShown ==
  Quiet /\ failures = 0 => \A d \in listed : shown[d] = Source

(* With an agent online, whatever went wrong is put right: a snapshot that *)
(* overtook another, a failed statement or a late overview answer leaves   *)
(* no connected dashboard wrong for good, since heartbeats broadcast too,  *)
(* though they may themselves change a row and then fail.                  *)
HeartbeatHeals == <>[](\A d \in listed : view[d] = truth)

=============================================================================
