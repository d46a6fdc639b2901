------------------------------ MODULE Commands ------------------------------
(***************************************************************************)
(* The life of a remote command: stored as pending, dispatched to the      *)
(* socket of its target (or turned into a Wake-on-LAN packet), executed by *)
(* the agent, reported back and recorded, while connections drop, agents   *)
(* die and the backend restarts.                                           *)
(*                                                                         *)
(* A handler runs without interruption to its next `await`; every awaited  *)
(* statement is a step.  The two writes of a result share a transaction:   *)
(* its UPDATE holds the row lock until the commit that shows both.         *)
(* Presence supplies the connections; here only the state of the target's  *)
(* registry entry matters, and in one place its row, which its handlers    *)
(* write at times of their own.                                            *)
(*                                                                         *)
(* Command ids are the clock's milliseconds at the client, so commands may *)
(* share one.  The two tables know a command by its id only.               *)
(***************************************************************************)
CONSTANTS Request,        \* commands sent by clients
          Stray,          \* results that are not of a request: repeated,
                          \* late or of a command nobody knows
          CommandId,
          IdOf,           \* the commandId of every request and stray result
          Target,         \* target agent ids
          Companion,      \* targets "<deviceId>-agent", reached by the device's socket
          Standalone,     \* targets that run tools/standalone-agent.mjs
          Forgetful,      \* targets that may hold no socket while their link is open
          HasMac,         \* targets whose agents row has a MAC address
          Choices,        \* the payloads each request may carry
          StatementsFail  \* may a statement fail

Report == Request \cup Stray

(* "run" stands for the actions an agent hands to the operating system.    *)
Payload == [target : Target, action : {"run", "wake_up", "unknown"}]

ASSUME RequestAssumption ==
  /\ IdOf \in [Report -> CommandId]
  /\ Companion \subseteq Target
  /\ Standalone \subseteq Target \ Companion
  /\ Forgetful \subseteq Target
  /\ HasMac \subseteq Target \ Companion
  /\ Choices \in [Request -> SUBSET Payload]
  /\ Request \cap Stray = {}
  /\ StatementsFail \in BOOLEAN

(* An id that requests or results have in common. *)
Shared(c) == \E x, y \in Report : x # y /\ IdOf[x] = c /\ IdOf[y] = c

VARIABLES
  payload,  \* what every request asks for, fixed by its sender
  phase,    \* is the backend up
  link,     \* registry entry of a target: none, open, or closing
  row,      \* commands.status
  result,   \* command_results.status
  pc,       \* handler of a request: its next step or how it ended
  job,      \* a dispatched command on its way to the agent and back
  outcome,  \* the status its result reports
  ran       \* history: the requests an agent has executed

connVars == <<payload, link>>
vars == <<phase, connVars, row, result, pc, job, outcome, ran>>

Answered == {"accepted", "rejected", "refused", "errored", "crashed"}
AtStatement == {"storing", "failing", "updated", "rejecting", "tracking"}

TypeOK ==
  /\ payload \in [Request -> Payload]
  /\ phase \in {"up", "down"}
  /\ link \in [Target -> {"none", "open", "closing"}]
  /\ row \in [CommandId -> {"absent", "pending", "success", "failed"}]
  /\ result \in [CommandId -> {"none", "success", "failed"}]
  /\ pc \in [Request -> {"new", "stored", "looking", "waking"} \cup AtStatement \cup Answered]
  /\ job \in [Report -> {"none", "wire", "running", "executed", "reported", "received",
                         "updated", "recorded", "ignored", "lost", "unsent"}]
  /\ outcome \in [Report -> {"none", "success", "failed"}]
  /\ ran \subseteq Request

Init ==
  /\ payload \in {p \in [Request -> Payload] : \A r \in Request : p[r] \in Choices[r]}
  /\ phase = "up"
  /\ link = [t \in Target |-> "none"]
  /\ row = [c \in CommandId |-> "absent"]
  /\ result = [c \in CommandId |-> "none"]
  /\ pc = [r \in Request |-> "new"]
  /\ job = [x \in Report |-> "none"]
  /\ outcome = [x \in Report |-> "none"]
  /\ ran = {}

-----------------------------------------------------------------------------
(* The row lock an open transaction holds on its command. *)
Locked(c) ==
  \/ \E r \in Request : IdOf[r] = c /\ pc[r] = "updated"
  \/ \E x \in Report : IdOf[x] = c /\ job[x] = "updated"

Goto(r, from, to) ==
  /\ pc[r] = from
  /\ pc' = [pc EXCEPT ![r] = to]

Move(x, from, to) ==
  /\ job[x] = from
  /\ job' = [job EXCEPT ![x] = to]

TargetOf(r) == payload[r].target
IsWakeUp(r) == payload[r].action = "wake_up"

(* registry.getAgent: companions have no entry of their own. *)
Registered(t) == t \notin Companion /\ link[t] # "none"

-----------------------------------------------------------------------------
(* Mutant: the command is dispatched before it is stored. *)
SubmitUnstored(r) ==
  /\ phase = "up"
  /\ Goto(r, "new", "stored")
  /\ UNCHANGED <<phase, connVars, row, result, job, outcome, ran>>

(* command.send or POST /api/commands: the first statement is awaited. *)
Submit(r) ==
  /\ phase = "up"
  /\ Goto(r, "new", "storing")
  /\ UNCHANGED <<phase, connVars, row, result, job, outcome, ran>>

(* The gateway, unlike the REST route, refuses an action it does not know. *)
Refuse(r) ==
  /\ phase = "up"
  /\ payload[r].action = "unknown"
  /\ Goto(r, "new", "refused")
  /\ UNCHANGED <<phase, connVars, row, result, job, outcome, ran>>

(* The upsert resets the status of a reused id; the result row stays. *)
StorePending(r) ==
  /\ ~Locked(IdOf[r])
  /\ Goto(r, "storing", "stored")
  /\ row' = [row EXCEPT ![IdOf[r]] = "pending"]
  /\ UNCHANGED <<phase, connVars, result, job, outcome, ran>>

(* Mutant: a socket found CLOSING is reported as a failure, but only after *)
(* the command has been written to it.                                     *)
DispatchAndFail(r) ==
  /\ link[TargetOf(r)] # "none"
  /\ IsWakeUp(r) => Registered(TargetOf(r))
  /\ Goto(r, "stored", IF link[TargetOf(r)] = "open" THEN "tracking" ELSE "failing")
  /\ job' = [job EXCEPT ![r] = "wire"]
  /\ UNCHANGED <<phase, connVars, row, result, outcome, ran>>

(* dispatchToSocket: ws drops what is sent to a CLOSING socket, without an error. *)
DispatchToSocket(r) ==
  /\ link[TargetOf(r)] # "none"
  /\ IsWakeUp(r) => Registered(TargetOf(r))
  /\ Goto(r, "stored", "tracking")
  /\ job' = [job EXCEPT ![r] = IF link[TargetOf(r)] = "open" THEN "wire" ELSE "lost"]
  /\ UNCHANGED <<phase, connVars, row, result, outcome, ran>>

DispatchToNobody(r) ==
  /\ link[TargetOf(r)] = "none"
  /\ ~IsWakeUp(r)
  /\ Goto(r, "stored", "failing")
  /\ UNCHANGED <<phase, connVars, row, result, job, outcome, ran>>

OfflineWakeUp(r) ==
  /\ IsWakeUp(r)
  /\ ~Registered(TargetOf(r))
  /\ Goto(r, "stored", "looking")
  /\ UNCHANGED <<phase, connVars, row, result, job, outcome, ran>>

(* Only agents the table calls online are searched; getOfflineAgent finds none.*)
(* What the row says of the target just then is up to Presence.                *)
LookUpMac(r) ==
  /\ \E status \in {"online", "offline"} :
       \/ status = "online" /\ TargetOf(r) \in HasMac /\ Goto(r, "looking", "waking")
       \/ status = "offline" /\ Goto(r, "looking", "failing")
       \/ (StatementsFail \/ TargetOf(r) \notin HasMac) /\ Goto(r, "looking", "failing")
  /\ UNCHANGED <<phase, connVars, row, result, job, outcome, ran>>

(* Mutant: the socket is bound before setBroadcast, so that packets go out. *)
SendFromBoundSocket(r) ==
  /\ \/ Goto(r, "waking", "tracking")
     \/ Goto(r, "waking", "failing")
  /\ UNCHANGED <<phase, connVars, row, result, job, outcome, ran>>

(* sendWakeOnLan calls setBroadcast on a socket that is not bound yet, which *)
(* node:dgram answers with EBADF: the promise rejects, no packet is sent.    *)
SendWakeOnLan(r) ==
  /\ Goto(r, "waking", "failing")
  /\ UNCHANGED <<phase, connVars, row, result, job, outcome, ran>>

(* Mutant: a failed dispatch is answered but not recorded. *)
RejectUnrecorded(r) ==
  /\ Goto(r, "failing", "rejecting")
  /\ UNCHANGED <<phase, connVars, row, result, job, outcome, ran>>

(* recordFailure: the transaction's UPDATE, which matches the stored row. *)
UpdateFailure(r) ==
  /\ ~Locked(IdOf[r])
  /\ Goto(r, "failing", IF row[IdOf[r]] = "absent" THEN "rejecting" ELSE "updated")
  /\ UNCHANGED <<phase, connVars, row, result, job, outcome, ran>>

(* Mutant: the result row of a failed dispatch is written outside of the   *)
(* transaction, and lost.                                                  *)
CommitStatusOnly(r) ==
  /\ Goto(r, "updated", "rejecting")
  /\ row' = [row EXCEPT ![IdOf[r]] = "failed"]
  /\ UNCHANGED <<phase, connVars, result, job, outcome, ran>>

(* The upsert into command_results and the COMMIT. *)
CommitFailure(r) ==
  /\ Goto(r, "updated", "rejecting")
  /\ row' = [row EXCEPT ![IdOf[r]] = "failed"]
  /\ result' = [result EXCEPT ![IdOf[r]] = "failed"]
  /\ UNCHANGED <<phase, connVars, job, outcome, ran>>

(* Mutant: an answer the protocol does not have. *)
AnswerDone(r) ==
  /\ \/ Goto(r, "rejecting", "rejected")
     \/ Goto(r, "tracking", "done")
  /\ UNCHANGED <<phase, connVars, row, result, job, outcome, ran>>

(* The activity row, then the ack or the error. *)
Answer(r) ==
  /\ \/ Goto(r, "rejecting", "rejected")
     \/ Goto(r, "tracking", "accepted")
  /\ UNCHANGED <<phase, connVars, row, result, job, outcome, ran>>

(* A statement fails: the handler ends, an open transaction is rolled back *)
(* and the sender gets an error.                                           *)
HandlerFails(r) ==
  /\ StatementsFail
  /\ pc[r] \in AtStatement
  /\ pc' = [pc EXCEPT ![r] = "errored"]
  /\ UNCHANGED <<phase, connVars, row, result, job, outcome, ran>>

-----------------------------------------------------------------------------
(* send: over whatever connection the sender has by then, or into the void. *)
(* A superseded connection carries it until it is closed.  A desktop app    *)
(* whose _socket the late onDone of an older connection has cleared, or an  *)
(* agent whose id a namesake has registered since, drops it in silence      *)
(* though the backend holds an open connection under the target's id.       *)
Sent(r) ==
  (CASE link[TargetOf(r)] = "open" -> {"reported"}
     [] link[TargetOf(r)] = "closing" -> {"reported", "lost"}
     [] link[TargetOf(r)] = "none" -> {"lost"})
  \cup {to \in {"unsent"} : TargetOf(r) \in Forgetful /\ link[TargetOf(r)] = "open"}

(* The receiving end. The mobile app answers for its companion at once,    *)
(* without executing anything.                                             *)
DeliverToCompanion(r) ==
  /\ TargetOf(r) \in Companion
  /\ \E to \in Sent(r) : Move(r, "wire", to)
  /\ outcome' = [outcome EXCEPT ![r] = "success"]
  /\ UNCHANGED <<phase, connVars, row, result, pc, ran>>

(* Mutant: the agent reports on receipt, as the mobile app does. *)
ReportOnReceipt(r) ==
  /\ TargetOf(r) \notin Companion
  /\ Move(r, "wire", "executed")
  /\ outcome' = [outcome EXCEPT ![r] = "success"]
  /\ UNCHANGED <<phase, connVars, row, result, pc, ran>>

DeliverToAgent(r) ==
  /\ TargetOf(r) \notin Companion
  /\ Move(r, "wire", "running")
  /\ UNCHANGED <<phase, connVars, row, result, pc, outcome, ran>>

(* handleCommand, executeCommand: the operating system starts the program.  *)
Execute(r) ==
  /\ payload[r].action = "run"
  /\ Move(r, "running", "executed")
  /\ outcome' = [outcome EXCEPT ![r] = "success"]
  /\ ran' = ran \cup {r}
  /\ UNCHANGED <<phase, connVars, row, result, pc>>

(* Missing arguments, a failed spawn, an action without a plan.  wake_up is  *)
(* one of them: the agent's WolSender fails as the backend's does.           *)
ExecutionFails(r) ==
  /\ Move(r, "running", "executed")
  /\ outcome' = [outcome EXCEPT ![r] = "failed"]
  /\ UNCHANGED <<phase, connVars, row, result, pc, ran>>

(* The standalone agent reports before spawn's "error" event, to which it    *)
(* does not listen: it reports a success and dies (DropLink).                *)
SpawnErrorUnheard(r) ==
  /\ payload[r].action = "run" /\ TargetOf(r) \in Standalone
  /\ Move(r, "running", "executed")
  /\ outcome' = [outcome EXCEPT ![r] = "success"]
  /\ UNCHANGED <<phase, connVars, row, result, pc, ran>>

SendResult(r) ==
  /\ \E to \in Sent(r) : Move(r, "executed", to)
  /\ UNCHANGED <<phase, connVars, row, result, pc, outcome, ran>>

-----------------------------------------------------------------------------
(* command.result *)
Receive(r) ==
  /\ phase = "up"
  /\ link[TargetOf(r)] # "none"
  /\ Move(r, "reported", "received")
  /\ UNCHANGED <<phase, connVars, row, result, pc, outcome, ran>>

(* A result that is not of a request claims a success, whoever sent it.     *)
ReceiveStray(x) ==
  /\ phase = "up"
  /\ Move(x, "none", "received")
  /\ outcome' = [outcome EXCEPT ![x] = "success"]
  /\ UNCHANGED <<phase, connVars, row, result, pc, ran>>

(* Mutant: the row count of the UPDATE is not looked at. *)
RecordUnchecked(x) ==
  /\ ~Locked(IdOf[x])
  /\ Move(x, "received", "updated")
  /\ UNCHANGED <<phase, connVars, row, result, pc, outcome, ran>>

(* recordResult: the UPDATE matches the command, or the result is ignored. *)
RecordUpdate(x) ==
  /\ ~Locked(IdOf[x])
  /\ Move(x, "received", IF row[IdOf[x]] = "absent" THEN "ignored" ELSE "updated")
  /\ UNCHANGED <<phase, connVars, row, result, pc, outcome, ran>>

RecordCommit(x) ==
  /\ Move(x, "updated", "recorded")
  /\ row' = [row EXCEPT ![IdOf[x]] = outcome[x]]
  /\ result' = [result EXCEPT ![IdOf[x]] = outcome[x]]
  /\ UNCHANGED <<phase, connVars, pc, outcome, ran>>

RecordFails(x) ==
  /\ StatementsFail
  /\ job[x] \in {"received", "updated"}
  /\ job' = [job EXCEPT ![x] = "lost"]
  /\ UNCHANGED <<phase, connVars, row, result, pc, outcome, ran>>

-----------------------------------------------------------------------------
(* Connections, as Presence leaves them.  *)
Attach(t) ==
  /\ phase = "up"
  /\ link[t] # "open"
  /\ link' = [link EXCEPT ![t] = "open"]
  /\ UNCHANGED <<payload, phase, row, result, pc, job, outcome, ran>>

(* Superseded; or the entry a desktop app's closed connection leaves behind. *)
StartClosing(t) ==
  /\ link[t] = "open"
  /\ link' = [link EXCEPT ![t] = "closing"]
  /\ UNCHANGED <<payload, phase, row, result, pc, job, outcome, ran>>

(* The close event comes after everything the peer sent; what was not sent *)
(* by then is gone.  With died, the agent's process is gone too.           *)
DropLink(t, died) ==
  /\ link[t] # "none"
  /\ link' = [link EXCEPT ![t] = "none"]
  /\ LET gone == IF died THEN {"reported", "wire", "running", "executed"} ELSE {"reported"}
     IN  job' = [x \in Report |-> IF x \in Request /\ TargetOf(x) = t /\ job[x] \in gone
                                  THEN "lost" ELSE job[x]]
  /\ UNCHANGED <<payload, phase, row, result, pc, outcome, ran>>

(* What was on its way to the agent when the connection broke may be lost. *)
Lose(r) ==
  /\ link[TargetOf(r)] # "open"
  /\ Move(r, "wire", "lost")
  /\ UNCHANGED <<phase, connVars, row, result, pc, outcome, ran>>

Crash ==
  /\ phase = "up"
  /\ phase' = "down"
  /\ link' = [t \in Target |-> "none"]
  /\ pc' = [r \in Request |-> IF pc[r] \in Answered \cup {"new"} THEN pc[r] ELSE "crashed"]
  /\ job' = [x \in Report |-> IF job[x] \in {"reported", "received", "updated"}
                              THEN "lost" ELSE job[x]]
  /\ UNCHANGED <<payload, row, result, outcome, ran>>

(* reconcileStartupState marks every row offline; commands are not looked at. *)
Restart ==
  /\ phase = "down"
  /\ phase' = "up"
  /\ UNCHANGED <<payload, link, row, result, pc, job, outcome, ran>>

-----------------------------------------------------------------------------
Handle(r) ==
  \/ StorePending(r)
  \/ DispatchToSocket(r) \/ DispatchToNobody(r) \/ OfflineWakeUp(r)
  \/ LookUpMac(r) \/ SendWakeOnLan(r)
  \/ UpdateFailure(r) \/ CommitFailure(r) \/ Answer(r)
  \/ HandlerFails(r)

Agent(r) ==
  \/ DeliverToCompanion(r) \/ DeliverToAgent(r)
  \/ Execute(r) \/ ExecutionFails(r) \/ SpawnErrorUnheard(r)
  \/ SendResult(r)

Record(x) == RecordUpdate(x) \/ RecordCommit(x) \/ RecordFails(x)

(* Only the connections of targets that are addressed matter. *)
Addressed == {TargetOf(r) : r \in Request}

Environment ==
  \/ \E t \in Addressed : Attach(t) \/ StartClosing(t) \/ DropLink(t, FALSE)
  \/ \E t \in Addressed \ Companion : DropLink(t, TRUE)
  \/ \E r \in Request : Lose(r)
  \/ \E x \in Stray : ReceiveStray(x)
  \/ Crash

Next ==
  \/ \E r \in Request : Submit(r) \/ Refuse(r) \/ Handle(r) \/ Agent(r) \/ Receive(r)
  \/ \E x \in Report : Record(x)
  \/ Environment
  \/ Restart

Spec == Init /\ [][Next]_vars

(* Statements are answered or fail, messages on a live connection arrive,  *)
(* an agent finishes what it started and docker restarts the backend.      *)
Fairness ==
  /\ WF_vars(Restart)
  /\ \A r \in Request : WF_vars(Handle(r)) /\ WF_vars(Agent(r)) /\ WF_vars(Receive(r))
  /\ \A x \in Report : WF_vars(Record(x))

FairSpec == Spec /\ Fairness

-----------------------------------------------------------------------------
(* A command never shows a verdict its result row does not, whoever shares *)
(* its id; nor, if nobody does, a result while it is pending: the two      *)
(* tables change in one transaction.                                       *)
StatusMatchesResult ==
  \A c \in CommandId :
    /\ row[c] \in {"success", "failed"} => result[c] = row[c]
    /\ ~Shared(c) /\ row[c] \notin {"success", "failed"} => result[c] = "none"

(* A sender is not lied to.  What it was told is accepted was handed to the*)
(* target's socket; what it was told is rejected was not executed, never   *)
(* will be, and is recorded as failed, unless a namesake writes over that. *)
(* An error says neither: the command runs when only the activity row      *)
(* behind its dispatch failed.                                             *)
AnswersAreTrue ==
  \A r \in Request :
    /\ pc[r] = "accepted" => job[r] # "none"
    /\ pc[r] = "rejected" => /\ job[r] = "none" /\ r \notin ran
                             /\ result[IdOf[r]] # "none"
                             /\ ~Shared(IdOf[r]) => row[IdOf[r]] = "failed"

(* The result of a dispatched command is never taken for an unknown one,   *)
(* however fast the agent answers and whoever else has its id: the command *)
(* is stored before it is sent, and never unknown again.                   *)
OwnResultsAreKnown == \A r \in Request : job[r] # "ignored"

(* A recorded success that was not executed: of a result nobody asked for, *)
(* of a companion or of a standalone agent, which report without knowing.  *)
Unknowing(x) == x \in Stray \/ TargetOf(x) \in Companion \cup Standalone

(* "success" in the history is the recorded claim of a report with that id, *)
(* and, if this is a request's whose target knows, the request was executed:*)
(* a collision of ids may lend a command its namesake's success, but never  *)
(* invents one.                                                             *)
SuccessWasExecuted ==
  \A c \in CommandId : row[c] = "success" =>
    \E x \in Report : /\ IdOf[x] = c
                      /\ job[x] = "recorded" /\ outcome[x] = "success"
                      /\ x \in ran \/ Unknowing(x)

(* The history is that of CommandLog: commands appear pending, settle once,*)
(* and status and result change together, those with an id of their own    *)
(* whatever happens to those that share one.                               *)
History == INSTANCE CommandLog WITH status <- row, Ambiguous <- {c \in CommandId : Shared(c)}
HistoryIsALog == History!LogSpec

(* Somebody will still settle a request: its handler or, once dispatched,   *)
(* whoever has its message or its result.                                  *)
Unfinished(r) ==
  \/ pc[r] \in {"stored", "looking", "waking", "failing", "updated"}
  \/ job[r] \in {"wire", "running", "executed", "reported", "received", "updated"}

(* Nobody will: its message or its result was lost with a connection or an *)
(* agent, a statement failed, the backend died before it was dispatched or *)
(* recorded; or, with nothing lost, failed or dead, its target has dropped *)
(* the result over a connection it no longer calls its own.                *)
Interrupted(r) ==
  \/ job[r] \in {"lost", "unsent"}
  \/ job[r] = "none" /\ pc[r] \in {"errored", "crashed"}

(* A row that says pending is never left to nobody without a reason: some  *)
(* request with its id is unfinished, or was interrupted, be it only by a  *)
(* target that forgot the connection its result should have gone over.     *)
PendingIsExplained ==
  \A c \in CommandId : row[c] = "pending" =>
    \E r \in Request : IdOf[r] = c /\ (Unfinished(r) \/ Interrupted(r))

(* And a command stays pending for such a reason only, its own or that of  *)
(* a namesake, which may have put the row they share back to pending.      *)
PendingHasACause ==
  \A r \in Request : pc[r] # "new" ~>
    \/ row[IdOf[r]] \in {"success", "failed"}
    \/ \E q \in Request : IdOf[q] = IdOf[r] /\ Interrupted(q)
    \/ pc[r] = "refused"

(* A wake_up is turned down only for a PC whose MAC address is not known.  *)
KnownPcCanBeWoken ==
  [][\A r \in Request : pc[r] = "looking" /\ pc'[r] = "failing" => TargetOf(r) \notin HasMac]_vars

=============================================================================
