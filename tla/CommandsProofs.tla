--------------------------- MODULE CommandsProofs ---------------------------
(* Machine-checked proofs about Commands: for any requests, targets and      *)
(* connections, and whether or not commands and results share their ids.     *)
EXTENDS Commands, TLAPS

(* The message of a request is with the agent, or its result is on the way. *)
OnItsWay == {"wire", "running", "executed", "reported", "received", "updated"}
Decided == {"executed", "reported", "received", "updated", "recorded"}

(* A message past its execution carries a verdict, so what is recorded is one. *)
Typing ==
  /\ TypeOK
  /\ \A x \in Report : job[x] \in Decided => outcome[x] \in {"success", "failed"}

(* Whoever has the same id: the command is stored before it is answered or   *)
(* sent, its handler ends with the answer that its message or its result row *)
(* bears out, and a target that knows reports a success only of what it ran. *)
Owned(r) ==
  /\ pc[r] \notin {"new", "storing", "refused", "errored", "crashed"} => row[IdOf[r]] # "absent"
  /\ pc[r] \in {"rejecting", "rejected"} => result[IdOf[r]] # "none"
  /\ pc[r] \in {"tracking", "accepted"} => job[r] # "none"
  /\ job[r] # "none" => /\ row[IdOf[r]] # "absent"
                        /\ pc[r] \in {"tracking", "accepted", "errored", "crashed"}
  /\ job[r] # "ignored"
  /\ r \in ran => job[r] # "none"
  /\ TargetOf(r) \notin Companion \cup Standalone /\ outcome[r] = "success" => r \in ran

(* What the row of a command can be at each point of its handler and of its  *)
(* message, if nobody else has its id.                                       *)
Consistent(r) ==
  /\ pc[r] \in {"new", "storing", "refused"} => row[IdOf[r]] = "absent"
  /\ pc[r] \in {"stored", "looking", "waking", "failing", "updated"} => row[IdOf[r]] = "pending"
  /\ pc[r] \in {"rejecting", "rejected"} => row[IdOf[r]] = "failed"
  /\ job[r] \in OnItsWay => row[IdOf[r]] = "pending"
  /\ job[r] = "recorded" => row[IdOf[r]] = outcome[r]

(* A stray result of an id that no request has is never matched to a command. *)
StrayIgnored(x) ==
  /\ row[IdOf[x]] = "absent"
  /\ job[x] \in {"none", "received", "ignored", "lost"}

OwnInv ==
  /\ \A r \in Request : Owned(r)
  /\ \A x \in Stray : job[x] = "updated" => row[IdOf[x]] # "absent"

SoleInv ==
  /\ \A r \in Request : ~Shared(IdOf[r]) => Consistent(r)
  /\ \A x \in Stray : ~Shared(IdOf[x]) => StrayIgnored(x)
  /\ StatusMatchesResult

HistoryInv ==
  Typing /\ OwnInv /\ SoleInv /\ SuccessWasExecuted /\ PendingIsExplained

-----------------------------------------------------------------------------
(* What a target sends arrives at its connection, is lost, or never was sent. *)
LEMMA SentTo ==
  ASSUME TypeOK, NEW r \in Request
  PROVE  \A to \in Sent(r) : to \in {"reported", "lost", "unsent"}
<1>1. link[TargetOf(r)] \in {"none", "open", "closing"}
  BY RequestAssumption DEF TypeOK, TargetOf, Payload
<1> QED
  BY <1>1 DEF Sent

LEMMA TypingInvariant == Spec => []Typing
<1> USE RequestAssumption DEF Typing, TypeOK, Decided, Report, AtStatement, Answered, Payload
<1>1. Init => Typing
  BY DEF Init
<1>2. Typing /\ [Next]_vars => Typing'
  <2> SUFFICES ASSUME Typing, [Next]_vars PROVE Typing'
    OBVIOUS
  <2> USE DEF Goto, Move, connVars
  <2>1. ASSUME NEW r \in Request, Submit(r) \/ Refuse(r) \/ Receive(r) PROVE Typing'
    BY <2>1 DEF Submit, Refuse, Receive
  <2>2. ASSUME NEW r \in Request, Handle(r) PROVE Typing'
    <3>1. CASE StorePending(r)
      BY <3>1 DEF StorePending
    <3>2. CASE DispatchToSocket(r)
      BY <3>2 DEF DispatchToSocket
    <3>3. CASE DispatchToNobody(r) \/ OfflineWakeUp(r)
      BY <3>3 DEF DispatchToNobody, OfflineWakeUp
    <3>4. CASE LookUpMac(r) \/ SendWakeOnLan(r)
      BY <3>4 DEF LookUpMac, SendWakeOnLan
    <3>5. CASE UpdateFailure(r)
      BY <3>5 DEF UpdateFailure
    <3>6. CASE CommitFailure(r)
      BY <3>6 DEF CommitFailure
    <3>7. CASE Answer(r) \/ HandlerFails(r)
      BY <3>7 DEF Answer, HandlerFails
    <3> QED
      BY <2>2, <3>1, <3>2, <3>3, <3>4, <3>5, <3>6, <3>7 DEF Handle
  <2>3. ASSUME NEW r \in Request, Agent(r) PROVE Typing'
    <3>1. CASE DeliverToCompanion(r)
      <4>1. PICK to \in {"reported", "lost", "unsent"} : Move(r, "wire", to)
        BY <3>1, SentTo DEF DeliverToCompanion
      <4> QED
        BY <3>1, <4>1 DEF DeliverToCompanion
    <3>2. CASE Execute(r)
      BY <3>2 DEF Execute
    <3>3. CASE ExecutionFails(r) \/ SpawnErrorUnheard(r)
      BY <3>3 DEF ExecutionFails, SpawnErrorUnheard
    <3>4. CASE SendResult(r)
      BY <3>4, SentTo DEF SendResult
    <3>5. CASE DeliverToAgent(r)
      BY <3>5 DEF DeliverToAgent
    <3> QED
      BY <2>3, <3>1, <3>2, <3>3, <3>4, <3>5 DEF Agent
  <2>4. ASSUME NEW x \in Report, Record(x) PROVE Typing'
    <3>1. CASE RecordUpdate(x) \/ RecordFails(x)
      BY <3>1 DEF RecordUpdate, RecordFails
    <3>2. CASE RecordCommit(x)
      BY <3>2 DEF RecordCommit
    <3> QED
      BY <2>4, <3>1, <3>2 DEF Record
  <2>5. CASE Environment
    <3>1. ASSUME NEW t \in Target, Attach(t) \/ StartClosing(t) PROVE Typing'
      BY <3>1 DEF Attach, StartClosing
    <3>2. ASSUME NEW t \in Target, NEW died \in BOOLEAN, DropLink(t, died) PROVE Typing'
      BY <3>2 DEF DropLink
    <3>3. ASSUME NEW r \in Request, Lose(r) PROVE Typing'
      BY <3>3 DEF Lose
    <3>4. ASSUME NEW x \in Stray, ReceiveStray(x) PROVE Typing'
      BY <3>4 DEF ReceiveStray
    <3>5. CASE Crash
      BY <3>5 DEF Crash
    <3>6. Addressed \subseteq Target
      BY DEF Addressed, TargetOf, Payload
    <3> QED
      BY <2>5, <3>1, <3>2, <3>3, <3>4, <3>5, <3>6 DEF Environment
  <2>6. CASE Restart \/ UNCHANGED vars
    BY <2>6 DEF Restart, vars
  <2> QED
    BY <2>1, <2>2, <2>3, <2>4, <2>5, <2>6 DEF Next
<1> QED
  BY <1>1, <1>2, PTL DEF Spec

(* The types of the handler's control points, rows and messages.             *)
THEOREM TypeCorrect == Spec => []TypeOK
<1>1. Typing => TypeOK
  BY DEF Typing
<1> QED
  BY <1>1, TypingInvariant, PTL


-----------------------------------------------------------------------------
(* An id that is not shared has one owner: two requests or results that both *)
(* have it are the same.                                                     *)
LEMMA SoleOwner ==
  ASSUME NEW x \in Report, NEW y \in Report, ~Shared(IdOf[x]), IdOf[y] = IdOf[x]
  PROVE  y = x
BY DEF Shared

(* No step of another request, whatever its id, undoes what a request owns:  *)
(* a row once stored is never absent again and a result never taken back.    *)
LEMMA OwnStep ==
  ASSUME Typing, OwnInv, Typing', [Next]_vars
  PROVE  OwnInv'
<1> USE RequestAssumption DEF Report
<1> USE DEF Typing, TypeOK, Decided, OwnInv, Owned, Goto, Move, connVars, TargetOf
<1>1. ASSUME NEW r \in Request, Submit(r) \/ Refuse(r) \/ Receive(r) PROVE OwnInv'
  BY <1>1 DEF Submit, Refuse, Receive
<1>2. ASSUME NEW r \in Request, Handle(r) PROVE OwnInv'
  <2>1. CASE StorePending(r)
    BY <2>1 DEF StorePending
  <2>2. CASE DispatchToSocket(r)
    BY <2>2 DEF DispatchToSocket
  <2>3. CASE DispatchToNobody(r) \/ OfflineWakeUp(r)
    BY <2>3 DEF DispatchToNobody, OfflineWakeUp
  <2>4. CASE LookUpMac(r) \/ SendWakeOnLan(r)
    BY <2>4 DEF LookUpMac, SendWakeOnLan
  <2>5. CASE UpdateFailure(r)
    BY <2>5 DEF UpdateFailure
  <2>6. CASE CommitFailure(r)
    BY <2>6 DEF CommitFailure
  <2>7. CASE Answer(r)
    BY <2>7 DEF Answer
  <2>8. CASE HandlerFails(r)
    BY <2>8 DEF HandlerFails, AtStatement
  <2> QED
    BY <1>2, <2>1, <2>2, <2>3, <2>4, <2>5, <2>6, <2>7, <2>8 DEF Handle
<1>3. ASSUME NEW r \in Request, Agent(r) PROVE OwnInv'
  <2>1. CASE DeliverToCompanion(r) \/ DeliverToAgent(r)
    BY <2>1, SentTo DEF DeliverToCompanion, DeliverToAgent
  <2>2. CASE Execute(r)
    BY <2>2 DEF Execute
  <2>3. CASE ExecutionFails(r) \/ SpawnErrorUnheard(r)
    BY <2>3 DEF ExecutionFails, SpawnErrorUnheard
  <2>4. CASE SendResult(r)
    BY <2>4, SentTo DEF SendResult
  <2> QED
    BY <1>3, <2>1, <2>2, <2>3, <2>4 DEF Agent
<1>4. ASSUME NEW x \in Report, Record(x) PROVE OwnInv'
  <2>1. CASE RecordUpdate(x) \/ RecordFails(x)
    BY <2>1 DEF RecordUpdate, RecordFails
  <2>2. CASE RecordCommit(x)
    BY <2>2 DEF RecordCommit
  <2> QED
    BY <1>4, <2>1, <2>2 DEF Record
<1>5. CASE Environment
  <2>1. ASSUME NEW t \in Target, Attach(t) \/ StartClosing(t) PROVE OwnInv'
    BY <2>1 DEF Attach, StartClosing
  <2>2. ASSUME NEW t \in Target, NEW died \in BOOLEAN, DropLink(t, died) PROVE OwnInv'
    BY <2>2 DEF DropLink
  <2>3. ASSUME NEW r \in Request, Lose(r) PROVE OwnInv'
    BY <2>3 DEF Lose
  <2>4. ASSUME NEW x \in Stray, ReceiveStray(x) PROVE OwnInv'
    BY <2>4 DEF ReceiveStray
  <2>5. CASE Crash
    BY <2>5 DEF Crash, Answered
  <2>6. Addressed \subseteq Target
    BY DEF Addressed, Payload
  <2> QED
    BY <1>5, <2>1, <2>2, <2>3, <2>4, <2>5, <2>6 DEF Environment
<1>6. CASE Restart \/ UNCHANGED vars
  BY <1>6 DEF Restart, vars
<1> QED
  BY <1>1, <1>2, <1>3, <1>4, <1>5, <1>6 DEF Next

(* A step of one request's handler or message leaves alone what is said of   *)
(* every other request that has an id of its own.                            *)
LEMMA SoleStep ==
  ASSUME Typing, OwnInv, SoleInv, Typing', [Next]_vars
  PROVE  SoleInv'
<1> USE RequestAssumption, SoleOwner DEF Report
<1> USE DEF Typing, TypeOK, Decided, OwnInv, Owned, OnItsWay, SoleInv, Consistent, StrayIgnored,
            StatusMatchesResult, Goto, Move, connVars, TargetOf
<1>1. ASSUME NEW r \in Request, Submit(r) \/ Refuse(r) \/ Receive(r) PROVE SoleInv'
  BY <1>1 DEF Submit, Refuse, Receive
<1>2. ASSUME NEW r \in Request, Handle(r) PROVE SoleInv'
  <2>1. CASE StorePending(r)
    BY <2>1 DEF StorePending
  <2>2. CASE DispatchToSocket(r)
    BY <2>2 DEF DispatchToSocket
  <2>3. CASE DispatchToNobody(r) \/ OfflineWakeUp(r)
    BY <2>3 DEF DispatchToNobody, OfflineWakeUp
  <2>4. CASE LookUpMac(r) \/ SendWakeOnLan(r)
    BY <2>4 DEF LookUpMac, SendWakeOnLan
  <2>5. CASE UpdateFailure(r)
    BY <2>5 DEF UpdateFailure
  <2>6. CASE CommitFailure(r)
    BY <2>6 DEF CommitFailure
  <2>7. CASE Answer(r)
    BY <2>7 DEF Answer
  <2>8. CASE HandlerFails(r)
    BY <2>8 DEF HandlerFails, AtStatement
  <2> QED
    BY <1>2, <2>1, <2>2, <2>3, <2>4, <2>5, <2>6, <2>7, <2>8 DEF Handle
<1>3. ASSUME NEW r \in Request, Agent(r) PROVE SoleInv'
  <2>1. CASE DeliverToCompanion(r) \/ DeliverToAgent(r)
    BY <2>1, SentTo DEF DeliverToCompanion, DeliverToAgent
  <2>2. CASE Execute(r)
    BY <2>2 DEF Execute
  <2>3. CASE ExecutionFails(r) \/ SpawnErrorUnheard(r)
    BY <2>3 DEF ExecutionFails, SpawnErrorUnheard
  <2>4. CASE SendResult(r)
    BY <2>4, SentTo DEF SendResult
  <2> QED
    BY <1>3, <2>1, <2>2, <2>3, <2>4 DEF Agent
<1>4. ASSUME NEW x \in Report, Record(x) PROVE SoleInv'
  <2>1. CASE RecordUpdate(x) \/ RecordFails(x)
    BY <2>1 DEF RecordUpdate, RecordFails
  <2>2. CASE RecordCommit(x)
    BY <2>2 DEF RecordCommit
  <2> QED
    BY <1>4, <2>1, <2>2 DEF Record
<1>5. CASE Environment
  <2>1. ASSUME NEW t \in Target, Attach(t) \/ StartClosing(t) PROVE SoleInv'
    BY <2>1 DEF Attach, StartClosing
  <2>2. ASSUME NEW t \in Target, NEW died \in BOOLEAN, DropLink(t, died) PROVE SoleInv'
    BY <2>2 DEF DropLink
  <2>3. ASSUME NEW r \in Request, Lose(r) PROVE SoleInv'
    BY <2>3 DEF Lose
  <2>4. ASSUME NEW x \in Stray, ReceiveStray(x) PROVE SoleInv'
    BY <2>4 DEF ReceiveStray
  <2>5. CASE Crash
    BY <2>5 DEF Crash, Answered
  <2>6. Addressed \subseteq Target
    BY DEF Addressed, Payload
  <2> QED
    BY <1>5, <2>1, <2>2, <2>3, <2>4, <2>5, <2>6 DEF Environment
<1>6. CASE Restart \/ UNCHANGED vars
  BY <1>6 DEF Restart, vars
<1> QED
  BY <1>1, <1>2, <1>3, <1>4, <1>5, <1>6 DEF Next

(* A success is written by the report that claims it, and by no other step.  *)
LEMMA SuccessStep ==
  ASSUME Typing, OwnInv, SuccessWasExecuted, Typing', [Next]_vars
  PROVE  SuccessWasExecuted'
<1> USE RequestAssumption DEF Report, Unknowing
<1> USE DEF Typing, TypeOK, Decided, OwnInv, Owned, SuccessWasExecuted, Goto, Move, connVars,
            TargetOf
<1>1. ASSUME NEW r \in Request, Submit(r) \/ Refuse(r) \/ Receive(r) PROVE SuccessWasExecuted'
  BY <1>1 DEF Submit, Refuse, Receive
<1>2. ASSUME NEW r \in Request, Handle(r) PROVE SuccessWasExecuted'
  <2>1. CASE StorePending(r)
    BY <2>1 DEF StorePending
  <2>2. CASE DispatchToSocket(r)
    BY <2>2 DEF DispatchToSocket
  <2>3. CASE DispatchToNobody(r) \/ OfflineWakeUp(r)
    BY <2>3 DEF DispatchToNobody, OfflineWakeUp
  <2>4. CASE LookUpMac(r) \/ SendWakeOnLan(r)
    BY <2>4 DEF LookUpMac, SendWakeOnLan
  <2>5. CASE UpdateFailure(r)
    BY <2>5 DEF UpdateFailure
  <2>6. CASE CommitFailure(r)
    BY <2>6 DEF CommitFailure
  <2>7. CASE Answer(r)
    BY <2>7 DEF Answer
  <2>8. CASE HandlerFails(r)
    BY <2>8 DEF HandlerFails, AtStatement
  <2> QED
    BY <1>2, <2>1, <2>2, <2>3, <2>4, <2>5, <2>6, <2>7, <2>8 DEF Handle
<1>3. ASSUME NEW r \in Request, Agent(r) PROVE SuccessWasExecuted'
  <2>1. CASE DeliverToCompanion(r) \/ DeliverToAgent(r)
    BY <2>1, SentTo DEF DeliverToCompanion, DeliverToAgent
  <2>2. CASE Execute(r)
    BY <2>2 DEF Execute
  <2>3. CASE ExecutionFails(r) \/ SpawnErrorUnheard(r)
    BY <2>3 DEF ExecutionFails, SpawnErrorUnheard
  <2>4. CASE SendResult(r)
    BY <2>4, SentTo DEF SendResult
  <2> QED
    BY <1>3, <2>1, <2>2, <2>3, <2>4 DEF Agent
<1>4. ASSUME NEW x \in Report, Record(x) PROVE SuccessWasExecuted'
  <2>1. CASE RecordUpdate(x) \/ RecordFails(x)
    BY <2>1 DEF RecordUpdate, RecordFails
  <2>2. CASE RecordCommit(x)
    BY <2>2 DEF RecordCommit
  <2> QED
    BY <1>4, <2>1, <2>2 DEF Record
<1>5. CASE Environment
  <2>1. ASSUME NEW t \in Target, Attach(t) \/ StartClosing(t) PROVE SuccessWasExecuted'
    BY <2>1 DEF Attach, StartClosing
  <2>2. ASSUME NEW t \in Target, NEW died \in BOOLEAN, DropLink(t, died) PROVE SuccessWasExecuted'
    BY <2>2 DEF DropLink
  <2>3. ASSUME NEW r \in Request, Lose(r) PROVE SuccessWasExecuted'
    BY <2>3 DEF Lose
  <2>4. ASSUME NEW x \in Stray, ReceiveStray(x) PROVE SuccessWasExecuted'
    BY <2>4 DEF ReceiveStray
  <2>5. CASE Crash
    BY <2>5 DEF Crash, Answered
  <2>6. Addressed \subseteq Target
    BY DEF Addressed, Payload
  <2> QED
    BY <1>5, <2>1, <2>2, <2>3, <2>4, <2>5, <2>6 DEF Environment
<1>6. CASE Restart \/ UNCHANGED vars
  BY <1>6 DEF Restart, vars
<1> QED
  BY <1>1, <1>2, <1>3, <1>4, <1>5, <1>6 DEF Next

(* Whoever is to settle a pending row hands that on with every step, settles  *)
(* it, or is interrupted; a namesake that settles it leaves nothing pending. *)
LEMMA PendingStep ==
  ASSUME Typing, OwnInv, PendingIsExplained, Typing', [Next]_vars
  PROVE  PendingIsExplained'
<1> USE RequestAssumption DEF Report, Unfinished, Interrupted
<1> USE DEF Typing, TypeOK, Decided, OwnInv, Owned, PendingIsExplained, Goto, Move, connVars,
            TargetOf
<1>1. ASSUME NEW r \in Request, Submit(r) \/ Refuse(r) \/ Receive(r) PROVE PendingIsExplained'
  BY <1>1 DEF Submit, Refuse, Receive
<1>2. ASSUME NEW r \in Request, Handle(r) PROVE PendingIsExplained'
  <2>1. CASE StorePending(r)
    BY <2>1 DEF StorePending
  <2>2. CASE DispatchToSocket(r)
    BY <2>2 DEF DispatchToSocket
  <2>3. CASE DispatchToNobody(r) \/ OfflineWakeUp(r)
    BY <2>3 DEF DispatchToNobody, OfflineWakeUp
  <2>4. CASE LookUpMac(r) \/ SendWakeOnLan(r)
    BY <2>4 DEF LookUpMac, SendWakeOnLan
  <2>5. CASE UpdateFailure(r)
    BY <2>5 DEF UpdateFailure
  <2>6. CASE CommitFailure(r)
    BY <2>6 DEF CommitFailure
  <2>7. CASE Answer(r)
    BY <2>7 DEF Answer
  <2>8. CASE HandlerFails(r)
    BY <2>8 DEF HandlerFails, AtStatement
  <2> QED
    BY <1>2, <2>1, <2>2, <2>3, <2>4, <2>5, <2>6, <2>7, <2>8 DEF Handle
<1>3. ASSUME NEW r \in Request, Agent(r) PROVE PendingIsExplained'
  <2>1. CASE DeliverToCompanion(r) \/ DeliverToAgent(r)
    BY <2>1, SentTo DEF DeliverToCompanion, DeliverToAgent
  <2>2. CASE Execute(r)
    BY <2>2 DEF Execute
  <2>3. CASE ExecutionFails(r) \/ SpawnErrorUnheard(r)
    BY <2>3 DEF ExecutionFails, SpawnErrorUnheard
  <2>4. CASE SendResult(r)
    BY <2>4, SentTo DEF SendResult
  <2> QED
    BY <1>3, <2>1, <2>2, <2>3, <2>4 DEF Agent
<1>4. ASSUME NEW x \in Report, Record(x) PROVE PendingIsExplained'
  <2>1. CASE RecordUpdate(x) \/ RecordFails(x)
    BY <2>1 DEF RecordUpdate, RecordFails
  <2>2. CASE RecordCommit(x)
    BY <2>2 DEF RecordCommit
  <2> QED
    BY <1>4, <2>1, <2>2 DEF Record
<1>5. CASE Environment
  <2>1. ASSUME NEW t \in Target, Attach(t) \/ StartClosing(t) PROVE PendingIsExplained'
    BY <2>1 DEF Attach, StartClosing
  <2>2. ASSUME NEW t \in Target, NEW died \in BOOLEAN, DropLink(t, died) PROVE PendingIsExplained'
    BY <2>2 DEF DropLink
  <2>3. ASSUME NEW r \in Request, Lose(r) PROVE PendingIsExplained'
    BY <2>3 DEF Lose
  <2>4. ASSUME NEW x \in Stray, ReceiveStray(x) PROVE PendingIsExplained'
    BY <2>4 DEF ReceiveStray
  <2>5. CASE Crash
    BY <2>5 DEF Crash, Answered
  <2>6. Addressed \subseteq Target
    BY DEF Addressed, Payload
  <2> QED
    BY <1>5, <2>1, <2>2, <2>3, <2>4, <2>5, <2>6 DEF Environment
<1>6. CASE Restart \/ UNCHANGED vars
  BY <1>6 DEF Restart, vars
<1> QED
  BY <1>1, <1>2, <1>3, <1>4, <1>5, <1>6 DEF Next

LEMMA HistoryInvariant == Spec => []HistoryInv
<1>1. Init => HistoryInv
  <2> SUFFICES ASSUME Init PROVE HistoryInv
    OBVIOUS
  <2>1. Typing
    BY RequestAssumption DEF Init, Typing, TypeOK, Decided, Report
  <2>2. OwnInv
    BY RequestAssumption DEF Init, OwnInv, Owned, Report
  <2>3. SoleInv
    BY RequestAssumption DEF Init, SoleInv, Consistent, StrayIgnored, StatusMatchesResult,
       OnItsWay, Report
  <2>4. SuccessWasExecuted
    BY DEF Init, SuccessWasExecuted
  <2>5. PendingIsExplained
    BY DEF Init, PendingIsExplained
  <2> QED
    BY <2>1, <2>2, <2>3, <2>4, <2>5 DEF HistoryInv
<1>2. HistoryInv /\ Typing' /\ [Next]_vars => HistoryInv'
  BY OwnStep, SoleStep, SuccessStep, PendingStep DEF HistoryInv
<1> QED
  BY <1>1, <1>2, TypingInvariant, PTL DEF Spec


-----------------------------------------------------------------------------
(* The history never shows a verdict without its result; nor, for an id that *)
(* only one command has, a result without its verdict.                       *)
THEOREM StatusAndResultAgree == Spec => []StatusMatchesResult
<1>1. HistoryInv => StatusMatchesResult
  BY DEF HistoryInv, SoleInv
<1> QED
  BY <1>1, HistoryInvariant, PTL

(* An accepted command was handed to a socket; a rejected one never reaches  *)
(* an agent, and is recorded as failed.                                      *)
THEOREM AnswersTrue == Spec => []AnswersAreTrue
<1>1. HistoryInv => AnswersAreTrue
  BY RequestAssumption DEF HistoryInv, OwnInv, Owned, SoleInv, Consistent, AnswersAreTrue
<1> QED
  BY <1>1, HistoryInvariant, PTL

(* The result of a command that was dispatched is never ignored as unknown,  *)
(* however many commands have its id.                                        *)
THEOREM OwnResultsKnown == Spec => []OwnResultsAreKnown
<1>1. HistoryInv => OwnResultsAreKnown
  BY DEF HistoryInv, OwnInv, Owned, OwnResultsAreKnown
<1> QED
  BY <1>1, HistoryInvariant, PTL

(* A recorded success is of a report that claims it, and a target that knows *)
(* what it does executed the request that report is of.                      *)
THEOREM SuccessIsReal == Spec => []SuccessWasExecuted
<1>1. HistoryInv => SuccessWasExecuted
  BY DEF HistoryInv
<1> QED
  BY <1>1, HistoryInvariant, PTL

(* A command that is pending is somebody's to settle still, or what was to   *)
(* settle it is gone: lost with a connection, an agent, a statement or the   *)
(* backend, or dropped in silence by a target that forgot its connection.    *)
(* There is no other way to leave a row to nobody.                           *)
THEOREM PendingExplained == Spec => []PendingIsExplained
<1>1. HistoryInv => PendingIsExplained
  BY DEF HistoryInv
<1> QED
  BY <1>1, HistoryInvariant, PTL

(* Commands implements CommandLog: every step either leaves both tables      *)
(* alone, stores a new pending command, or settles a pending one; only an    *)
(* entry whose id is shared is ever reopened or settled again.               *)
THEOREM Refinement == Spec => HistoryIsALog
<1> USE RequestAssumption
<1>1. Init => History!LogInit
  BY DEF Init, History!LogInit
<1>2. HistoryInv /\ [Next]_vars => [History!LogNext]_History!logVars
  <2> SUFFICES ASSUME HistoryInv, [Next]_vars, ~UNCHANGED <<row, result>>
               PROVE  History!LogNext
    BY DEF History!logVars
  <2> USE DEF HistoryInv, OwnInv, Owned, SoleInv, Typing, TypeOK, Report
  <2>1. \/ \E r \in Request : StorePending(r) \/ CommitFailure(r)
        \/ \E x \in Report : RecordCommit(x)
    BY DEF Next, vars, connVars, Submit, Refuse, Receive, Handle, DispatchToSocket,
           DispatchToNobody, OfflineWakeUp, LookUpMac, SendWakeOnLan, UpdateFailure, Answer,
           HandlerFails, Agent, DeliverToCompanion, DeliverToAgent, Execute, ExecutionFails,
           SpawnErrorUnheard, SendResult, Record,
           RecordUpdate, RecordFails, Environment, Attach, StartClosing, DropLink,
           Lose, ReceiveStray, Crash, Restart
  <2>2. ASSUME NEW r \in Request, StorePending(r) PROVE History!Accept(IdOf[r])
    BY <2>2 DEF StorePending, Goto, Consistent, History!Accept
  <2>3. ASSUME NEW r \in Request, CommitFailure(r) PROVE History!Settle(IdOf[r], "failed")
    BY <2>3 DEF CommitFailure, Goto, Consistent, History!Settle, History!Verdict
  <2>4. ASSUME NEW x \in Report, RecordCommit(x) PROVE History!Settle(IdOf[x], outcome[x])
    BY <2>4 DEF RecordCommit, Move, Consistent, StrayIgnored, OnItsWay, History!Settle,
           History!Verdict
  <2>5. \A x \in Report : RecordCommit(x) => outcome[x] \in History!Verdict
    BY DEF RecordCommit, Move, Decided, History!Verdict
  <2> QED
    BY <2>1, <2>2, <2>3, <2>4, <2>5 DEF History!LogNext, History!Verdict
<1> QED
  BY <1>1, <1>2, HistoryInvariant, PTL DEF Spec, HistoryIsALog, History!LogSpec

=============================================================================
