-------------------------- MODULE SnapshotsProofs --------------------------
(* Machine-checked proofs about Snapshots, for any number of dashboards,     *)
(* handlers, messages and requests.                                          *)
EXTENDS Snapshots, TLAPS

Reading == UNION {[S -> Nat] : S \in SUBSET Source}
Job == [at: At, kind: Kind, got: Reading]

(* The part of the types that the other proofs rest on. *)
Shape ==
  /\ truth \in [Source -> Nat]
  /\ listed \in SUBSET Dash
  /\ job \in [Slot -> Job]
  /\ wire \in [Dash -> Seq(Reading)]
  /\ failures \in Nat
  /\ shown \in [Dash -> SUBSET Source]

-----------------------------------------------------------------------------
(* Facts about readings. *)

LEMMA NothingIsASnapshot == Nothing \in Reading /\ DOMAIN Nothing = {}
<1>1. Nothing \in [{} -> Nat]
  BY DEF Nothing
<1> QED
  BY <1>1 DEF Reading

LEMMA SnapshotFacts ==
  ASSUME NEW f \in Reading
  PROVE  DOMAIN f \in SUBSET Source /\ \A y \in DOMAIN f : f[y] \in Nat
<1>1. PICK S \in SUBSET Source : f \in [S -> Nat]
  BY DEF Reading
<1> QED
  BY <1>1

LEMMA ExtendFacts ==
  ASSUME NEW f \in Reading, NEW x \in Source, NEW v \in Nat
  PROVE  /\ Extend(f, x, v) \in Reading
         /\ DOMAIN Extend(f, x, v) = DOMAIN f \cup {x}
         /\ Extend(f, x, v)[x] = v
         /\ \A y \in DOMAIN f : y # x => Extend(f, x, v)[y] = f[y]
<1>1. Extend(f, x, v) \in [DOMAIN f \cup {x} -> Nat]
  BY SnapshotFacts DEF Extend
<1>2. DOMAIN f \cup {x} \in SUBSET Source
  BY SnapshotFacts
<1> QED
  BY <1>1, <1>2 DEF Reading, Extend

(* What a broadcast sends carries every source as it was read. *)
LEMMA MessagesFacts ==
  ASSUME NEW got \in Reading, DOMAIN got = Source
  PROVE  /\ Messages(got) \in Seq(Reading)
         /\ Len(Messages(got)) = 2
         /\ \A x \in Source : \E i \in 1..2 :
               x \in DOMAIN Messages(got)[i] /\ Messages(got)[i][x] = got[x]
<1> DEFINE A == {"registry", "rows"}
           B == {"commands"}
<1>1. A \in SUBSET Source /\ B \in SUBSET Source /\ Source = A \cup B
  BY DEF Source, Table
<1>2. Restrict(got, A) \in [A -> Nat] /\ Restrict(got, B) \in [B -> Nat]
  BY <1>1, SnapshotFacts DEF Restrict
<1>3. Restrict(got, A) \in Reading /\ Restrict(got, B) \in Reading
  BY <1>1, <1>2 DEF Reading
<1>4. Messages(got) = <<Restrict(got, A), Restrict(got, B)>>
  BY DEF Messages
<1>5. ASSUME NEW x \in Source
      PROVE  \E i \in 1..2 : x \in DOMAIN Messages(got)[i] /\ Messages(got)[i][x] = got[x]
  <2>1. CASE x \in A
    <3>1. x \in DOMAIN Messages(got)[1] /\ Messages(got)[1][x] = got[x]
      BY <2>1, <1>4 DEF Restrict
    <3> QED
      BY <3>1
  <2>2. CASE x \in B
    <3>1. x \in DOMAIN Messages(got)[2] /\ Messages(got)[2][x] = got[x]
      BY <2>2, <1>4 DEF Restrict
    <3> QED
      BY <3>1
  <2> QED
    BY <2>1, <2>2, <1>1
<1> HIDE DEF A, B
<1> QED
  BY <1>3, <1>4, <1>5

(* Appending keeps what was queued where it was and puts the new after it. *)
LEMMA ConcatFacts ==
  ASSUME NEW S, NEW a \in Seq(S), NEW b \in Seq(S)
  PROVE  /\ Len(a) \in Nat
         /\ \A i \in 1..Len(a) : i \in 1..Len(a \o b) /\ (a \o b)[i] = a[i]
         /\ \A i \in 1..Len(b) : /\ Len(a) + i \in 1..Len(a \o b)
                               /\ (a \o b)[Len(a) + i] = b[i]
OBVIOUS

-----------------------------------------------------------------------------
LEMMA NextActions ==
  ASSUME Next
  PROVE  \/ \E s \in Slot :
              \/ \E d \in Dash : DashboardRegisters(s, d) \/ DashboardCloses(s, d)
              \/ AgentComesOrGoes(s)
              \/ CommandMessage(s) \/ Heartbeat(s)
              \/ StorePresence(s) \/ StorePending(s) \/ RecordRejection(s) \/ RecordResult(s)
              \/ IgnoreResult(s) \/ BeatRevives(s) \/ StoreNothingNew(s)
              \/ BeginBroadcast(s)
              \/ \E x \in Table : ReadTable(s, x)
              \/ Broadcast(s)
              \/ StatementFails(s)
         \/ \E d \in Dash :
              \/ Deliver(d) \/ AskOverview(d) \/ ApplyOverview(d) \/ OverviewFails(d)
              \/ \E x \in Table : ReadOverview(d, x)
<1> QED
  BY DEF Next, HandlerStep, OverviewStep

LEMMA ShapeInvariant == Spec => []Shape
<1>1. Init => Shape
  BY NothingIsASnapshot DEF Init, Shape, Idle, Job, At, Kind
<1>2. Shape /\ [Next]_vars => Shape'
  <2> SUFFICES ASSUME Shape, [Next]_vars PROVE Shape'
    OBVIOUS
  <2> USE DEF Shape
  <2>0. "registry" \in Source /\ Table \subseteq Source /\ Idle \in Job
    BY NothingIsASnapshot DEF Source, Table, Idle, Job, At, Kind
  <2>1. ASSUME NEW s \in Slot, NEW kind \in Kind, Accept(s, kind)
        PROVE  job' \in [Slot -> Job]
    BY <2>1, NothingIsASnapshot DEF Accept, Job, At
  <2>2. ASSUME NEW s \in Slot, NEW at \in At,
               Goto(s, at)
        PROVE  job' \in [Slot -> Job]
    BY <2>2 DEF Goto, Job, At
  <2>3. ASSUME NEW x \in Source, Change(x)
        PROVE  truth' \in [Source -> Nat] /\ shown' \in [Dash -> SUBSET Source]
    BY <2>3 DEF Change
  <2>4. ASSUME NEW s \in Slot, NEW d \in Dash, DashboardRegisters(s, d) PROVE Shape'
    <3>1. job' \in [Slot -> Job]
      BY <2>4, <2>1 DEF DashboardRegisters, Kind
    <3>2. truth' \in [Source -> Nat] /\ shown' \in [Dash -> SUBSET Source]
      BY <2>4, <2>0 DEF DashboardRegisters
    <3> QED
      BY <2>4, <3>1, <3>2 DEF DashboardRegisters
  <2>5. ASSUME NEW s \in Slot, NEW d \in Dash, DashboardCloses(s, d) PROVE Shape'
    <3>1. job' \in [Slot -> Job]
      BY <2>5, <2>1 DEF DashboardCloses, Kind
    <3>2. truth' \in [Source -> Nat] /\ shown' \in [Dash -> SUBSET Source]
      BY <2>5, <2>0, <2>3 DEF DashboardCloses
    <3>3. wire' \in [Dash -> Seq(Reading)]
      <4>1. <<>> \in Seq(Reading)
        OBVIOUS
      <4> QED
        BY <2>5, <4>1 DEF DashboardCloses
    <3>4. listed' \in SUBSET Dash /\ failures' \in Nat
      BY <2>5 DEF DashboardCloses
    <3> QED
      BY <3>1, <3>2, <3>3, <3>4
  <2>6. ASSUME NEW s \in Slot, AgentComesOrGoes(s) PROVE Shape'
    <3>1. job' \in [Slot -> Job]
      BY <2>6, <2>1 DEF AgentComesOrGoes, Kind
    <3>2. truth' \in [Source -> Nat] /\ shown' \in [Dash -> SUBSET Source]
      BY <2>6, <2>0, <2>3 DEF AgentComesOrGoes
    <3> QED
      BY <2>6, <3>1, <3>2 DEF AgentComesOrGoes
  <2>7. ASSUME NEW s \in Slot, CommandMessage(s) \/ Heartbeat(s) PROVE Shape'
    <3>1. job' \in [Slot -> Job]
      BY <2>7, <2>1 DEF CommandMessage, Heartbeat, Kind
    <3> QED
      BY <2>7, <3>1 DEF CommandMessage, Heartbeat
  <2>8. ASSUME NEW s \in Slot,
               \/ StorePresence(s) \/ StorePending(s) \/ RecordRejection(s) \/ RecordResult(s)
               \/ BeatRevives(s)
        PROVE  Shape'
    <3>1. job' \in [Slot -> Job]
      BY <2>8, <2>2 DEF StorePresence, StorePending, RecordRejection, RecordResult,
         BeatRevives, At
    <3>2. truth' \in [Source -> Nat] /\ shown' \in [Dash -> SUBSET Source]
      BY <2>8, <2>0, <2>3 DEF StorePresence, StorePending, RecordRejection, RecordResult,
         BeatRevives, Table
    <3> QED
      BY <2>8, <3>1, <3>2 DEF StorePresence, StorePending, RecordRejection, RecordResult,
         BeatRevives
  <2>9. ASSUME NEW s \in Slot, IgnoreResult(s) \/ StoreNothingNew(s) \/ StatementFails(s) PROVE Shape'
    <3>1. job' \in [Slot -> Job]
      BY <2>9, <2>0, <2>2 DEF IgnoreResult, StoreNothingNew, StatementFails, At
    <3> QED
      BY <2>9, <3>1 DEF IgnoreResult, StoreNothingNew, StatementFails
  <2>10. ASSUME NEW s \in Slot, BeginBroadcast(s) PROVE Shape'
    <3>1. Extend(Nothing, "registry", truth["registry"]) \in Reading
      BY <2>0, NothingIsASnapshot, ExtendFacts
    <3>2. job' \in [Slot -> Job]
      BY <2>10, <3>1 DEF BeginBroadcast, Job, At
    <3> QED
      BY <2>10, <3>2 DEF BeginBroadcast
  <2>11. ASSUME NEW s \in Slot, NEW x \in Table, ReadTable(s, x) PROVE Shape'
    <3>1. Extend(job[s].got, x, truth[x]) \in Reading
      BY <2>0, ExtendFacts DEF Job, At
    <3>2. job' \in [Slot -> Job]
      BY <2>11, <3>1 DEF ReadTable, Job, At
    <3> QED
      BY <2>11, <3>2 DEF ReadTable
  <2>12. ASSUME NEW s \in Slot, Broadcast(s) PROVE Shape'
    <3>1. Messages(job[s].got) \in Seq(Reading)
      BY <2>12, MessagesFacts DEF Broadcast, Job, At
    <3>2. wire' \in [Dash -> Seq(Reading)]
      BY <2>12, <3>1 DEF Broadcast
    <3> QED
      BY <2>12, <2>0, <3>2 DEF Broadcast
  <2>13. ASSUME NEW d \in Dash, Deliver(d) PROVE Shape'
    <3>1. wire' \in [Dash -> Seq(Reading)]
      BY <2>13 DEF Deliver
    <3>2. Head(wire[d]) \in Reading
      BY <2>13 DEF Deliver
    <3>3. shown' \in [Dash -> SUBSET Source]
      BY <2>13, <3>2, SnapshotFacts DEF Deliver
    <3> QED
      BY <2>13, <3>1, <3>3 DEF Deliver
  <2>14. ASSUME NEW d \in Dash,
                AskOverview(d) \/ ApplyOverview(d) \/ OverviewFails(d)
                  \/ \E x \in Table : ReadOverview(d, x)
         PROVE  Shape'
    BY <2>14 DEF AskOverview, ApplyOverview, OverviewFails, ReadOverview
  <2>15. CASE UNCHANGED vars
    BY <2>15 DEF vars
  <2> HIDE DEF Shape
  <2> QED
    BY <2>4, <2>5, <2>6, <2>7, <2>8, <2>9, <2>10, <2>11, <2>12, <2>13, <2>14, <2>15, NextActions
<1> QED
  BY <1>1, <1>2, PTL DEF Spec

-----------------------------------------------------------------------------
(* The rest of the types: what dashboards display and ask for, and the       *)
(* bounds.                                                                   *)
DisplayInv ==
  /\ view \in [Dash -> [Source -> Nat]]
  /\ overview \in [Dash -> Reading]
  /\ asking \in SUBSET Dash
  /\ asked \in 0..MaxOverviews
  /\ messages \in 0..MaxMessages
  /\ failures \in 0..MaxFailures

LEMMA DisplayStep ==
  ASSUME Shape, DisplayInv, NEW d \in Dash,
         \/ Deliver(d) \/ AskOverview(d) \/ ApplyOverview(d) \/ OverviewFails(d)
         \/ \E x \in Table : ReadOverview(d, x)
  PROVE  DisplayInv'
<1> USE DEF DisplayInv
<1>0. "registry" \in Source /\ Table \subseteq Source
  BY DEF Source, Table
<1>1. CASE Deliver(d)
  <2>1. Head(wire[d]) \in Reading
    BY <1>1 DEF Deliver, Shape
  <2>2. view' \in [Dash -> [Source -> Nat]]
    BY <1>1, <2>1, SnapshotFacts DEF Deliver
  <2> QED
    BY <1>1, <2>2 DEF Deliver
<1>2. CASE AskOverview(d)
  <2>1. Extend(Nothing, "registry", truth["registry"]) \in Reading
    BY <1>0, NothingIsASnapshot, ExtendFacts DEF Shape
  <2>2. asked' \in 0..MaxOverviews
    BY <1>2, SnapshotsAssumption DEF AskOverview
  <2> QED
    BY <1>2, <2>1, <2>2 DEF AskOverview
<1>3. CASE ApplyOverview(d)
  <2>1. overview[d] \in [Source -> Nat]
    BY <1>3 DEF ApplyOverview, Reading
  <2> QED
    BY <1>3, <2>1, NothingIsASnapshot DEF ApplyOverview
<1>4. CASE OverviewFails(d)
  BY <1>4, NothingIsASnapshot DEF OverviewFails
<1>5. ASSUME NEW x \in Table, ReadOverview(d, x) PROVE DisplayInv'
  <2>1. Extend(overview[d], x, truth[x]) \in Reading
    BY <1>0, ExtendFacts DEF Shape
  <2> QED
    BY <1>5, <2>1 DEF ReadOverview
<1> QED
  BY <1>1, <1>2, <1>3, <1>4, <1>5

LEMMA DisplayInvariant == Spec => []DisplayInv
<1>1. Init => DisplayInv
  BY NothingIsASnapshot, SnapshotsAssumption DEF Init, DisplayInv
<1>2. Shape /\ DisplayInv /\ [Next]_vars => DisplayInv'
  <2> SUFFICES ASSUME Shape, DisplayInv, [Next]_vars PROVE DisplayInv'
    OBVIOUS
  <2>1. ASSUME NEW s \in Slot,
               \/ \E d \in Dash : DashboardRegisters(s, d) \/ DashboardCloses(s, d)
               \/ AgentComesOrGoes(s) \/ CommandMessage(s) \/ BeatRevives(s)
        PROVE  DisplayInv'
    <3>1. Count /\ UNCHANGED <<view, overview, asking, asked, failures>>
      BY <2>1 DEF DashboardRegisters, DashboardCloses, AgentComesOrGoes, CommandMessage,
         BeatRevives
    <3>2. messages' \in 0..MaxMessages
      BY <3>1, SnapshotsAssumption DEF Count, DisplayInv
    <3> QED
      BY <3>1, <3>2 DEF DisplayInv
  <2>2. ASSUME NEW s \in Slot, StatementFails(s) PROVE DisplayInv'
    <3>1. failures' \in 0..MaxFailures
      BY <2>2, SnapshotsAssumption DEF StatementFails, DisplayInv
    <3> QED
      BY <2>2, <3>1 DEF StatementFails, DisplayInv
  <2>3. ASSUME NEW s \in Slot,
               \/ Heartbeat(s) \/ StorePresence(s) \/ StorePending(s) \/ RecordRejection(s)
               \/ RecordResult(s) \/ IgnoreResult(s) \/ StoreNothingNew(s) \/ BeginBroadcast(s)
               \/ Broadcast(s) \/ \E x \in Table : ReadTable(s, x)
        PROVE  DisplayInv'
    BY <2>3 DEF Heartbeat, StorePresence, StorePending, RecordRejection, RecordResult,
                IgnoreResult, StoreNothingNew, BeginBroadcast, Broadcast, ReadTable, DisplayInv
  <2>4. CASE UNCHANGED vars
    BY <2>4 DEF vars, DisplayInv
  <2> QED
    BY <2>1, <2>2, <2>3, <2>4, DisplayStep, NextActions
<1> QED
  BY <1>1, <1>2, ShapeInvariant, PTL DEF Spec

(* Every list a dashboard displays or is sent is whole, for any number of    *)
(* dashboards, handlers, messages and requests.                              *)
THEOREM TypeCorrect == Spec => []TypeOK
<1>1. \A f \in Reading : IsReading(f)
  BY SnapshotFacts DEF IsReading
<1>2. Shape /\ DisplayInv => TypeOK
  <2> SUFFICES ASSUME Shape, DisplayInv PROVE TypeOK
    OBVIOUS
  <2>1. ASSUME NEW s \in Slot
        PROVE  job[s].at \in At /\ job[s].kind \in Kind /\ IsReading(job[s].got)
    BY <1>1 DEF Shape, Job, At
  <2>2. ASSUME NEW d \in Dash, NEW i \in DOMAIN wire[d] PROVE IsReading(wire[d][i])
    <3>1. wire[d][i] \in Reading
      BY DEF Shape
    <3> QED
      BY <1>1, <3>1
  <2> QED
    BY <1>1, <2>1, <2>2 DEF Shape, DisplayInv, TypeOK
<1> QED
  BY <1>2, ShapeInvariant, DisplayInvariant, PTL

-----------------------------------------------------------------------------
(* Why no change is skipped: whatever a dashboard has not been sent is on    *)
(* its wire or will be read, or has just been read, by a handler that        *)
(* broadcasts.                                                               *)

(* Job s is bound to broadcast the present version of x. *)
WillSend(s, x) ==
  \/ job[s].at = "storing" /\ job[s].kind # "result"
  \/ job[s].at \in {"rejecting", "tracking"}
  \/ job[s].at = "reading" /\ (x \in DOMAIN job[s].got => job[s].got[x] = truth[x])

OnItsWay(d, x) ==
  \E i \in 1..Len(wire[d]) : x \in DOMAIN wire[d][i] /\ wire[d][i][x] = truth[x]

Covered(d, x) ==
  \/ x \in shown[d]
  \/ OnItsWay(d, x)
  \/ \E s \in Slot : WillSend(s, x)

NothingSkipped ==
  failures = 0 => \A d \in listed, x \in Source : Covered(d, x)

(* A step that leaves alone what covers x keeps x covered. *)
LEMMA StillCovered ==
  ASSUME NEW d, NEW x, Covered(d, x),
         truth'[x] = truth[x],
         wire'[d] = wire[d],
         x \in shown[d] => x \in shown'[d],
         \A s \in Slot : WillSend(s, x) => WillSend(s, x)'
  PROVE  Covered(d, x)'
<1>1. OnItsWay(d, x) => OnItsWay(d, x)'
  BY DEF OnItsWay
<1> QED
  BY <1>1 DEF Covered

(* What a handler that has yet to broadcast changes is covered by itself. *)
LEMMA SelfCovered ==
  ASSUME NEW s \in Slot,
         \/ job'[s].at = "rejecting"
         \/ job'[s].at = "tracking"
         \/ job'[s].at = "storing" /\ job'[s].kind # "result"
  PROVE  \A d, x : Covered(d, x)'
BY DEF Covered, WillSend

LEMMA MessageStep ==
  ASSUME Shape, NothingSkipped, NEW s \in Slot,
         \/ \E d \in Dash : DashboardRegisters(s, d) \/ DashboardCloses(s, d)
         \/ AgentComesOrGoes(s)
         \/ Heartbeat(s)
  PROVE  NothingSkipped'
<1>1. \E kind \in {"presence", "beat"} : Accept(s, kind)
  BY DEF DashboardRegisters, DashboardCloses, AgentComesOrGoes, Heartbeat
<1>2. job'[s].at = "storing" /\ job'[s].kind # "result"
  BY <1>1 DEF Accept, Shape
<1> QED
  BY <1>2, SelfCovered DEF NothingSkipped

LEMMA StoreStep ==
  ASSUME Shape, NothingSkipped, NEW s \in Slot,
         \/ StorePresence(s) \/ StorePending(s) \/ RecordRejection(s) \/ RecordResult(s)
         \/ BeatRevives(s) \/ StoreNothingNew(s)
  PROVE  NothingSkipped'
<1>1. \E at \in {"rejecting", "tracking"} : Goto(s, at)
  BY DEF StorePresence, StorePending, RecordRejection, RecordResult, BeatRevives, StoreNothingNew
<1>2. job'[s].at = "rejecting" \/ job'[s].at = "tracking"
  BY <1>1 DEF Goto, Shape, Job, At
<1>3. \A d, x : Covered(d, x)'
  BY <1>2, SelfCovered
<1> QED
  BY <1>3 DEF NothingSkipped

(* The handler of a new command, or of a result, or one that gives up had    *)
(* promised nothing.                                                         *)
LEMMA CommandStep ==
  ASSUME Shape, NothingSkipped, NEW s \in Slot, CommandMessage(s) \/ IgnoreResult(s)
  PROVE  NothingSkipped'
<1>1. \A r \in Slot : r # s => job'[r] = job[r]
  BY DEF CommandMessage, Accept, IgnoreResult, Shape
<1>2. \A x : ~ WillSend(s, x)
  BY DEF CommandMessage, Accept, IgnoreResult, WillSend
<1>3. UNCHANGED <<truth, listed, wire, failures, shown>>
  BY DEF CommandMessage, IgnoreResult
<1>4. \A r \in Slot, x \in Source : WillSend(r, x) => WillSend(r, x)'
  BY <1>1, <1>2, <1>3 DEF WillSend
<1> QED
  BY <1>3, <1>4, StillCovered DEF NothingSkipped

LEMMA ReadStep ==
  ASSUME Shape, NothingSkipped, NEW s \in Slot,
         BeginBroadcast(s) \/ \E y \in Table : ReadTable(s, y)
  PROVE  NothingSkipped'
<1>1. \A r \in Slot : r # s => job'[r] = job[r]
  BY DEF BeginBroadcast, ReadTable, Shape
<1>2. UNCHANGED <<truth, listed, wire, failures, shown>>
  BY DEF BeginBroadcast, ReadTable
<1>3. \A x \in Source : WillSend(s, x) => WillSend(s, x)'
  <2>1. CASE BeginBroadcast(s)
    <3>1. job'[s].at = "reading" /\ job'[s].got = Extend(Nothing, "registry", truth["registry"])
      BY <2>1 DEF BeginBroadcast, Shape, Job, At
    <3>2. "registry" \in Source /\ truth["registry"] \in Nat
      BY DEF Source, Shape
    <3> DEFINE new == Extend(Nothing, "registry", truth["registry"])
    <3>3. DOMAIN new = {"registry"} /\ new["registry"] = truth["registry"]
      BY <3>2, ExtendFacts, NothingIsASnapshot
    <3>4. job'[s].got = new
      BY <3>1
    <3> HIDE DEF new
    <3> QED
      BY <3>1, <3>3, <3>4, <1>2 DEF WillSend
  <2>2. ASSUME NEW y \in Table, ReadTable(s, y)
        PROVE  \A x \in Source : WillSend(s, x) => WillSend(s, x)'
    <3>1. job'[s].at = "reading" /\ job[s].at = "reading" /\ job'[s].got = Extend(job[s].got, y, truth[y])
      BY <2>2 DEF ReadTable, Shape, Job, At
    <3>2. y \in Source /\ truth[y] \in Nat /\ job[s].got \in Reading
      BY DEF Source, Table, Shape, Job, At
    <3> DEFINE old == job[s].got
               new == Extend(old, y, truth[y])
    <3>3. /\ DOMAIN new = DOMAIN old \cup {y}
          /\ new[y] = truth[y]
          /\ \A x \in DOMAIN old : x # y => new[x] = old[x]
      BY <3>2, ExtendFacts
    <3>4. job'[s].got = new
      BY <3>1
    <3> HIDE DEF new
    <3> QED
      BY <3>1, <3>3, <3>4, <1>2 DEF WillSend
  <2> QED
    BY <2>1, <2>2
<1>4. \A r \in Slot, x \in Source : WillSend(r, x) => WillSend(r, x)'
  BY <1>1, <1>2, <1>3 DEF WillSend
<1> QED
  BY <1>2, <1>4, StillCovered DEF NothingSkipped

LEMMA BroadcastStep ==
  ASSUME Shape, NothingSkipped, NEW s \in Slot, Broadcast(s)
  PROVE  NothingSkipped'
<1> DEFINE msgs == Messages(job[s].got)
<1>1. \A r \in Slot : r # s => job'[r] = job[r]
  BY DEF Broadcast, Shape
<1>2. UNCHANGED <<truth, listed, failures, shown>>
  BY DEF Broadcast
<1>3. job[s].got \in Reading /\ DOMAIN job[s].got = Source /\ job[s].at = "reading"
  BY DEF Broadcast, Shape, Job, At
<1>4. /\ msgs \in Seq(Reading)
      /\ Len(msgs) = 2
      /\ \A x \in Source : \E i \in 1..2 : x \in DOMAIN msgs[i] /\ msgs[i][x] = job[s].got[x]
  BY <1>3, MessagesFacts
<1> SUFFICES ASSUME failures = 0, NEW d \in listed, NEW x \in Source PROVE Covered(d, x)'
  BY <1>2 DEF NothingSkipped
<1>5. d \in Dash /\ wire[d] \in Seq(Reading) /\ wire'[d] = wire[d] \o msgs
  BY DEF Broadcast, Shape
<1> HIDE DEF msgs
<1> DEFINE old == wire[d]
<1>6. /\ Len(old) \in Nat
      /\ \A i \in 1..Len(old) : i \in 1..Len(old \o msgs) /\ (old \o msgs)[i] = old[i]
      /\ \A i \in 1..Len(msgs) : /\ Len(old) + i \in 1..Len(old \o msgs)
                               /\ (old \o msgs)[Len(old) + i] = msgs[i]
  <2>1. old \in Seq(Reading) /\ msgs \in Seq(Reading)
    BY <1>4, <1>5
  <2> HIDE DEF old
  <2> QED
    BY <2>1, ConcatFacts
<1>7. \A i \in 1..Len(wire[d]) : i \in 1..Len(wire'[d]) /\ wire'[d][i] = wire[d][i]
  BY <1>5, <1>6
<1>8. \A i \in 1..2 : Len(wire[d]) + i \in 1..Len(wire'[d]) /\ wire'[d][Len(wire[d]) + i] = msgs[i]
  BY <1>4, <1>5, <1>6
<1>9. Covered(d, x)
  BY DEF NothingSkipped
<1>10. CASE x \in shown[d]
  BY <1>10, <1>2 DEF Covered
<1>11. CASE OnItsWay(d, x)
  <2>1. OnItsWay(d, x)'
    BY <1>11, <1>7, <1>2 DEF OnItsWay
  <2> QED
    BY <2>1 DEF Covered
<1>12. CASE WillSend(s, x)
  <2>1. job[s].got[x] = truth[x]
    BY <1>12, <1>3 DEF WillSend
  <2>2. PICK i \in 1..2 : x \in DOMAIN msgs[i] /\ msgs[i][x] = truth[x]
    BY <2>1, <1>4
  <2>3. OnItsWay(d, x)'
    BY <2>2, <1>8, <1>2 DEF OnItsWay
  <2> QED
    BY <2>3 DEF Covered
<1>13. ASSUME NEW r \in Slot, r # s, WillSend(r, x) PROVE Covered(d, x)'
  <2>1. WillSend(r, x)'
    BY <1>13, <1>1, <1>2 DEF WillSend
  <2> QED
    BY <2>1 DEF Covered
<1> QED
  BY <1>9, <1>10, <1>11, <1>12, <1>13 DEF Covered

LEMMA DeliverStep ==
  ASSUME Shape, NothingSkipped, NEW e \in Dash, Deliver(e)
  PROVE  NothingSkipped'
<1>1. UNCHANGED <<truth, listed, job, failures>>
  BY DEF Deliver
<1>2. \A s \in Slot, x \in Source : WillSend(s, x) => WillSend(s, x)'
  BY <1>1 DEF WillSend
<1> SUFFICES ASSUME failures = 0, NEW d \in listed, NEW x \in Source PROVE Covered(d, x)'
  BY <1>1 DEF NothingSkipped
<1>3. Covered(d, x) /\ d \in Dash
  BY DEF NothingSkipped, Shape
<1>4. x \in shown[d] => x \in shown'[d]
  BY <1>3 DEF Deliver, Shape
<1>5. CASE d # e
  <2>1. wire'[d] = wire[d]
    BY <1>3, <1>5 DEF Deliver, Shape
  <2> QED
    BY <2>1, <1>1, <1>2, <1>3, <1>4, StillCovered
<1>6. CASE d = e
  <2>1. CASE OnItsWay(d, x)
    <3>1. PICK i \in 1..Len(wire[d]) : x \in DOMAIN wire[d][i] /\ wire[d][i][x] = truth[x]
      BY <2>1 DEF OnItsWay
    <3>2. wire[d] \in Seq(Reading) /\ wire[d] # <<>> /\ wire'[d] = Tail(wire[d])
      BY <1>3, <1>6 DEF Deliver, Shape
    <3>3. CASE i = 1
      <4>1. wire[d][1] = Head(wire[d])
        BY <3>2
      <4>2. x \in shown'[d]
        BY <3>1, <3>3, <4>1, <1>3, <1>6 DEF Deliver, Shape
      <4> QED
        BY <4>2 DEF Covered
    <3>4. CASE i # 1
      <4>1. i - 1 \in 1..Len(wire'[d]) /\ wire'[d][i - 1] = wire[d][i]
        BY <3>2, <3>4
      <4>2. OnItsWay(d, x)'
        BY <4>1, <3>1, <1>1 DEF OnItsWay
      <4> QED
        BY <4>2 DEF Covered
    <3> QED
      BY <3>3, <3>4
  <2>2. CASE ~ OnItsWay(d, x)
    BY <2>2, <1>2, <1>3, <1>4 DEF Covered
  <2> QED
    BY <2>1, <2>2
<1> QED
  BY <1>5, <1>6

(* Requests for the overview change nothing that messages depend on. *)
LEMMA OtherStep ==
  ASSUME Shape, NothingSkipped,
         \/ \E d \in Dash : \/ AskOverview(d) \/ ApplyOverview(d) \/ OverviewFails(d)
                            \/ \E x \in Table : ReadOverview(d, x)
         \/ UNCHANGED vars
  PROVE  NothingSkipped'
<1>1. UNCHANGED <<truth, listed, job, wire, failures, shown>>
  BY DEF AskOverview, ApplyOverview, OverviewFails, ReadOverview, vars
<1> QED
  BY <1>1 DEF NothingSkipped, Covered, OnItsWay, WillSend

LEMMA NothingSkippedInvariant == Spec => []NothingSkipped
<1>1. Init => NothingSkipped
  BY DEF Init, NothingSkipped
<1>2. Shape /\ NothingSkipped /\ [Next]_vars => NothingSkipped'
  <2> SUFFICES ASSUME Shape, NothingSkipped, [Next]_vars PROVE NothingSkipped'
    OBVIOUS
  <2>1. ASSUME NEW s \in Slot, StatementFails(s) PROVE NothingSkipped'
    BY <2>1 DEF StatementFails, NothingSkipped, Shape
  <2> QED
    BY <2>1, NextActions, MessageStep, StoreStep, CommandStep, ReadStep, BroadcastStep,
       DeliverStep, OtherStep
<1> QED
  BY <1>1, <1>2, ShapeInvariant, PTL DEF Spec

(* However many handlers overlap and however slow their statements are, a    *)
(* connected dashboard is sent the last version of everything, rows that a   *)
(* heartbeat puts online again included, as long as no statement fails.      *)
THEOREM ChangesAreShown == Spec => []EveryChangeShown
<1>1. Shape /\ NothingSkipped => EveryChangeShown
  <2> SUFFICES ASSUME Shape, NothingSkipped, Quiet, failures = 0, NEW d \in listed
               PROVE  shown[d] = Source
    BY DEF EveryChangeShown
  <2>1. \A x \in Source : Covered(d, x)
    BY DEF NothingSkipped
  <2>2. wire[d] = <<>> /\ shown[d] \in SUBSET Source
    BY DEF Quiet, Shape
  <2>3. \A x : ~ OnItsWay(d, x)
    BY <2>2 DEF OnItsWay
  <2>4. \A s \in Slot, x \in Source : ~ WillSend(s, x)
    BY DEF Quiet, WillSend
  <2> QED
    BY <2>1, <2>2, <2>3, <2>4 DEF Covered
<1> QED
  BY <1>1, ShapeInvariant, NothingSkippedInvariant, PTL

=============================================================================
