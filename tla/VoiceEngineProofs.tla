------------------------- MODULE VoiceEngineProofs -------------------------
(* Machine-checked proofs about VoiceEngine, for any number of flows,      *)
(* playbacks and calls of initialize() at the same time.                   *)
EXTENDS VoiceEngine, TLAPS

(* The end of some playbacks touches the flows that await them, nothing else. *)
LEMMA FinishTypes ==
  ASSUME TypeOK, NEW ps \in SUBSET Play, Finish(ps)
  PROVE  /\ state' = "idle"
         /\ flow' \in [Flow -> {"none", "opening", "recording", "parsing", "saving",
                               "launching", "answering"}]
         /\ play' \in [Play -> {"none", "fetching", "pausing", "loading", "playing"}]
         /\ owner' \in [Play -> Flow \cup {NoFlow}]
         /\ UNCHANGED <<ready, inits, starting, able, mic, heard, stt>>
<1> USE DEF TypeOK, Finish, setup, recorder
<1>1. flow' \in [Flow -> {"none", "opening", "recording", "parsing", "saving",
                         "launching", "answering"}]
  <2>1. \A f \in Flow : flow[f] \in {"none", "opening", "recording", "parsing", "saving",
                                    "launching", "answering"}
    OBVIOUS
  <2>2. \A f \in Flow :
          (IF \E p \in ps : owner[p] = f THEN "none" ELSE flow[f]) \in
            {"none", "opening", "recording", "parsing", "saving", "launching", "answering"}
    BY <2>1
  <2> QED
    BY <2>2
<1>2. /\ play' \in [Play -> {"none", "fetching", "pausing", "loading", "playing"}]
      /\ owner' \in [Play -> Flow \cup {NoFlow}]
  OBVIOUS
<1> QED
  BY <1>1, <1>2

(* The engine's fields and every coroutine's await keep their types        *)
(* (raiko_voice_engine.dart:31-38).                                        *)
THEOREM TypeCorrect == Spec => []TypeOK
<1>1. Init => TypeOK
  <2> SUFFICES ASSUME Init PROVE TypeOK
    OBVIOUS
  <2>1. 1 \in Nth
    BY VoiceAssumption DEF Nth
  <2> QED
    BY <2>1 DEF Init, TypeOK
<1>2. TypeOK /\ [Next]_vars => TypeOK'
  <2> SUFFICES ASSUME TypeOK, [Next]_vars PROVE TypeOK'
    OBVIOUS
  <2> USE DEF TypeOK, setup, recorder, flows, audio, Goto, End, Start, Continue
  <2>1. CASE UNCHANGED vars
    BY <2>1 DEF vars
  <2>2. CASE Initialize \/ Initialized \/ InitializeFails
    <3>1. Initialize => inits + 1 \in Nth
      BY VoiceAssumption DEF Initialize, Nth
    <3> QED
      BY <2>2, <3>1 DEF Initialize, Initialized, InitializeFails
  <2>3. ASSUME NEW f \in Flow, Activate(f) \/ TypeText(f) \/ RemoteDesktop(f) PROVE TypeOK'
    <3>1. ASSUME Activate(f) PROVE TypeOK'
      <4>1. state' \in {"idle", "error"} \cup Busy
        BY <3>1 DEF Activate, Busy
      <4>2. mic' \in [Nth -> BOOLEAN] /\ heard' \in [Nth -> BOOLEAN]
        BY <3>1 DEF Activate
      <4>3. flow' \in [Flow -> {"none", "opening", "recording", "parsing", "saving",
                               "launching", "answering"}]
        BY <3>1 DEF Activate
      <4>4. stt' \in [Flow -> Nth]
        BY <3>1 DEF Activate
      <4> QED
        BY <3>1, <4>1, <4>2, <4>3, <4>4 DEF Activate
    <3>2. TypeText(f) \/ RemoteDesktop(f) => TypeOK'
      BY DEF TypeText, RemoteDesktop, Busy
    <3> QED
      BY <2>3, <3>1, <3>2
  <2>4. ASSUME NEW f \in Flow,
               Opened(f) \/ OpenFails(f) \/ RecordingEnds(f) \/ Hear(f)
        PROVE  TypeOK'
    BY <2>4 DEF Opened, OpenFails, RecordingEnds, Hear, Busy
  <2>5. ASSUME NEW f \in Flow, TakeName(f) \/ TakeRemoteDesktop(f) \/ FlowFails(f)
        PROVE  TypeOK'
    BY <2>5 DEF TakeName, TakeRemoteDesktop, FlowFails, Busy
  <2>6. ASSUME NEW f \in Flow, NEW p \in Play,
               AskBack(f, p) \/ NameSaved(f, p) \/ Launched(f, p)
        PROVE  TypeOK'
    BY <2>6 DEF AskBack, NameSaved, Launched, SayAndLeave, Busy
  <2>7. ASSUME NEW f \in Flow, NEW p \in Play, NEW q \in Play, Command(f, p, q)
        PROVE  TypeOK'
    BY <2>7 DEF Command, Busy
  <2>8. ASSUME NEW p \in Play, Fetched(p) \/ FetchFails(p) \/ Loaded(p) PROVE TypeOK'
    BY <2>8 DEF Fetched, FetchFails, Loaded
  <2>9. ASSUME NEW p \in Play, Paused(p) \/ LoadFails(p) \/ Timeout(p) PROVE TypeOK'
    <3>1. Finish({p})
      BY <2>9 DEF Paused, LoadFails, Timeout
    <3>2. on' \in [Play -> Nth] /\ sounding' \in [Nth -> Play \cup {NoPlay}]
      BY <2>9 DEF Paused, LoadFails, Timeout
    <3> QED
      BY <3>1, <3>2, FinishTypes
  <2>10. ASSUME NEW n \in Nth, PlayerCompletes(n) PROVE TypeOK'
    <3>1. on' \in [Play -> Nth] /\ sounding' \in [Nth -> Play \cup {NoPlay}]
      BY <2>10 DEF PlayerCompletes
    <3>2. CASE UNCHANGED <<state, setup, recorder, flows, play, owner>>
      BY <3>1, <3>2
    <3>3. ASSUME NEW ps \in SUBSET Play, Finish(ps) PROVE TypeOK'
      BY <3>1, <3>3, FinishTypes
    <3> QED
      BY <2>10, <3>2, <3>3 DEF PlayerCompletes
  <2> QED
    BY <2>1, <2>2, <2>3, <2>4, <2>5, <2>6, <2>7, <2>8, <2>9, <2>10
    DEF Next, User, FlowStep, PlayStep
<1> QED
  BY <1>1, <1>2, PTL DEF Spec

-----------------------------------------------------------------------------
(* Nothing is shown as going on when nothing is: every coroutine that ends *)
(* has set the state to idle or error.                                     *)
THEOREM BusyIsRunning == Spec => []BusyMeansRunning
<1> DEFINE Running == (\E f \in Flow : flow[f] # "none") \/ (\E p \in Play : play[p] # "none")
<1>1. Init => BusyMeansRunning
  BY DEF Init, BusyMeansRunning, Busy
<1>2. TypeOK /\ BusyMeansRunning /\ [Next]_vars => BusyMeansRunning'
  <2> SUFFICES ASSUME TypeOK, BusyMeansRunning, [Next]_vars PROVE BusyMeansRunning'
    OBVIOUS
  <2> USE DEF TypeOK, BusyMeansRunning, Busy, setup, recorder, flows, audio, Goto, End,
          Start, Continue
  <2>1. CASE UNCHANGED vars
    BY <2>1 DEF vars
  <2>2. CASE Initialize \/ Initialized \/ InitializeFails
    BY <2>2 DEF Initialize, Initialized, InitializeFails
  <2>3. ASSUME NEW f \in Flow, Activate(f) \/ TypeText(f) \/ RemoteDesktop(f)
        PROVE  BusyMeansRunning'
    BY <2>3 DEF Activate, TypeText, RemoteDesktop
  <2>4. ASSUME NEW f \in Flow,
               Opened(f) \/ OpenFails(f) \/ RecordingEnds(f) \/ Hear(f)
        PROVE  BusyMeansRunning'
    BY <2>4 DEF Opened, OpenFails, RecordingEnds, Hear
  <2>5. ASSUME NEW f \in Flow, TakeName(f) \/ TakeRemoteDesktop(f) \/ FlowFails(f)
        PROVE  BusyMeansRunning'
    BY <2>5 DEF TakeName, TakeRemoteDesktop, FlowFails
  <2>6. ASSUME NEW f \in Flow, NEW p \in Play,
               AskBack(f, p) \/ NameSaved(f, p) \/ Launched(f, p)
        PROVE  BusyMeansRunning'
    BY <2>6 DEF AskBack, NameSaved, Launched, SayAndLeave
  <2>7. ASSUME NEW f \in Flow, NEW p \in Play, NEW q \in Play, Command(f, p, q)
        PROVE  BusyMeansRunning'
    BY <2>7 DEF Command
  <2>8. ASSUME NEW p \in Play, Fetched(p) \/ FetchFails(p) \/ Loaded(p)
        PROVE  BusyMeansRunning'
    BY <2>8 DEF Fetched, FetchFails, Loaded
  <2>9. ASSUME NEW p \in Play, Paused(p) \/ LoadFails(p) \/ Timeout(p)
        PROVE  BusyMeansRunning'
    BY <2>9 DEF Paused, LoadFails, Timeout, Finish
  <2>10. ASSUME NEW n \in Nth, PlayerCompletes(n) PROVE BusyMeansRunning'
    BY <2>10 DEF PlayerCompletes, Finish
  <2> QED
    BY <2>1, <2>2, <2>3, <2>4, <2>5, <2>6, <2>7, <2>8, <2>9, <2>10
    DEF Next, User, FlowStep, PlayStep
<1> QED
  BY <1>1, <1>2, TypeCorrect, PTL DEF Spec

-----------------------------------------------------------------------------
(* A playback that is awaited is awaited by one flow, and that flow does   *)
(* nothing else; so the end of a playback never ends a recording.          *)
Awaiting ==
  /\ \A p \in Play : owner[p] # NoFlow => flow[owner[p]] = "answering"
  /\ \A p, q \in Play : owner[p] = owner[q] /\ p # q => owner[p] = NoFlow

LEMMA FinishAwaiting ==
  ASSUME TypeOK, Awaiting, NEW ps \in SUBSET Play, Finish(ps)
  PROVE  Awaiting' /\ \A f \in Flow : Recording(f) => flow'[f] = flow[f]
<1>1. \A p \in Play : owner'[p] # NoFlow => p \notin ps /\ owner'[p] = owner[p]
  BY DEF Finish, TypeOK
<1>2. \A p \in Play \ ps : owner[p] # NoFlow => flow'[owner[p]] = flow[owner[p]]
  BY DEF Finish, TypeOK, Awaiting
<1>3. \A f \in Flow : Recording(f) => flow'[f] = flow[f]
  BY VoiceAssumption DEF Finish, TypeOK, Awaiting, Recording
<1>4. \A p \in Play : owner'[p] # NoFlow => flow'[owner'[p]] = "answering"
  BY <1>1, <1>2 DEF Awaiting
<1>5. ASSUME NEW p \in Play, NEW q \in Play, owner'[p] = owner'[q], p # q
      PROVE  owner'[p] = NoFlow
  <2>1. ASSUME owner'[p] # NoFlow PROVE FALSE
    <3>1. owner'[p] = owner[p] /\ owner'[q] = owner[q]
      BY <1>1, <1>5, <2>1
    <3> QED
      BY <3>1, <1>5, <2>1 DEF Awaiting
  <2> QED
    BY <2>1
<1>6. Awaiting'
  BY <1>4, <1>5 DEF Awaiting
<1> QED
  BY <1>3, <1>6

LEMMA AwaitingInvariant == Spec => []Awaiting
<1>1. Init => Awaiting
  BY DEF Init, Awaiting
<1>2. TypeOK /\ Awaiting /\ [Next]_vars => Awaiting'
  <2> SUFFICES ASSUME TypeOK, Awaiting, [Next]_vars PROVE Awaiting'
    OBVIOUS
  <2> USE VoiceAssumption DEF TypeOK, Awaiting, setup, recorder, flows, audio, Goto, End,
          Start, Continue
  <2>1. CASE UNCHANGED vars
    BY <2>1 DEF vars
  <2>2. CASE Initialize \/ Initialized \/ InitializeFails
    BY <2>2 DEF Initialize, Initialized, InitializeFails
  <2>3. ASSUME NEW f \in Flow, Activate(f) \/ TypeText(f) \/ RemoteDesktop(f)
        PROVE  Awaiting'
    BY <2>3 DEF Activate, TypeText, RemoteDesktop, Offered
  <2>4. ASSUME NEW f \in Flow,
               Opened(f) \/ OpenFails(f) \/ RecordingEnds(f) \/ Hear(f)
        PROVE  Awaiting'
    BY <2>4 DEF Opened, OpenFails, RecordingEnds, Hear
  <2>5. ASSUME NEW f \in Flow, TakeName(f) \/ TakeRemoteDesktop(f) \/ FlowFails(f)
        PROVE  Awaiting'
    BY <2>5 DEF TakeName, TakeRemoteDesktop, FlowFails
  <2>6. ASSUME NEW f \in Flow, NEW p \in Play,
               AskBack(f, p) \/ NameSaved(f, p) \/ Launched(f, p)
        PROVE  Awaiting'
    BY <2>6 DEF AskBack, NameSaved, Launched, SayAndLeave
  <2>7. ASSUME NEW f \in Flow, NEW p \in Play, NEW q \in Play, Command(f, p, q)
        PROVE  Awaiting'
    BY <2>7 DEF Command
  <2>8. ASSUME NEW p \in Play, Fetched(p) \/ FetchFails(p) \/ Loaded(p)
        PROVE  Awaiting'
    BY <2>8 DEF Fetched, FetchFails, Loaded
  <2>9. ASSUME NEW p \in Play, Paused(p) \/ LoadFails(p) \/ Timeout(p)
        PROVE  Awaiting'
    BY <2>9, FinishAwaiting DEF Paused, LoadFails, Timeout
  <2>10. ASSUME NEW n \in Nth, PlayerCompletes(n) PROVE Awaiting'
    BY <2>10, FinishAwaiting DEF PlayerCompletes
  <2> QED
    BY <2>1, <2>2, <2>3, <2>4, <2>5, <2>6, <2>7, <2>8, <2>9, <2>10
    DEF Next, User, FlowStep, PlayStep
<1> QED
  BY <1>1, <1>2, TypeCorrect, PTL DEF Spec

(* A recorder's flag outlives no recording (raiko_speech_to_text.dart:56,  *)
(* 72, 78).                                                                *)
THEOREM MicReleased == Spec => []MicIsReleased
<1>1. Init => MicIsReleased
  BY DEF Init, MicIsReleased
<1>2. TypeOK /\ Awaiting /\ MicIsReleased /\ [Next]_vars => MicIsReleased'
  <2> SUFFICES ASSUME TypeOK, Awaiting, MicIsReleased, [Next]_vars PROVE MicIsReleased'
    OBVIOUS
  <2> USE DEF TypeOK, MicIsReleased, Recording, setup, recorder, flows, audio, Goto, End,
          Start, Continue
  <2>1. CASE UNCHANGED vars
    BY <2>1 DEF vars
  <2>2. CASE Initialize \/ Initialized \/ InitializeFails
    BY <2>2 DEF Initialize, Initialized, InitializeFails
  <2>3. ASSUME NEW f \in Flow, Activate(f) \/ TypeText(f) \/ RemoteDesktop(f)
        PROVE  MicIsReleased'
    BY <2>3 DEF Activate, TypeText, RemoteDesktop, Offered
  <2>4. ASSUME NEW f \in Flow,
               Opened(f) \/ OpenFails(f) \/ RecordingEnds(f) \/ Hear(f)
        PROVE  MicIsReleased'
    BY <2>4 DEF Opened, OpenFails, RecordingEnds, Hear
  <2>5. ASSUME NEW f \in Flow, TakeName(f) \/ TakeRemoteDesktop(f) \/ FlowFails(f)
        PROVE  MicIsReleased'
    BY <2>5 DEF TakeName, TakeRemoteDesktop, FlowFails
  <2>6. ASSUME NEW f \in Flow, NEW p \in Play,
               AskBack(f, p) \/ NameSaved(f, p) \/ Launched(f, p)
        PROVE  MicIsReleased'
    BY <2>6 DEF AskBack, NameSaved, Launched, SayAndLeave
  <2>7. ASSUME NEW f \in Flow, NEW p \in Play, NEW q \in Play, Command(f, p, q)
        PROVE  MicIsReleased'
    BY <2>7 DEF Command
  <2>8. ASSUME NEW p \in Play, Fetched(p) \/ FetchFails(p) \/ Loaded(p)
        PROVE  MicIsReleased'
    BY <2>8 DEF Fetched, FetchFails, Loaded
  <2>9. ASSUME NEW p \in Play, Paused(p) \/ LoadFails(p) \/ Timeout(p)
        PROVE  MicIsReleased'
    BY <2>9, FinishTypes, FinishAwaiting DEF Paused, LoadFails, Timeout
  <2>10. ASSUME NEW n \in Nth, PlayerCompletes(n) PROVE MicIsReleased'
    BY <2>10, FinishTypes, FinishAwaiting DEF PlayerCompletes
  <2> QED
    BY <2>1, <2>2, <2>3, <2>4, <2>5, <2>6, <2>7, <2>8, <2>9, <2>10
    DEF Next, User, FlowStep, PlayStep
<1> QED
  BY <1>1, <1>2, TypeCorrect, AwaitingInvariant, PTL DEF Spec

=============================================================================
