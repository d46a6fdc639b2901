---------------------------- MODULE VoiceEngine ----------------------------
(***************************************************************************)
(* The voice relay of the mobile app: an utterance is recorded, parsed by  *)
(* the backend, carried out and answered aloud.  What the modal shows, and *)
(* whether it lets the user start anything, hangs on one variable, state,  *)
(* which every coroutine of the engine assigns.                            *)
(*                                                                         *)
(* A flow is one run of activate(), processTextCommand() or                *)
(* openRemoteDesktop(); a playback is one run of _playResponse().  Most    *)
(* playbacks are not awaited: they go on after their flow and end by       *)
(* setting the state to idle, under whatever is running by then.  What is  *)
(* said, to whom a command goes and what is answered is left out.          *)
(***************************************************************************)
EXTENDS Integers

CONSTANTS Flow, Play,      \* bound: flows and playbacks at the same time
          NoFlow, NoPlay,
          MaxInits         \* bound: calls of initialize()

ASSUME VoiceAssumption ==
  NoFlow \notin Flow /\ NoPlay \notin Play /\ MaxInits \in Nat \ {0}

VARIABLES
  state,     \* _state
  ready,     \* _initialized
  inits,     \* calls of initialize(); each makes a recorder and a player of its own
  starting,  \* the last of them is under way
  able,      \* the present recorder, RaikoSpeechToText, is initialized
  mic,       \* _isListening of each recorder
  heard,     \* _currentTranscription of each is not empty
  flow,      \* each flow's await
  stt,       \* the recorder a flow records with
  play,      \* each playback's await
  owner,     \* the flow that awaits a playback
  on,        \* the audio player a playback uses, one for each initialize()
  sounding   \* the playback whose audio each player is playing

setup == <<ready, inits, starting, able>>
recorder == <<mic, heard>>
flows == <<flow, stt>>
audio == <<play, owner, on, sounding>>
vars == <<state, setup, recorder, flows, audio>>

Nth == 1..MaxInits
Busy == {"listening", "processing", "confirming", "executing", "speaking"}

TypeOK ==
  /\ state \in {"idle", "error"} \cup Busy
  /\ ready \in BOOLEAN
  /\ inits \in Nth
  /\ starting \in BOOLEAN
  /\ able \in BOOLEAN
  /\ mic \in [Nth -> BOOLEAN]
  /\ heard \in [Nth -> BOOLEAN]
  /\ flow \in [Flow -> {"none", "opening", "recording", "parsing", "saving",
                        "launching", "answering"}]
  /\ stt \in [Flow -> Nth]
  /\ play \in [Play -> {"none", "fetching", "pausing", "loading", "playing"}]
  /\ owner \in [Play -> Flow \cup {NoFlow}]
  /\ on \in [Play -> Nth]
  /\ sounding \in [Nth -> Play \cup {NoPlay}]

(* The dashboard has just called initialize(). *)
Init ==
  /\ state = "idle"
  /\ ready = FALSE
  /\ inits = 1
  /\ starting = TRUE
  /\ able = FALSE
  /\ mic = [n \in Nth |-> FALSE]
  /\ heard = [n \in Nth |-> FALSE]
  /\ flow = [f \in Flow |-> "none"]
  /\ stt = [f \in Flow |-> 1]
  /\ play = [p \in Play |-> "none"]
  /\ owner = [p \in Play |-> NoFlow]
  /\ on = [p \in Play |-> 1]
  /\ sounding = [n \in Nth |-> NoPlay]

-----------------------------------------------------------------------------
(* initialize(), again when the voice settings change; one at a time. *)
Initialize ==
  /\ ~starting
  /\ inits < MaxInits
  /\ inits' = inits + 1
  /\ starting' = TRUE
  /\ able' = FALSE
  /\ UNCHANGED <<state, ready, recorder, flows, audio>>

Initialized ==
  /\ starting
  /\ starting' = FALSE
  /\ able' = TRUE
  /\ ready' = TRUE
  /\ state' = "idle"
  /\ UNCHANGED <<inits, recorder, flows, audio>>

InitializeFails ==
  /\ starting
  /\ starting' = FALSE
  /\ able' \in BOOLEAN
  /\ state' = "error"
  /\ UNCHANGED <<ready, inits, recorder, flows, audio>>

-----------------------------------------------------------------------------
(* The modal offers its controls in the idle state only. *)
Offered(f) ==
  /\ ready
  /\ state = "idle"
  /\ flow[f] = "none"

Goto(f, from, to) ==
  /\ flow[f] = from
  /\ flow' = [flow EXCEPT ![f] = to]

End(f, from) == Goto(f, from, "none")

(* activate(): the microphone is taken, or "Already listening for speech", *)
(* thrown inside the try block whose handler resets the recorder's flag.   *)
Activate(f) ==
  /\ Offered(f)
  /\ IF able /\ ~mic[inits]
     THEN /\ state' = "listening"
          /\ mic' = [mic EXCEPT ![inits] = TRUE]
          /\ flow' = [flow EXCEPT ![f] = "opening"]
          /\ stt' = [stt EXCEPT ![f] = inits]
     ELSE /\ state' = "error"
          /\ mic' = [mic EXCEPT ![inits] = FALSE]
          /\ UNCHANGED flows
  /\ heard' = [heard EXCEPT ![inits] = FALSE]
  /\ UNCHANGED <<setup, audio>>

(* processTextCommand() *)
TypeText(f) ==
  /\ Offered(f)
  /\ Goto(f, "none", "parsing")
  /\ state' = "processing"
  /\ UNCHANGED <<setup, recorder, stt, audio>>

(* openRemoteDesktop() *)
RemoteDesktop(f) ==
  /\ Offered(f)
  /\ Goto(f, "none", "launching")
  /\ state' = "executing"
  /\ UNCHANGED <<setup, recorder, stt, audio>>

-----------------------------------------------------------------------------
(* Recording. *)
Opened(f) ==
  /\ Goto(f, "opening", "recording")
  /\ UNCHANGED <<state, setup, recorder, stt, audio>>

(* Mutant: the flag is not reset when the plugin fails. *)
OpenFailsDeaf(f) ==
  /\ End(f, "opening")
  /\ heard' = [heard EXCEPT ![stt[f]] = FALSE]
  /\ state' = "error"
  /\ UNCHANGED <<setup, mic, stt, audio>>

OpenFails(f) ==
  /\ End(f, "opening")
  /\ mic' = [mic EXCEPT ![stt[f]] = FALSE]
  /\ heard' = [heard EXCEPT ![stt[f]] = FALSE]
  /\ state' = "error"
  /\ UNCHANGED <<setup, stt, audio>>

Hear(f) ==
  /\ flow[f] \in {"opening", "recording"}
  /\ heard' = [heard EXCEPT ![stt[f]] = TRUE]
  /\ UNCHANGED <<state, setup, mic, flows, audio>>

(* Ten seconds and one: whatever was recognized is taken. *)
RecordingEnds(f) ==
  /\ Goto(f, "recording", IF heard[stt[f]] THEN "parsing" ELSE "none")
  /\ state' = IF heard[stt[f]] THEN "processing" ELSE "error"
  /\ mic' = [mic EXCEPT ![stt[f]] = FALSE]
  /\ heard' = [heard EXCEPT ![stt[f]] = FALSE]
  /\ UNCHANGED <<setup, stt, audio>>

-----------------------------------------------------------------------------
(* Carrying out. *)

(* _playResponse() runs to its first await: the request for the audio. *)
Start(p, f) ==
  /\ play[p] = "none"
  /\ play' = [play EXCEPT ![p] = "fetching"]
  /\ owner' = [owner EXCEPT ![p] = f]
  /\ UNCHANGED <<on, sounding>>

(* A question, or the answer to a new name: spoken while the state is idle. *)
SayAndLeave(f, from, p) ==
  /\ End(f, from)
  /\ Start(p, NoFlow)
  /\ state' = "idle"
  /\ UNCHANGED <<setup, recorder, stt>>

AskBack(f, p) == SayAndLeave(f, "parsing", p)

TakeName(f) ==
  /\ Goto(f, "parsing", "saving")
  /\ UNCHANGED <<state, setup, recorder, stt, audio>>

NameSaved(f, p) == SayAndLeave(f, "saving", p)

TakeRemoteDesktop(f) ==
  /\ Goto(f, "parsing", "launching")
  /\ state' = "executing"
  /\ UNCHANGED <<setup, recorder, stt, audio>>

(* Mutant: a command without confirmation leaves no playback to end it. *)
CommandUnanswered(f, p, q) ==
  /\ End(f, "parsing")
  /\ state' = "speaking"
  /\ UNCHANGED <<setup, recorder, stt, audio>>

(* A command: announced by a playback q, which nothing waits for, if        *)
(* confirmBeforeExecute is set (else q = p), sent at once, and reported as  *)
(* a success by p, which is awaited.                                        *)
Command(f, p, q) ==
  /\ Goto(f, "parsing", "answering")
  /\ play[p] = "none"
  /\ play[q] = "none"
  /\ play' = [r \in Play |-> IF r \in {p, q} THEN "fetching" ELSE play[r]]
  /\ owner' = [r \in Play |-> IF r = p THEN f ELSE IF r = q THEN NoFlow ELSE owner[r]]
  /\ state' = "speaking"
  /\ UNCHANGED <<setup, recorder, stt, on, sounding>>

Launched(f, p) ==
  /\ Goto(f, "launching", "answering")
  /\ Start(p, f)
  /\ state' = "speaking"
  /\ UNCHANGED <<setup, recorder, stt>>

(* The request, the settings store or AnyDesk throws. *)
FlowFails(f) ==
  /\ \E from \in {"parsing", "saving", "launching"} : End(f, from)
  /\ state' = "error"
  /\ UNCHANGED <<setup, recorder, stt, audio>>

-----------------------------------------------------------------------------
(* Speaking. *)
Continue(p, from, to) ==
  /\ play[p] = from
  /\ play' = [play EXCEPT ![p] = to]

(* Playbacks end idle, and with them the flows that await them. *)
Finish(ps) ==
  /\ play' = [p \in Play |-> IF p \in ps THEN "none" ELSE play[p]]
  /\ owner' = [p \in Play |-> IF p \in ps THEN NoFlow ELSE owner[p]]
  /\ flow' = [f \in Flow |-> IF \E p \in ps : owner[p] = f THEN "none" ELSE flow[f]]
  /\ state' = "idle"
  /\ UNCHANGED <<setup, recorder, stt>>

Fetched(p) ==
  /\ Continue(p, "fetching", "loading")
  /\ on' = [on EXCEPT ![p] = inits]
  /\ UNCHANGED <<state, setup, recorder, flows, owner, sounding>>

(* No audio: one second later it ends. *)
FetchFails(p) ==
  /\ Continue(p, "fetching", "pausing")
  /\ UNCHANGED <<state, setup, recorder, flows, owner, on, sounding>>

(* Mutant: the playback is left in the state meant for the engine. *)
PausedToIdle(p) ==
  /\ Continue(p, "pausing", "idle")
  /\ state' = "idle"
  /\ UNCHANGED <<setup, recorder, flows, owner, on, sounding>>

Paused(p) ==
  /\ play[p] = "pausing"
  /\ Finish({p})
  /\ UNCHANGED <<on, sounding>>

(* The player drops what it was playing.  The completion of the present     *)
(* player is waited for, which initialize() may have replaced meanwhile.    *)
Loaded(p) ==
  /\ Continue(p, "loading", "playing")
  /\ sounding' = [sounding EXCEPT ![on[p]] = p]
  /\ on' = [on EXCEPT ![p] = inits]
  /\ UNCHANGED <<state, setup, recorder, flows, owner>>

LoadFails(p) ==
  /\ play[p] = "loading"
  /\ Finish({p})
  /\ UNCHANGED <<on, sounding>>

(* onPlayerComplete reaches everybody who waits for it. *)
PlayerCompletes(n) ==
  /\ sounding[n] # NoPlay
  /\ sounding' = [sounding EXCEPT ![n] = NoPlay]
  /\ LET waiting == {p \in Play : play[p] = "playing" /\ on[p] = n}
     IN  IF waiting = {} THEN UNCHANGED <<state, setup, recorder, flows, play, owner>>
                         ELSE Finish(waiting)
  /\ UNCHANGED on

(* Mutant: without the timeout, a playback waits for its own audio only. *)
TimeoutIfSounding(p) ==
  /\ play[p] = "playing"
  /\ sounding[on[p]] = p
  /\ Finish({p})
  /\ sounding' = [sounding EXCEPT ![inits] = NoPlay]
  /\ UNCHANGED on

(* Fifteen seconds without completion: the present player is stopped. *)
Timeout(p) ==
  /\ play[p] = "playing"
  /\ Finish({p})
  /\ sounding' = [sounding EXCEPT ![inits] = NoPlay]
  /\ UNCHANGED on

-----------------------------------------------------------------------------
User == \E f \in Flow : Activate(f) \/ TypeText(f) \/ RemoteDesktop(f)

FlowStep(f) ==
  \/ Opened(f) \/ OpenFails(f) \/ RecordingEnds(f)
  \/ TakeName(f) \/ TakeRemoteDesktop(f) \/ FlowFails(f)
  \/ \E p \in Play : AskBack(f, p) \/ NameSaved(f, p) \/ Launched(f, p)
  \/ \E p, q \in Play : Command(f, p, q)

PlayStep(p) ==
  \/ Fetched(p) \/ FetchFails(p) \/ Paused(p)
  \/ Loaded(p) \/ LoadFails(p) \/ Timeout(p)

Next ==
  \/ Initialize \/ Initialized \/ InitializeFails
  \/ User
  \/ \E f \in Flow : FlowStep(f) \/ Hear(f)
  \/ \E p \in Play : PlayStep(p)
  \/ \E n \in Nth : PlayerCompletes(n)

Spec == Init /\ [][Next]_vars

(* Requests, the recorder's delay, the plugins and the 15 s timeout end;   *)
(* completions need not come, and the user owes nothing.                   *)
Fairness ==
  /\ WF_vars(Initialized \/ InitializeFails)
  /\ \A f \in Flow : WF_vars(FlowStep(f))
  /\ \A p \in Play : WF_vars(PlayStep(p))

FairSpec == Spec /\ Fairness

-----------------------------------------------------------------------------
Recording(f) == flow[f] \in {"opening", "recording"}

(* The modal never shows that something is going on, which takes its       *)
(* controls away, when nothing is: whichever coroutines overlapped, the    *)
(* last to end has set the state to idle or error.                         *)
BusyMeansRunning ==
  state \in Busy => (\E f \in Flow : flow[f] # "none") \/ (\E p \in Play : play[p] # "none")

(* The recorder's flag is set only while somebody records with it, so no   *)
(* failure leaves the microphone refused for good.                         *)
MicIsReleased == \A n \in Nth : mic[n] => \E f \in Flow : Recording(f) /\ stt[f] = n

(* Nothing hangs: a flow ends, even when the audio it waits for is dropped *)
(* for another or never completes.                                         *)
FlowsEnd == \A f \in Flow : flow[f] # "none" ~> flow[f] = "none"

=============================================================================
