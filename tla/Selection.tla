----------------------------- MODULE Selection ------------------------------
(***************************************************************************)
(* Which PC a command goes to: the target an app has selected, moved by    *)
(* the user's menu, by the lists the backend sends and by voice commands,  *)
(* whose meaning the backend works out while lists and selection go on     *)
(* changing.                                                               *)
(*                                                                         *)
(* The mobile app and the desktop app keep the selection differently and   *)
(* only the mobile app has a voice.  A list holds each agent once, in any  *)
(* order.  Dials and losses of the connection are MobileClient's and       *)
(* PcClients' subject; here they come as they like.                        *)
(***************************************************************************)
EXTENDS Intent

CONSTANTS Agent, NameOf,
          Lists,    \* the lists the backend may send
          Within,   \* the names that contain a name, as a piece of text
          Flow,     \* voice flows that may overlap
          Nobody, Nothing

ASSUME AgentAssumption ==
  /\ NameOf \in [Agent -> Name]
  /\ Lists \subseteq {l \in Seq(Agent) : IsInjective(l)}
  /\ << >> \in Lists
  /\ Within \in [Name -> SUBSET Name]
  /\ \A n \in Name : n \in Within[n]
  /\ Nobody \notin Agent

VARIABLES
  app,       \* which app this is
  link,      \* its _socket: none, dialled, or acknowledged
  agents,    \* the list it shows
  selected,  \* selectedAgentId
  menu,      \* the agents an open dropdown offers; it keeps those it opened with
  asked,     \* the question a voice flow has put to the backend
  chosen,    \* history: the agent last picked from the menu or by voice
  missed,    \* history: a list shown since then was without it
  sent       \* the command this step put on the socket

vars == <<app, link, agents, selected, menu, asked, chosen, missed, sent>>

Action == Range(Patterns) \cup {"button", "ask_clarification"}
Question == [says : Sentence, list : Lists]
Command == [to : Agent, action : Action]

TypeOK ==
  /\ app \in {"mobile", "desktop"}
  /\ link \in {"down", "dialled", "up"}
  /\ agents \in Lists
  /\ selected \in Agent \cup {Nobody}
  /\ menu \subseteq Agent
  /\ asked \in [Flow -> Question \cup {Nothing}]
  /\ chosen \in Agent \cup {Nobody}
  /\ missed \in BOOLEAN
  /\ sent \in Command \cup {Nothing}

Init ==
  /\ app \in {"mobile", "desktop"}
  /\ link = "down"
  /\ agents = << >>
  /\ selected = Nobody
  /\ menu = {}
  /\ asked = [f \in Flow |-> Nothing]
  /\ chosen = Nobody
  /\ missed = FALSE
  /\ sent = Nothing

-----------------------------------------------------------------------------
LinkChanges ==
  /\ link' \in {"down", "dialled", "up"} \ {link}
  /\ sent' = Nothing
  /\ UNCHANGED <<app, agents, selected, menu, asked, chosen, missed>>

(* Mutant: the first agent, whoever was selected. *)
SelectFirst(list) == IF list = << >> THEN Nobody ELSE list[1]

(* _synchronizeSelectedAgent; the desktop app does it in its handler. *)
Synchronized(list) ==
  CASE selected \in Range(list) -> selected
    [] selected \notin Range(list) /\ list # << >> -> list[1]
    [] list = << >> -> IF app = "mobile" THEN Nobody ELSE selected

(* A device.state message, or the answer of a REST request (mobile only).  *)
(* The desktop app takes lists from connections it has forgotten, too.     *)
(* The mobile app's menu goes with the last agent, the desktop's is inert. *)
ListArrives(list) ==
  /\ agents' = list
  /\ selected' = Synchronized(list)
  /\ menu' = IF list = << >> /\ app = "mobile" THEN {} ELSE menu
  /\ missed' = (missed \/ chosen \notin Range(list))
  /\ sent' = Nothing
  /\ UNCHANGED <<app, link, asked, chosen>>

-----------------------------------------------------------------------------
OpenMenu ==
  /\ agents # << >> /\ menu = {}
  /\ menu' = Range(agents)
  /\ sent' = Nothing
  /\ UNCHANGED <<app, link, agents, selected, asked, chosen, missed>>

(* updateSelectedAgent() *)
Select(a) ==
  /\ selected' = a
  /\ chosen' = a
  /\ missed' = (a \notin Range(agents))

(* An agent that has left the list while the menu was open can be picked.  *)
PickFromMenu(a) ==
  /\ a \in menu
  /\ menu' = {}
  /\ IF agents = << >> THEN UNCHANGED <<selected, chosen, missed>> ELSE Select(a)
  /\ sent' = Nothing
  /\ UNCHANGED <<app, link, agents, asked>>

DismissMenu ==
  /\ menu # {}
  /\ menu' = {}
  /\ sent' = Nothing
  /\ UNCHANGED <<app, link, agents, selected, asked, chosen, missed>>

(* Mutant: the target is not checked. *)
SendUnchecked(target, action) ==
  sent' = IF link = "down" THEN Nothing ELSE [to |-> target, action |-> action]

(* sendCommand(): nothing without a socket or without a target. *)
SendCommand(target, action) ==
  sent' = IF link = "down" \/ target = Nobody THEN Nothing
          ELSE [to |-> target, action |-> action]

(* The mobile app's buttons wait for the acknowledgement. *)
PressButton ==
  /\ app = "mobile" => link = "up" /\ selected # Nobody
  /\ SendCommand(selected, "button")
  /\ UNCHANGED <<app, link, agents, selected, menu, asked, chosen, missed>>

-----------------------------------------------------------------------------
(* _processTranscribedText up to its request; a request without agents is  *)
(* answered 400.                                                           *)
Ask(f, s) ==
  /\ app = "mobile"
  /\ asked[f] = Nothing
  /\ agents # << >>
  /\ asked' = [asked EXCEPT ![f] = [says |-> s, list |-> agents]]
  /\ sent' = Nothing
  /\ UNCHANGED <<app, link, agents, selected, menu, chosen, missed>>

Intended(q) == Parse(q.says, [i \in DOMAIN q.list |-> NameOf[q.list[i]]])

(* The agents of the list as it is now whose names contain the answer's.   *)
Targets(intent) ==
  IF intent.targetAgent = "all" THEN Range(agents)
  ELSE {a \in Range(agents) : NameOf[a] \in Within[intent.targetAgent]}

Elsewhere == {"set_name", "ask_clarification", "open_remote_desktop"}

(* Mutant: the command goes to whatever is selected. *)
CommandToSelected(f) ==
  /\ asked[f] # Nothing
  /\ asked' = [asked EXCEPT ![f] = Nothing]
  /\ LET intent == Intended(asked[f]) IN
       /\ intent.command \notin Elsewhere
       /\ Targets(intent) # {}
       /\ SendCommand(selected, intent.command)
  /\ UNCHANGED <<app, link, agents, selected, menu, chosen, missed>>

(* The first target becomes the selection, and the command goes to it. *)
VoiceCommand(f) ==
  /\ asked[f] # Nothing
  /\ asked' = [asked EXCEPT ![f] = Nothing]
  /\ LET intent == Intended(asked[f])
         first == FirstIn(agents, Targets(intent), Nobody)
     IN /\ intent.command \notin Elsewhere
        /\ Targets(intent) # {}
        /\ Select(first)
        /\ SendCommand(first, intent.command)
  /\ UNCHANGED <<app, link, agents, menu>>

(* An error, a timeout, an intent without a PC, or "I couldn't find ...".  *)
NoCommand(f) ==
  /\ asked[f] # Nothing
  /\ asked' = [asked EXCEPT ![f] = Nothing]
  /\ sent' = Nothing
  /\ UNCHANGED <<app, link, agents, selected, menu, chosen, missed>>

-----------------------------------------------------------------------------
Next ==
  \/ LinkChanges
  \/ \E l \in Lists : ListArrives(l)
  \/ OpenMenu \/ DismissMenu \/ PressButton
  \/ \E a \in Agent : PickFromMenu(a)
  \/ \E f \in Flow : (\E s \in Sentence : Ask(f, s)) \/ VoiceCommand(f) \/ NoCommand(f)

Spec == Init /\ [][Next]_vars

-----------------------------------------------------------------------------
(* The selection leaves the agent the user chose, from the menu or by      *)
(* voice, only when a list without that agent was shown in between, so a   *)
(* button pressed while it stays listed cannot command another PC.  What   *)
(* is selected is in the list, apart from a pick of an agent that had left *)
(* it and a desktop app whose list is empty; the mobile app has a          *)
(* selection exactly when its list has agents, as its buttons assume.      *)
SelectionStays ==
  /\ chosen # Nobody /\ selected # chosen => missed
  /\ selected \in Agent \ Range(agents) =>
       (selected = chosen /\ missed) \/ (app = "desktop" /\ agents = << >>)
  /\ app = "mobile" => (selected = Nobody <=> agents = << >>)

(* Nothing but a is meant by the sentence, among the agents it was put     *)
(* beside and, by its name, among those listed now.                        *)
Unmistakable(q, a) ==
  /\ NameOf[a] \in Named[q.says]
  /\ a \in Range(q.list)
  /\ \A b \in Range(q.list) : NameOf[b] \in SoundsLike(q.says) => b = a
  /\ \A b \in Range(agents) : NameOf[b] \in Within[NameOf[a]] => b = a

(* A sentence that names one PC and sounds like no other commands that PC, *)
(* with the first command it has a keyword of, whatever was selected       *)
(* meanwhile and however the list has been reordered since it was asked.   *)
HitsNamed(f, a) ==
  (asked[f] # Nothing /\ asked'[f] = Nothing /\ sent' # Nothing /\ Unmistakable(asked[f], a))
  => /\ sent' = [to |-> a, action |-> DetectedCommand(asked[f].says)]
     /\ selected' = a

VoiceHitsNamed == [][\A f \in Flow, a \in Agent : HitsNamed(f, a)]_vars

=============================================================================
