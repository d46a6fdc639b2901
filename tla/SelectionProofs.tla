-------------------------- MODULE SelectionProofs --------------------------
(* Machine-checked proofs about Selection, for any agents, names, lists,     *)
(* sentences and number of voice flows.                                      *)
EXTENDS Selection, WellFoundedInduction, TLAPS

-----------------------------------------------------------------------------
(* Facts about the parser's rules. *)

(* A set of numbers that is not empty has a least member.                    *)
LEMMA LeastMember ==
  ASSUME NEW T \in SUBSET Nat, T # {}
  PROVE  \E i \in T : \A j \in T : ~(j < i)
<1> DEFINE Below == OpToRel(<, Nat)
<1>1. IsWellFoundedOn(Below, Nat)
  BY NatLessThanWellFounded
<1>2. \A R, S : IsWellFoundedOn(R, S) =>
        \A U : U \subseteq S /\ U # {} => \E x \in U : \A y \in U : <<y, x>> \notin R
  BY WFMin
<1>3. PICK i \in T : \A j \in T : <<j, i>> \notin Below
  <2> HIDE DEF Below
  <2> QED BY <1>1, <1>2
<1>4. ASSUME NEW j \in T, j < i  PROVE FALSE
  <2>1. <<j, i>> \in Below
    BY <1>4 DEF OpToRel
  <2> QED
    BY <2>1, <1>3
<1> QED
  BY <1>4

(* find() answers a member of the list that matches, if there is one.        *)
LEMMA FirstInFinds ==
  ASSUME NEW seq, NEW n \in Nat, DOMAIN seq = 1 .. n,
         NEW S, NEW otherwise, Range(seq) \cap S # {}
  PROVE  FirstIn(seq, S, otherwise) \in Range(seq) \cap S
<1> DEFINE hits == {i \in DOMAIN seq : seq[i] \in S}
<1>2. hits # {} /\ hits \in SUBSET Nat
  BY DEF Range
<1>3. PICK i \in hits : \A j \in hits : ~(j < i)
  <2> HIDE DEF hits
  <2> QED BY <1>2, LeastMember
<1>4. \A j \in 1 .. (i - 1) : seq[j] \notin S
  BY <1>3
<1>5. \E k \in DOMAIN seq : seq[k] \in S /\ \A j \in 1 .. (k - 1) : seq[j] \notin S
  BY <1>3, <1>4
<1> QED
  BY <1>5 DEF FirstIn, Range

(* An intent's command is one of the patterns or a request to repeat.        *)
LEMMA CommandsAreActions ==
  ASSUME NEW s \in Sentence
  PROVE  DetectedCommand(s) \in Action
<1>1. DOMAIN Patterns = 1 .. 8
  BY DEF Patterns
<1>2. "set_name" \in Range(Patterns)
  <2>1. 8 \in DOMAIN Patterns /\ Patterns[8] = "set_name"
    BY DEF Patterns
  <2> QED
    BY <2>1 DEF Range
<1>3. FirstIn(Patterns, Keywords[s], "ask_clarification") \in Action
  BY <1>1, FirstInFinds DEF FirstIn, Action
<1> QED
  BY <1>2, <1>3 DEF DetectedCommand, Action

(* A list's agents, and the names it is sent with.                           *)
LEMMA ListFacts ==
  ASSUME NEW l \in Lists
  PROVE  /\ Len(l) \in Nat /\ DOMAIN l = 1 .. Len(l) /\ Range(l) \subseteq Agent
         /\ l = << >> <=> Range(l) = {}
         /\ l # << >> => l[1] \in Range(l)
         /\ Range([i \in DOMAIN l |-> NameOf[l[i]]]) = {NameOf[a] : a \in Range(l)}
<1>1. l \in Seq(Agent)
  BY AgentAssumption
<1>2. DOMAIN l = 1 .. Len(l) /\ Len(l) \in Nat /\ \A i \in DOMAIN l : l[i] \in Agent
  BY <1>1
<1>3. l = << >> <=> Range(l) = {}
  <2>1. CASE Len(l) = 0
    <3>1. l = << >>
      BY <1>1, <2>1
    <3>2. DOMAIN l = {}
      BY <1>2, <2>1
    <3> QED BY <3>1, <3>2 DEF Range
  <2>2. CASE Len(l) # 0
    <3>1. l # << >>
      BY <1>1, <2>2
    <3>2. 1 \in DOMAIN l
      BY <1>2, <2>2
    <3> QED BY <3>1, <3>2 DEF Range
  <2> QED BY <2>1, <2>2
<1>4. l # << >> => l[1] \in Range(l)
  <2>1. l # << >> => 1 \in DOMAIN l
    BY <1>1, <1>2
  <2> QED BY <2>1 DEF Range
<1>6. Range([i \in DOMAIN l |-> NameOf[l[i]]]) = {NameOf[a] : a \in Range(l)}
  BY DEF Range
<1> QED
  BY <1>1, <1>2, <1>3, <1>4, <1>6 DEF Range

-----------------------------------------------------------------------------
(* The invariant: types, and what the selection keeps to. *)
Inv == TypeOK /\ SelectionStays

LEMMA InitInv == Init => Inv
<1> SUFFICES ASSUME Init PROVE Inv
  OBVIOUS
<1>1. Range(agents) = {} /\ agents \in Lists
  BY AgentAssumption, ListFacts DEF Init
<1> QED
  BY <1>1, AgentAssumption DEF Init, Inv, TypeOK, SelectionStays

(* Selecting an agent, from the menu or by voice. *)
LEMMA SelectKeeps ==
  ASSUME Inv, NEW a \in Agent, Select(a), agents # << >>, UNCHANGED <<app, agents>>
  PROVE  /\ selected' \in Agent /\ chosen' \in Agent /\ missed' \in BOOLEAN
         /\ SelectionStays'
  BY AgentAssumption DEF Inv, TypeOK, Select, SelectionStays

(* What a voice flow does: the command goes to one agent of the list.        *)
LEMMA VoiceCommandFacts ==
  ASSUME TypeOK, NEW f \in Flow, VoiceCommand(f)
  PROVE  /\ asked[f] \in Question
         /\ asked' = [asked EXCEPT ![f] = Nothing]
         /\ LET intent == Intended(asked[f])
                first == FirstIn(agents, Targets(intent), Nobody)
            IN /\ intent.command \in Action
               /\ first \in Targets(intent)
               /\ Targets(intent) \subseteq Range(agents)
               /\ Select(first)
               /\ SendCommand(first, intent.command)
<1> DEFINE intent == Intended(asked[f])
           first == FirstIn(agents, Targets(intent), Nobody)
<1>1. asked[f] \in Question
  BY DEF TypeOK, VoiceCommand
<1>2. intent.command \in Action
  BY <1>1, CommandsAreActions DEF Intended, Parse, Question
<1>3. Targets(intent) \subseteq Range(agents)
  BY DEF Targets
<1>4. first \in Targets(intent)
  <2>1. Len(agents) \in Nat /\ DOMAIN agents = 1 .. Len(agents)
    BY ListFacts DEF TypeOK
  <2>2. Range(agents) \cap Targets(intent) # {}
    BY <1>3 DEF VoiceCommand
  <2> HIDE DEF intent
  <2> QED BY <2>1, <2>2, FirstInFinds
<1> QED
  BY <1>1, <1>2, <1>3, <1>4 DEF VoiceCommand

LEMMA NextInv == Inv /\ [Next]_vars => Inv'
<1> SUFFICES ASSUME Inv, [Next]_vars PROVE Inv'
  OBVIOUS
<1> USE DEF Inv
<1>1. CASE LinkChanges
  BY <1>1 DEF LinkChanges, TypeOK, SelectionStays
<1>2. ASSUME NEW l \in Lists, ListArrives(l)  PROVE Inv'
  <2>1. /\ Range(l) \subseteq Agent
        /\ l = << >> <=> Range(l) = {}
        /\ l # << >> => l[1] \in Range(l)
    BY ListFacts
  <2>2. \/ selected' = selected /\ selected \in Range(l)
        \/ selected' = l[1] /\ selected \notin Range(l) /\ l # << >>
        \/ selected' = Nobody /\ app = "mobile" /\ l = << >>
        \/ selected' = selected /\ app = "desktop" /\ l = << >>
    BY <1>2, <2>1 DEF ListArrives, Synchronized, TypeOK
  <2>3. TypeOK'
    BY <1>2, <2>1, <2>2 DEF ListArrives, TypeOK
  <2>4. SelectionStays'
    BY <1>2, <2>1, <2>2, AgentAssumption DEF ListArrives, TypeOK, SelectionStays
  <2> QED BY <2>3, <2>4
<1>3. CASE OpenMenu
  <2>1. Range(agents) \subseteq Agent
    BY ListFacts DEF TypeOK
  <2> QED
    BY <1>3, <2>1 DEF OpenMenu, TypeOK, SelectionStays
<1>4. CASE DismissMenu
  BY <1>4 DEF DismissMenu, TypeOK, SelectionStays
<1>5. CASE PressButton
  <2>1. sent' \in Command \cup {Nothing}
    BY <1>5 DEF PressButton, SendCommand, Command, Action, TypeOK
  <2> QED
    BY <1>5, <2>1 DEF PressButton, TypeOK, SelectionStays
<1>6. ASSUME NEW a \in Agent, PickFromMenu(a)  PROVE Inv'
  <2>1. CASE agents = << >>
    BY <1>6, <2>1 DEF PickFromMenu, TypeOK, SelectionStays
  <2>2. CASE agents # << >>
    BY <1>6, <2>2, SelectKeeps DEF PickFromMenu, TypeOK
  <2> QED BY <2>1, <2>2
<1>7. ASSUME NEW f \in Flow, NEW s \in Sentence, Ask(f, s)  PROVE Inv'
  <2>1. [says |-> s, list |-> agents] \in Question
    BY DEF Question, TypeOK
  <2> QED
    BY <1>7, <2>1 DEF Ask, TypeOK, SelectionStays
<1>8. ASSUME NEW f \in Flow, VoiceCommand(f)  PROVE Inv'
  <2>1. PICK a \in Agent, c \in Action :
           /\ a \in Range(agents) /\ Select(a) /\ SendCommand(a, c)
           /\ asked' = [asked EXCEPT ![f] = Nothing]
    BY <1>8, VoiceCommandFacts, ListFacts DEF TypeOK
  <2>2. agents # << >> /\ UNCHANGED <<app, link, agents, menu>>
    BY <1>8, <2>1, ListFacts DEF VoiceCommand, TypeOK
  <2>3. sent' \in Command \cup {Nothing}
    BY <2>1 DEF SendCommand, Command
  <2> QED
    BY <2>1, <2>2, <2>3, SelectKeeps DEF TypeOK
<1>9. ASSUME NEW f \in Flow, NoCommand(f)  PROVE Inv'
  BY <1>9 DEF NoCommand, TypeOK, SelectionStays
<1>10. CASE UNCHANGED vars
  BY <1>10 DEF vars, TypeOK, SelectionStays
<1> QED
  BY <1>1, <1>2, <1>3, <1>4, <1>5, <1>6, <1>7, <1>8, <1>9, <1>10 DEF Next

-----------------------------------------------------------------------------
(* Every voice flow's question and every command on the socket is whole, and *)
(* the selection is an agent or nobody: commands always have a target.       *)
THEOREM TypeCorrect == Spec => []TypeOK
<1> QED
  BY InitInv, NextInv, PTL DEF Spec, Inv

(* _synchronizeSelectedAgent moves the selection away from the user's choice *)
(* only over a list without it, and keeps to the list otherwise.             *)
THEOREM ChoiceStays == Spec => []SelectionStays
<1> QED
  BY InitInv, NextInv, PTL DEF Spec, Inv

-----------------------------------------------------------------------------
(* The agent a sentence names is the target found, when nothing sounds alike. *)
LEMMA UnmistakableIsFound ==
  ASSUME NEW q \in Question, NEW a \in Agent, Unmistakable(q, a)
  PROVE  Intended(q).targetAgent = NameOf[a]
<1> DEFINE names == [i \in DOMAIN q.list |-> NameOf[q.list[i]]]
           heard == SoundsLike(q.says)
<1>1. q.list \in Lists
  BY DEF Question
<1>2. Range(names) = {NameOf[b] : b \in Range(q.list)}
  BY <1>1, ListFacts
<1>3. Len(q.list) \in Nat /\ DOMAIN names = 1 .. Len(q.list)
  BY <1>1, ListFacts
<1>4. NameOf[a] \in Range(names) \cap heard
  BY <1>2 DEF Unmistakable, SoundsLike
<1>5. FirstIn(names, heard, "all") \in Range(names) \cap heard
  <2> HIDE DEF names, heard
  <2> QED BY <1>3, <1>4, FirstInFinds
<1>6. FirstIn(names, heard, "all") = NameOf[a]
  BY <1>2, <1>5 DEF Unmistakable
<1> QED
  BY <1>6 DEF Intended, Parse, FoundAgent

(* A sentence that names one PC and sounds like no other commands that PC,   *)
(* whatever happened to list and selection while it was being parsed.        *)
THEOREM NamedPcIsCommanded == Spec => VoiceHitsNamed
<1>1. ASSUME TypeOK, [Next]_vars, NEW f \in Flow, NEW a \in Agent
      PROVE  HitsNamed(f, a)
  <2> SUFFICES ASSUME asked[f] # Nothing, asked'[f] = Nothing, sent' # Nothing,
                      Unmistakable(asked[f], a)
               PROVE  /\ sent' = [to |-> a, action |-> DetectedCommand(asked[f].says)]
                      /\ selected' = a
    BY DEF HitsNamed
  <2>1. PICK g \in Flow : VoiceCommand(g)
    BY <1>1 DEF Next, vars, LinkChanges, ListArrives, OpenMenu, DismissMenu,
                PickFromMenu, PressButton, Ask, NoCommand
  <2>2. g = f
    BY <1>1, <2>1 DEF VoiceCommand, TypeOK
  <2> DEFINE intent == Intended(asked[f])
             first == FirstIn(agents, Targets(intent), Nobody)
  <2>3. /\ asked[f] \in Question /\ first \in Targets(intent)
        /\ Select(first) /\ SendCommand(first, intent.command)
    BY <1>1, <2>1, <2>2, VoiceCommandFacts
  <2>4. intent.targetAgent = NameOf[a]
    BY <1>1, <2>3, UnmistakableIsFound
  <2>5. NameOf[a] # "all"
    BY AgentAssumption, SentenceAssumption
  <2>6. first = a
    BY <1>1, <2>3, <2>4, <2>5 DEF Targets, Unmistakable
  <2>7. intent.command = DetectedCommand(asked[f].says)
    BY DEF Intended, Parse
  <2> QED
    BY <1>1, <2>3, <2>6, <2>7 DEF Select, SendCommand
<1>2. TypeOK /\ [Next]_vars => [\A f \in Flow, a \in Agent : HitsNamed(f, a)]_vars
  BY <1>1
<1> QED
  BY <1>2, TypeCorrect, PTL DEF Spec, VoiceHitsNamed
=============================================================================
