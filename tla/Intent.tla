------------------------------- MODULE Intent -------------------------------
(***************************************************************************)
(* What a sentence is taken to mean: the rules of IntentParser.parse.      *)
(*                                                                         *)
(* Strings are abstracted to what the rules look at: which commands have a *)
(* keyword in the text, which agent names the text contains, and which     *)
(* names share their first three letters with the beginning of a word.     *)
(***************************************************************************)
EXTENDS Integers, Sequences, Functions

CONSTANTS Sentence,
          Name,      \* names of agents, in lower case
          Keywords,  \* the commands with a keyword or alias in a sentence
          Naming,    \* sentences with a keyword (not an alias) of set_name
          Named,     \* the names a sentence contains
          Alike      \* the names whose three first letters begin a word of it

(* COMMAND_PATTERNS, in the order they are tried. *)
Patterns == <<"lock", "sleep", "restart", "shutdown", "wake_up", "open_app",
              "open_remote_desktop", "set_name">>

ASSUME SentenceAssumption ==
  /\ Keywords \in [Sentence -> SUBSET Range(Patterns)]
  /\ Naming \subseteq Sentence
  /\ Named \in [Sentence -> SUBSET Name]
  /\ Alike \in [Sentence -> SUBSET Name]
  /\ "all" \notin Name

(* The first member of S in a sequence, as Array.find returns it. *)
FirstIn(seq, S, otherwise) ==
  IF Range(seq) \cap S = {} THEN otherwise
  ELSE seq[CHOOSE i \in DOMAIN seq : seq[i] \in S /\ \A j \in 1 .. (i - 1) : seq[j] \notin S]

(* Keywords of set_name are looked for before everything else, although    *)
(* they are short enough ("im") to be part of other words.                 *)
DetectedCommand(s) ==
  IF s \in Naming THEN "set_name" ELSE FirstIn(Patterns, Keywords[s], "ask_clarification")

(* _fuzzyMatch: a word that merely begins like a name counts as the name.  *)
SoundsLike(s) == Named[s] \cup Alike[s]

(* The first agent of the list that sounds right; otherwise "all", whether *)
(* or not the sentence says so.                                            *)
FoundAgent(s, names) == FirstIn(names, SoundsLike(s), "all")

(* The target of a set_name is the new name, which no one takes for a PC.   *)
Parse(s, names) == [command |-> DetectedCommand(s), targetAgent |-> FoundAgent(s, names)]

=============================================================================
