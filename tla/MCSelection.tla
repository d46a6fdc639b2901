---------------------------- MODULE MCSelection -----------------------------
(* Three PCs, one with the name of another in its own, and what people say. *)
EXTENDS Selection

CONSTANTS office, work, office2,
          lockOffice, offWork, lockTwo, immediately, wakeAll, hello, f1

(* "Office PC", "Workstation", "Office PC 2" *)
NamedAfterId == [a \in Agent |-> a]

(* Every list of up to three agents. *)
AllLists == {l \in UNION {[1 .. n -> Agent] : n \in 0 .. 3} : IsInjective(l)}

Containing == [n \in Name |-> IF n = office THEN {office, office2} \cap Name ELSE {n}]

(* "lock the office pc", "turn off the workstation", "lock office pc 2",     *)
(* "lock the office pc immediately", "wake everything up", "hello"; "off"    *)
(* begins like "office" and "lock" is no part of a name.                     *)
SpokenCommands ==
  [s \in Sentence |->
     CASE s \in {lockOffice, lockTwo} -> {"lock"}
       [] s = immediately -> {"lock", "set_name"}
       [] s = offWork -> {"shutdown"}
       [] s = wakeAll -> {"wake_up"}
       [] s = hello -> {}]

SpokenNames ==
  [s \in Sentence |->
     (CASE s \in {lockOffice, immediately} -> {office}
        [] s = lockTwo -> {office, office2}
        [] s = offWork -> {work}
        [] s \in {wakeAll, hello} -> {}) \cap Name]

SpokenAlike ==
  [s \in Sentence |->
     (CASE s \in {lockOffice, lockTwo, immediately} -> {office, office2}
        [] s = offWork -> {work, office, office2}
        [] s \in {wakeAll, hello} -> {}) \cap Name]

=============================================================================
