----------------------------- MODULE MCCommands -----------------------------
(* Small instances of Commands: values of its function-valued constants.     *)
EXTENDS Commands

CONSTANTS r1, r2, x1, desk, laptop, phone

(* A result that is not of r2 carries its id; r1 has an id of its own. *)
SomeShared == [x \in Report |-> IF x = x1 THEN r2 ELSE x]

(* Every request has an id of its own. *)
DistinctIds == [x \in Report |-> x]

Ask(t, a) == [target |-> t, action |-> a]

(* A wake-up or a command for a PC, or a command for a standalone agent;     *)
(* beside it a command for the companion of a phone.                         *)
AgentAndCompanion ==
  [r \in Request |-> IF r = r1
                     THEN {Ask(desk, "wake_up"), Ask(desk, "run"), Ask(laptop, "run")}
                     ELSE {Ask(phone, "unknown")}]

(* A wake-up for the PC. *)
OneWakeUp == [r \in Request |-> {Ask(desk, "wake_up")}]

=============================================================================
