----------------------------- MODULE CommandLog -----------------------------
(***************************************************************************)
(* What the command history promises its readers: a command appears once,  *)
(* as pending and without a result; it may settle, once, and then shows    *)
(* the status and the result that settled it, together and for good.       *)
(* Commands that were given one id are one entry: it may be reopened and   *)
(* settled again, and keeps the last result meanwhile.                     *)
(***************************************************************************)
CONSTANTS CommandId,
          Ambiguous   \* ids that several commands or results carry

VARIABLES status, result
logVars == <<status, result>>

Verdict == {"success", "failed"}

LogInit ==
  /\ status = [c \in CommandId |-> "absent"]
  /\ result = [c \in CommandId |-> "none"]

Accept(c) ==
  /\ status[c] = "absent" \/ c \in Ambiguous
  /\ status' = [status EXCEPT ![c] = "pending"]
  /\ UNCHANGED result

Settle(c, v) ==
  /\ status[c] = "pending" \/ (status[c] \in Verdict /\ c \in Ambiguous)
  /\ status' = [status EXCEPT ![c] = v]
  /\ result' = [result EXCEPT ![c] = v]

LogNext == \E c \in CommandId : Accept(c) \/ \E v \in Verdict : Settle(c, v)

LogSpec == LogInit /\ [][LogNext]_logVars

=============================================================================
