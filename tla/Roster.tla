------------------------------- MODULE Roster -------------------------------
(***************************************************************************)
(* What a registry of connections promises to those who send through it:   *)
(* an id is held by the connection that registered it last, and by no      *)
(* other open one.  A connection registers one id, once.  The holder may   *)
(* be lost at any time; the entry may go with it or later, but never while *)
(* a registered connection of the id is open.                              *)
(***************************************************************************)
CONSTANTS Id, Conn, None

VARIABLES
  holder,  \* id -> the connection it is reached by
  open     \* id -> the open connections that are registered as it
rosterVars == <<holder, open>>

RosterInit ==
  /\ holder = [i \in Id |-> None]
  /\ open = [i \in Id |-> {}]

(* c takes the id over from whichever connection had it.  A registration   *)
(* that arrives behind the close of its connection leaves the id none.     *)
Register(i, c) ==
  /\ \A j \in Id : holder[j] # c /\ c \notin open[j]
  /\ holder' = [holder EXCEPT ![i] = c]
  /\ \E stays \in {{c}, {}} : open' = [open EXCEPT ![i] = stays]

(* Connections are lost, of one id or of many, and entries are removed.    *)
Lose ==
  /\ holder' \in [Id -> Conn \cup {None}]
  /\ open' \in [Id -> SUBSET Conn]
  /\ \A i \in Id : /\ open'[i] \in {open[i], {}}
                   /\ holder'[i] \in {holder[i], None}
                   /\ holder'[i] # holder[i] => open'[i] = {}

RosterNext == (\E i \in Id, c \in Conn : Register(i, c)) \/ Lose

RosterSpec == RosterInit /\ [][RosterNext]_rosterVars

=============================================================================
