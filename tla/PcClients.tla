----------------------------- MODULE PcClients -----------------------------
(***************************************************************************)
(* The programs on the PCs: agents, which keep one connection and retry    *)
(* every few seconds, and desktop apps, which connect when their user says *)
(* so and never retry.  Both register over WebSockets of their own, and    *)
(* the backend's registry knows each id by one connection: whoever         *)
(* registers an id closes the connection that had it.                      *)
(*                                                                         *)
(* Ids are shared in practice: agents left at their default configuration  *)
(* are all "agent-win-01", and every desktop app is "desktop-windows-01".  *)
(* A desktop app registers one id as device and as agent on one connection *)
(* (Presence has the two entries); here that is one entry.                 *)
(***************************************************************************)
EXTENDS Integers

CONSTANTS Agent,      \* agent processes
          App,        \* desktop apps
          Default,    \* the agents whose configuration names no id
          WinAgent, WinDesktop,  \* the ids they share
          AgentSocket, AppSocket, \* bound: sockets that are not closed yet
          None,       \* no socket, no user
          MaxOutages  \* bound: how often the backend becomes unreachable

ASSUME PcAssumption ==
  /\ Agent \cap App = {}
  /\ Default \subseteq Agent
  /\ AgentSocket \cap AppSocket = {}
  /\ None \notin AgentSocket \cup AppSocket \cup Agent \cup App
  /\ MaxOutages \in Nat

Client == Agent \cup App
Socket == AgentSocket \cup AppSocket
Id == Agent \cup {WinAgent, WinDesktop}
IdOf(p) == IF p \in App THEN WinDesktop ELSE IF p \in Default THEN WinAgent ELSE p

VARIABLES
  up,       \* can the backend be reached
  outages,  \* outages so far
  conn,     \* each socket: free, dialing, open, registered, closing, or left by
            \* its program while the registry still has it
  user,     \* the program that made it, None for one that is free or left
  entry,    \* the registry: id -> connection
  socket,   \* this.socket of an agent, _socket of an app
  retries,  \* reconnect timeouts that are armed
  beat,     \* is an agent's heartbeat interval armed
  shown     \* the apps that show "connected"

backend == <<up, outages>>
vars == <<backend, conn, user, entry, socket, retries, beat, shown>>

TypeOK ==
  /\ up \in BOOLEAN
  /\ outages \in 0..MaxOutages
  /\ conn \in [Socket -> {"free", "dialing", "open", "registered", "closing", "left"}]
  /\ user \in [Socket -> Client \cup {None}]
  /\ entry \in [Id -> Socket \cup {None}]
  /\ socket \in [Client -> Socket \cup {None}]
  /\ retries \in [Agent -> Nat]
  /\ beat \in [Agent -> BOOLEAN]
  /\ shown \subseteq App

(* Agents are about to connect; the apps wait for their users. *)
Init ==
  /\ up \in BOOLEAN
  /\ outages = 0
  /\ conn = [c \in Socket |-> "free"]
  /\ user = [c \in Socket |-> None]
  /\ entry = [i \in Id |-> None]
  /\ socket = [p \in Client |-> None]
  /\ retries = [a \in Agent |-> 1]
  /\ beat = [a \in Agent |-> FALSE]
  /\ shown = {}

-----------------------------------------------------------------------------
Dial(p, c) ==
  /\ conn[c] = "free"
  /\ conn' = [conn EXCEPT ![c] = "dialing"]
  /\ user' = [user EXCEPT ![c] = p]

Holds(p, c) == user[c] = p
Established(c) == conn[c] \in {"open", "registered"}

Listed(c) == \E i \in Id : entry[i] = c

(* Its program notices that a socket is closed: a dial failed, or somebody  *)
(* ended the connection.  The backend's "close" comes at a time of its own. *)
Closed(c) ==
  /\ conn[c] = "closing" \/ (conn[c] = "dialing" /\ ~up)
  /\ conn' = [conn EXCEPT ![c] = IF Listed(c) THEN "left" ELSE "free"]
  /\ user' = [user EXCEPT ![c] = None]
  /\ UNCHANGED entry

-----------------------------------------------------------------------------
(* The agents. *)

(* connect(): the timeout that called it is over. *)
AgentConnects(a) ==
  /\ retries[a] > 0
  /\ retries' = [retries EXCEPT ![a] = @ - 1]
  /\ \E c \in AgentSocket : /\ Dial(a, c)
                            /\ socket' = [socket EXCEPT ![a] = c]
  /\ UNCHANGED <<backend, entry, beat, shown>>

(* "open": agent.register is sent, the interval started. *)
AgentOpened(a, c) ==
  /\ Holds(a, c) /\ conn[c] = "dialing"
  /\ up
  /\ conn' = [conn EXCEPT ![c] = "open"]
  /\ beat' = [beat EXCEPT ![a] = TRUE]
  /\ UNCHANGED <<backend, user, entry, socket, retries, shown>>

(* Mutant: "error" arms a timeout, and so does the "close" that follows it. *)
AgentRetriesTwice(a, c) ==
  /\ Holds(a, c)
  /\ Closed(c)
  /\ beat' = [beat EXCEPT ![a] = FALSE]
  /\ socket' = [socket EXCEPT ![a] = None]
  /\ retries' = [retries EXCEPT ![a] = IF conn[c] = "dialing" THEN @ + 2 ELSE @ + 1]
  /\ UNCHANGED <<backend, shown>>

(* Mutant: only a dial that failed is tried again. *)
AgentRetriesDialsOnly(a, c) ==
  /\ Holds(a, c)
  /\ Closed(c)
  /\ beat' = [beat EXCEPT ![a] = FALSE]
  /\ socket' = [socket EXCEPT ![a] = None]
  /\ retries' = [retries EXCEPT ![a] = IF conn[c] = "dialing" THEN @ + 1 ELSE @]
  /\ UNCHANGED <<backend, shown>>

(* "close", also after an "error" and for a dial that failed. *)
AgentClosed(a, c) ==
  /\ Holds(a, c)
  /\ Closed(c)
  /\ beat' = [beat EXCEPT ![a] = FALSE]
  /\ socket' = [socket EXCEPT ![a] = None]
  /\ retries' = [retries EXCEPT ![a] = @ + 1]
  /\ UNCHANGED <<backend, shown>>

-----------------------------------------------------------------------------
(* The desktop apps. *)

(* connect(): nothing notes that it has begun. *)
AppConnects(p) ==
  /\ socket[p] = None
  /\ \E c \in AppSocket : Dial(p, c)
  /\ UNCHANGED <<backend, entry, socket, retries, beat, shown>>

(* The socket replaces whatever another connect() has put there. *)
AppOpened(p, c) ==
  /\ Holds(p, c) /\ conn[c] = "dialing"
  /\ up
  /\ conn' = [conn EXCEPT ![c] = "open"]
  /\ socket' = [socket EXCEPT ![p] = c]
  /\ shown' = shown \cup {p}
  /\ UNCHANGED <<backend, user, entry, retries, beat>>

(* Mutant: the socket is forgotten, the indicator is not. *)
AppClosedSilently(p, c) ==
  /\ Holds(p, c)
  /\ Closed(c)
  /\ socket' = [socket EXCEPT ![p] = None]
  /\ UNCHANGED <<backend, retries, beat, shown>>

(* onDone, onError and the catch branch, of whichever socket. *)
AppClosed(p, c) ==
  /\ Holds(p, c)
  /\ Closed(c)
  /\ socket' = [socket EXCEPT ![p] = None]
  /\ shown' = shown \ {p}
  /\ UNCHANGED <<backend, retries, beat>>

(* disconnect(): dials in flight go on. *)
AppDisconnects(p) ==
  /\ socket[p] # None
  /\ conn' = [conn EXCEPT ![socket[p]] = "closing"]
  /\ socket' = [socket EXCEPT ![p] = None]
  /\ shown' = shown \ {p}
  /\ UNCHANGED <<backend, user, entry, retries, beat>>

-----------------------------------------------------------------------------
(* The backend. *)

(* Mutant: the registry's entry changes hands, the old connection stays. *)
RegisterBeside(c) ==
  /\ up
  /\ conn[c] = "open"
  /\ LET i == IdOf(user[c]) IN
       /\ conn' = [conn EXCEPT ![c] = "registered"]
       /\ entry' = [entry EXCEPT ![i] = c]
  /\ UNCHANGED <<backend, user, socket, retries, beat, shown>>

(* Mutant: a superseded connection is left in a state of its own. *)
RegisterSuperseding(c) ==
  /\ up
  /\ conn[c] = "open"
  /\ LET i == IdOf(user[c]) IN
       /\ conn' = [d \in Socket |-> IF d = c THEN "registered"
                                    ELSE IF d = entry[i] THEN "superseded" ELSE conn[d]]
       /\ entry' = [entry EXCEPT ![i] = c]
  /\ UNCHANGED <<backend, user, socket, retries, beat, shown>>

(* The registration that a program sends first arrives, at a time of its    *)
(* own; the connection that had the id is closed, "superseded".             *)
Register(c) ==
  /\ up
  /\ conn[c] = "open"
  /\ LET i == IdOf(user[c]) IN
       /\ conn' = [d \in Socket |-> IF d = c THEN "registered"
                                    ELSE IF d # entry[i] THEN conn[d]
                                    ELSE IF conn[d] = "left" THEN "free" ELSE "closing"]
       /\ entry' = [entry EXCEPT ![i] = c]
  /\ UNCHANGED <<backend, user, socket, retries, beat, shown>>

(* "close" at the backend, or its end: the registry forgets the connection. *)
Forget(c) ==
  /\ conn[c] \in {"closing", "left"}
  /\ Listed(c)
  /\ conn' = [conn EXCEPT ![c] = IF @ = "left" THEN "free" ELSE @]
  /\ entry' = [i \in Id |-> IF entry[i] = c THEN None ELSE entry[i]]
  /\ UNCHANGED <<backend, user, socket, retries, beat, shown>>

(* The backend dies or cannot be reached; connections break, or survive.    *)
Outage ==
  /\ up
  /\ outages < MaxOutages
  /\ up' = FALSE
  /\ outages' = outages + 1
  /\ \E broken \in SUBSET {c \in Socket : Established(c)} :
       conn' = [c \in Socket |-> IF c \in broken THEN "closing" ELSE conn[c]]
  /\ UNCHANGED <<user, entry, socket, retries, beat, shown>>

Recover ==
  /\ ~up
  /\ up' = TRUE
  /\ UNCHANGED <<outages, conn, user, entry, socket, retries, beat, shown>>

-----------------------------------------------------------------------------
AgentStep(a) ==
  \/ AgentConnects(a)
  \/ \E c \in AgentSocket : AgentOpened(a, c) \/ AgentClosed(a, c)

AppStep(p) ==
  \E c \in AppSocket : AppOpened(p, c) \/ AppClosed(p, c)

Next ==
  \/ \E a \in Agent : AgentStep(a)
  \/ \E p \in App : AppConnects(p) \/ AppStep(p) \/ AppDisconnects(p)
  \/ \E c \in Socket : Register(c) \/ Forget(c)
  \/ Outage \/ Recover

Spec == Init /\ [][Next]_vars

(* Timeouts fire, dials and closes end, messages arrive and outages end.    *)
(* A user is not obliged to do anything, and the backend need not notice    *)
(* that a connection is gone.                                               *)
Fairness ==
  /\ WF_vars(Recover)
  /\ \A a \in Agent : WF_vars(AgentStep(a))
  /\ \A p \in App : WF_vars(AppStep(p))
  /\ \A c \in Socket : WF_vars(Register(c))

FairSpec == Spec /\ Fairness

-----------------------------------------------------------------------------
(* An agent is never stranded and never doubled: it has one timeout armed   *)
(* and no socket, or no timeout and one socket, the one it sends through.   *)
(* Its heartbeats, which correct the dashboards, last exactly as long as    *)
(* that connection.                                                         *)
OneConnectionOrRetry ==
  \A a \in Agent :
    /\ \/ retries[a] = 1 /\ socket[a] = None /\ \A c \in Socket : ~Holds(a, c)
       \/ retries[a] = 0 /\ socket[a] # None /\ \A c \in Socket : Holds(a, c) <=> c = socket[a]
    /\ beat[a] <=> socket[a] # None /\ conn[socket[a]] \in {"open", "registered", "closing"}

(* However many programs share an id, whatever apps leak and however late   *)
(* registrations arrive, an id stays registered by one connection at most,  *)
(* and it is the one commands are sent to.                                  *)
OneRegistered ==
  \A c \in Socket : conn[c] = "registered" => entry[IdOf(user[c])] = c

(* What the programs do to the registry from their side is what Roster      *)
(* describes, as Presence does from the backend's.                          *)
Registry == INSTANCE Roster WITH
  Conn <- Socket, holder <- entry,
  open <- [i \in Id |-> {c \in Socket : conn[c] = "registered" /\ IdOf(user[c]) = i}]
RegistryIsARoster == Registry!RosterSpec

(* A desktop app never shows "connected" without a connection: its socket   *)
(* has been opened, and its end has not been noticed.                       *)
ShownIsConnected ==
  \A p \in shown : socket[p] # None /\ Holds(p, socket[p]) /\ conn[socket[p]] # "dialing"

(* An agent comes back after every outage and after being superseded, even  *)
(* if another one with its id does the same.                                *)
AgentsComeBack ==
  \A a \in Agent : []<>(\E c \in AgentSocket : user[c] = a /\ conn[c] = "registered")

=============================================================================
