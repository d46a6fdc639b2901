------------------------------ MODULE Startup ------------------------------
(***************************************************************************)
(* The way from a new process to one that may use the database: backends   *)
(* that boot and `npm run migrate`, side by side on one database, with     *)
(* checkouts of different age.  createApp() serves only after ensureReady; *)
(* migrate() carries out what is missing, one transaction for each file.   *)
(*                                                                         *)
(* A migration is a file: its name, which schema_migrations knows it by and *)
(* which the files are sorted by, and the checksum of its text.  A name is  *)
(* its rank in the order of all names (localeCompare); the number that a    *)
(* name begins with means nothing to the code, and two checkouts may have   *)
(* different files of one number.  schema is what the database really went  *)
(* through; applied is what schema_migrations says it went through.         *)
(***************************************************************************)
EXTENDS Naturals, Sequences

CONSTANTS Proc,
          Backend,      \* processes that serve; the others are runs of run-migrations
          Migrator,     \* RAIKO_RUN_MIGRATIONS=true, or run-migrations
          Checksum,
          Checkout,     \* the files each process was built with: name -> checksum
          Clash,        \* <<c, d>>: d fails on a database that went through c
          Conflict,     \* <<c, d>>: c and d change a table they share
          MaxDeaths     \* bound: deaths of a process, failed statements included

ASSUME StartupAssumption ==
  /\ Backend \cup Migrator = Proc
  /\ \A p \in Proc : /\ DOMAIN Checkout[p] \subseteq Nat
                     /\ Checkout[p] \in [DOMAIN Checkout[p] -> Checksum]
  /\ Clash \subseteq Conflict
  /\ Conflict \subseteq Checksum \X Checksum
  /\ MaxDeaths \in Nat

VARIABLES
  applied,   \* table schema_migrations: filename -> checksum
  schema,    \* the files the database has gone through, in order
  open,      \* processes with an open transaction, which holds the tables it changes
  pc,        \* each process's await
  todo,      \* its pendingMigrations
  deaths     \* how often a process died (bound)

vars == <<applied, schema, open, pc, todo, deaths>>

File == [name : Nat, text : Checksum]
InTransaction == {"altered", "recorded"}

TypeOK ==
  /\ DOMAIN applied \subseteq Nat
  /\ \A n \in DOMAIN applied : applied[n] \in Checksum
  /\ schema \in Seq(File)
  /\ open \subseteq Proc
  /\ pc \in [Proc -> {"off", "connecting", "creating", "reading", "migrating",
                      "starting", "serving"} \cup InTransaction]
  /\ todo \in [Proc -> SUBSET Nat]
  /\ \A p \in Proc : todo[p] \subseteq DOMAIN Checkout[p]
  /\ deaths \in 0..MaxDeaths

Init ==
  /\ applied = [n \in {} |-> n]
  /\ schema = <<>>
  /\ open = {}
  /\ pc = [p \in Proc |-> "off"]
  /\ todo = [p \in Proc |-> {}]
  /\ deaths = 0

-----------------------------------------------------------------------------
Goto(p, from, to) ==
  /\ pc[p] = from
  /\ pc' = [pc EXCEPT ![p] = to]

(* The process is started; a backend again and again by its container. *)
Boot(p) ==
  /\ Goto(p, "off", "connecting")
  /\ UNCHANGED <<applied, schema, open, todo, deaths>>

(* assertConnectivity() *)
Connect(p) ==
  /\ Goto(p, "connecting", "creating")
  /\ UNCHANGED <<applied, schema, open, todo, deaths>>

(* ensureMigrationTable(): the table is there from now on, empty or not. *)
CreateTable(p) ==
  /\ Goto(p, "creating", "reading")
  /\ UNCHANGED <<applied, schema, open, todo, deaths>>

(* resolvePendingMigrations(), from its answer on: nobody locks the history *)
(* between this reading and the transactions that rely on it.               *)
Known(p) == DOMAIN Checkout[p] \cap DOMAIN applied
Pending(p) == DOMAIN Checkout[p] \ DOMAIN applied
Mismatch(p) == \E n \in Known(p) : applied[n] # Checkout[p][n]

(* Where a process goes when nothing is left to apply. *)
Ready(p) == IF p \in Backend THEN "starting" ELSE "off"

(* Mutant: checksums are not compared. *)
ResolveUnchecked(p) ==
  /\ Goto(p, "reading", IF Pending(p) = {} THEN Ready(p) ELSE "migrating")
  /\ p \notin Migrator => Pending(p) = {}
  /\ todo' = [todo EXCEPT ![p] = Pending(p)]
  /\ UNCHANGED <<applied, schema, open, deaths>>

(* Mutant: beside the files without a row, the rows without a file. *)
ResolveBothWays(p) ==
  /\ ~Mismatch(p)
  /\ p \notin Migrator => Pending(p) = {}
  /\ Goto(p, "reading", IF Pending(p) = {} THEN Ready(p) ELSE "migrating")
  /\ todo' = [todo EXCEPT ![p] = Pending(p) \cup (DOMAIN applied \ DOMAIN Checkout[p])]
  /\ UNCHANGED <<applied, schema, open, deaths>>

Resolve(p) ==
  /\ ~Mismatch(p)
  /\ p \notin Migrator => Pending(p) = {}
  /\ Goto(p, "reading", IF Pending(p) = {} THEN Ready(p) ELSE "migrating")
  /\ todo' = [todo EXCEPT ![p] = Pending(p)]
  /\ UNCHANGED <<applied, schema, open, deaths>>

(* "Checksum mismatch", "Pending database migrations detected": it exits. *)
Refuse(p) ==
  /\ Mismatch(p) \/ (p \notin Migrator /\ Pending(p) # {})
  /\ Goto(p, "reading", "off")
  /\ UNCHANGED <<applied, schema, open, todo, deaths>>

-----------------------------------------------------------------------------
(* migrate(): one transaction for each pending file, in order. *)
IsNext(p, n) == n \in todo[p] /\ \A m \in todo[p] : n <= m

(* Another open transaction holds a table the file changes. *)
Waits(p, n) ==
  \E q \in open \ {p} : \E m \in todo[q] :
    IsNext(q, m) /\ <<Checkout[q][m], Checkout[p][n]>> \in Conflict

(* "column already exists": the database is not what the file was written for. *)
Clashing(p, n) == \E i \in DOMAIN schema : <<schema[i].text, Checkout[p][n]>> \in Clash

Carried(p, n) == [name |-> n, text |-> Checkout[p][n]]

(* Mutant: the statements take effect outside the transaction. *)
AlterAtOnce(p, n) ==
  /\ IsNext(p, n) /\ ~Waits(p, n) /\ ~Clashing(p, n)
  /\ Goto(p, "migrating", "altered")
  /\ schema' = Append(schema, Carried(p, n))
  /\ open' = open \cup {p}
  /\ UNCHANGED <<applied, todo, deaths>>

(* BEGIN and the file's statements, once no other transaction holds the    *)
(* tables; nobody else sees them yet.                                      *)
Alter(p, n) ==
  /\ IsNext(p, n) /\ ~Waits(p, n) /\ ~Clashing(p, n)
  /\ Goto(p, "migrating", "altered")
  /\ open' = open \cup {p}
  /\ UNCHANGED <<applied, schema, todo, deaths>>

(* INSERT INTO schema_migrations: filename is the primary key; who inserts *)
(* a name that an open transaction has inserted waits for its end.         *)
Record(p, n) ==
  /\ IsNext(p, n)
  /\ n \notin DOMAIN applied
  /\ \A q \in open \ {p} : pc[q] = "recorded" => ~IsNext(q, n)
  /\ Goto(p, "altered", "recorded")
  /\ UNCHANGED <<applied, schema, open, todo, deaths>>

Commit(p, n) ==
  /\ IsNext(p, n)
  /\ applied' = [m \in DOMAIN applied \cup {n} |->
                   IF m = n THEN Checkout[p][n] ELSE applied[m]]
  /\ schema' = Append(schema, Carried(p, n))
  /\ open' = open \ {p}
  /\ todo' = [todo EXCEPT ![p] = @ \ {n}]
  /\ Goto(p, "recorded", IF todo[p] = {n} THEN Ready(p) ELSE "migrating")
  /\ UNCHANGED deaths

(* Mutant: the loser tries again, from the list it has. *)
CollideAndRetry(p, n) ==
  /\ IsNext(p, n)
  /\ \/ pc[p] = "migrating" /\ ~Waits(p, n) /\ Clashing(p, n)
     \/ pc[p] = "altered" /\ n \in DOMAIN applied
  /\ pc' = [pc EXCEPT ![p] = "migrating"]
  /\ open' = open \ {p}
  /\ UNCHANGED <<applied, schema, todo, deaths>>

(* A statement fails on what others have committed: "column already        *)
(* exists", or "duplicate key".  ROLLBACK, and the process exits.          *)
Collide(p, n) ==
  /\ IsNext(p, n)
  /\ \/ pc[p] = "migrating" /\ ~Waits(p, n) /\ Clashing(p, n)
     \/ pc[p] = "altered" /\ n \in DOMAIN applied
  /\ pc' = [pc EXCEPT ![p] = "off"]
  /\ open' = open \ {p}
  /\ UNCHANGED <<applied, schema, todo, deaths>>

-----------------------------------------------------------------------------
(* ModuleContainer.create(), attachGateway() and listen(). *)
Listen(p) ==
  /\ Goto(p, "starting", "serving")
  /\ UNCHANGED <<applied, schema, open, todo, deaths>>

(* Killed, or ended by a statement that fails; its transaction is undone. *)
Die(p) ==
  /\ pc[p] # "off"
  /\ deaths < MaxDeaths
  /\ deaths' = deaths + 1
  /\ pc' = [pc EXCEPT ![p] = "off"]
  /\ open' = open \ {p}
  /\ UNCHANGED <<applied, schema, todo>>

Migrate(p) == \E n \in todo[p] : Alter(p, n) \/ Record(p, n) \/ Commit(p, n) \/ Collide(p, n)

Step(p) ==
  \/ Connect(p) \/ CreateTable(p) \/ Resolve(p) \/ Refuse(p)
  \/ Migrate(p)
  \/ Listen(p)

Next == \E p \in Proc : Boot(p) \/ Step(p) \/ Die(p)

Spec == Init /\ [][Next]_vars

(* Statements are answered; containers restart.  Nobody need run `migrate`. *)
Fairness ==
  /\ \A p \in Proc : WF_vars(Step(p))
  /\ \A p \in Backend : WF_vars(Boot(p))

FairSpec == Spec /\ Fairness

-----------------------------------------------------------------------------
(* The history is true: schema_migrations lists, name by name, exactly the *)
(* files the database went through, however migrators overlapped or died.  *)
HistoryIsTrue ==
  /\ DOMAIN applied = {schema[i].name : i \in DOMAIN schema}
  /\ \A i \in DOMAIN schema : applied[schema[i].name] = schema[i].text

(* A backend serves only on a database that has gone through every file it *)
(* was built with, with its text; others it does not know may be between.  *)
ServesOnItsSchema ==
  \A p \in Proc : pc[p] \in {"starting", "serving"} =>
    \A n \in DOMAIN Checkout[p] : \E i \in DOMAIN schema : schema[i] = Carried(p, n)

(* However processes interleave, collide and die, the database and its     *)
(* history change as in Ledger: one file at a time, after every file that  *)
(* comes before it in its own checkout, no name twice, and recorded in the *)
(* same step.  Files of several checkouts may be mixed, in any order.      *)
History == INSTANCE Ledger WITH script <- schema, record <- applied
MigrationsAreSerial == History!LedgerSpec

(* What was recorded is never changed or removed. *)
HistoryIsKept ==
  [][\A n \in DOMAIN applied : n \in DOMAIN applied' /\ applied'[n] = applied[n]]_vars

(* A file it has yet to carry out cannot be carried out any more. *)
Stuck(p) == \E n \in Pending(p) : Clashing(p, n)

(* Colliding migrators do not block each other for ever: each backend that *)
(* migrates comes to serve again and again, unless the database has gone   *)
(* through another text of one of its files, or through a file of another  *)
(* checkout that makes one of its own fail.                                *)
BackendsServe ==
  \A p \in Backend \cap Migrator : []<>(pc[p] = "serving" \/ Mismatch(p) \/ Stuck(p))

=============================================================================
