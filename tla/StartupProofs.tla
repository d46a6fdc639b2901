--------------------------- MODULE StartupProofs ---------------------------
(* Machine-checked proofs about Startup, for any set of processes, any     *)
(* checkouts and any number of deaths.                                     *)
EXTENDS Startup, TLAPS

-----------------------------------------------------------------------------
(* Facts about the files of a checkout and about a list of files. *)

LEMMA Files ==
  ASSUME NEW p \in Proc, NEW n \in DOMAIN Checkout[p]
  PROVE  n \in Nat /\ Checkout[p][n] \in Checksum /\ Carried(p, n) \in File
<1>1. n \in Nat /\ Checkout[p][n] \in Checksum
  BY StartupAssumption
<1> QED
  BY <1>1 DEF Carried, File

LEMMA AppendFacts ==
  ASSUME NEW s \in Seq(File), NEW x \in File
  PROVE  /\ Append(s, x) \in Seq(File)
         /\ DOMAIN Append(s, x) = DOMAIN s \cup {Len(s) + 1}
         /\ Append(s, x)[Len(s) + 1] = x
         /\ \A i \in DOMAIN s : Append(s, x)[i] = s[i]
<1>1. Append(s, x) \in Seq(File) /\ Len(Append(s, x)) = Len(s) + 1
  OBVIOUS
<1>2. DOMAIN s = 1..Len(s) /\ Len(s) \in Nat
  OBVIOUS
<1>3. DOMAIN Append(s, x) = 1..(Len(s) + 1)
  BY <1>1, <1>2
<1> QED
  BY <1>1, <1>2, <1>3

-----------------------------------------------------------------------------
(* The types hold in every state: the rows, the processes' awaits and the  *)
(* pending lists of database.ts:91-167.                                    *)
THEOREM TypeCorrect == Spec => []TypeOK
<1>1. Init => TypeOK
  BY StartupAssumption DEF Init, TypeOK
<1>2. TypeOK /\ [Next]_vars => TypeOK'
  <2> SUFFICES ASSUME TypeOK, [Next]_vars PROVE TypeOK'
    OBVIOUS
  <2> USE DEF TypeOK, InTransaction
  <2>1. CASE UNCHANGED vars
    BY <2>1 DEF vars
  <2>2. ASSUME NEW p \in Proc, Boot(p) PROVE TypeOK'
    BY <2>2 DEF Boot, Goto
  <2>3. ASSUME NEW p \in Proc, Connect(p) PROVE TypeOK'
    BY <2>3 DEF Connect, Goto
  <2>4. ASSUME NEW p \in Proc, CreateTable(p) PROVE TypeOK'
    BY <2>4 DEF CreateTable, Goto
  <2>5. ASSUME NEW p \in Proc, Resolve(p) PROVE TypeOK'
    <3>1. Pending(p) \subseteq DOMAIN Checkout[p] /\ Pending(p) \in SUBSET Nat
      BY StartupAssumption DEF Pending
    <3> QED
      BY <2>5, <3>1 DEF Resolve, Goto, Ready
  <2>6. ASSUME NEW p \in Proc, Refuse(p) PROVE TypeOK'
    BY <2>6 DEF Refuse, Goto
  <2>7. ASSUME NEW p \in Proc, NEW n \in todo[p], Alter(p, n) PROVE TypeOK'
    BY <2>7 DEF Alter, Goto
  <2>8. ASSUME NEW p \in Proc, NEW n \in todo[p], Record(p, n) PROVE TypeOK'
    BY <2>8 DEF Record, Goto
  <2>9. ASSUME NEW p \in Proc, NEW n \in todo[p], Commit(p, n) PROVE TypeOK'
    <3>1. n \in Nat /\ Checkout[p][n] \in Checksum /\ Carried(p, n) \in File
      BY Files
    <3>2. schema' \in Seq(File)
      BY <2>9, <3>1, AppendFacts DEF Commit
    <3>3. /\ DOMAIN applied' \subseteq Nat
          /\ \A m \in DOMAIN applied' : applied'[m] \in Checksum
      BY <2>9, <3>1 DEF Commit
    <3>4. /\ todo' \in [Proc -> SUBSET Nat]
          /\ \A q \in Proc : todo'[q] \subseteq DOMAIN Checkout[q]
      BY <2>9 DEF Commit
    <3> QED
      BY <2>9, <3>2, <3>3, <3>4 DEF Commit, Goto, Ready
  <2>10. ASSUME NEW p \in Proc, NEW n \in todo[p], Collide(p, n) PROVE TypeOK'
    BY <2>10 DEF Collide
  <2>11. ASSUME NEW p \in Proc, Listen(p) PROVE TypeOK'
    BY <2>11 DEF Listen, Goto
  <2>12. ASSUME NEW p \in Proc, Die(p) PROVE TypeOK'
    BY <2>12, StartupAssumption DEF Die
  <2> QED
    BY <2>1, <2>2, <2>3, <2>4, <2>5, <2>6, <2>7, <2>8, <2>9, <2>10, <2>11, <2>12
    DEF Next, Step, Migrate
<1> QED
  BY <1>1, <1>2, PTL DEF Spec

-----------------------------------------------------------------------------
(* The inductive invariant.  A process that migrates has found, or brought *)
(* about, every file of its checkout that is not on its list any more; and *)
(* no two open transactions have inserted one name.                        *)
Through(n, text) == \E i \in DOMAIN schema : schema[i] = [name |-> n, text |-> text]

Done(p) == \A n \in DOMAIN Checkout[p] \ todo[p] : Through(n, Checkout[p][n])

Migrating == {"migrating"} \cup InTransaction

(* The name that p has inserted is nobody else's yet. *)
Inserted(p) ==
  \A n \in todo[p] : IsNext(p, n) =>
    /\ n \notin DOMAIN applied
    /\ \A q \in Proc \ {p} : pc[q] = "recorded" => ~IsNext(q, n)

Agreement ==
  /\ HistoryIsTrue
  /\ ServesOnItsSchema
  /\ \A p \in Proc : pc[p] \in Migrating => p \in Migrator /\ todo[p] # {} /\ Done(p)
  /\ \A p \in Proc : pc[p] \in InTransaction <=> p \in open
  /\ \A p \in Proc : pc[p] = "recorded" => Inserted(p)

(* The file a transaction commits is its process's next one, and new to    *)
(* the history; the ones before it in the process's checkout are not.      *)
LEMMA CommitExtends ==
  ASSUME TypeOK, Agreement, NEW p \in Proc, NEW n \in todo[p], Commit(p, n)
  PROVE  /\ p \in Migrator /\ n \in DOMAIN Checkout[p]
         /\ \A i \in DOMAIN schema : schema[i].name # n
         /\ \A m \in DOMAIN Checkout[p] : m < n => Through(m, Checkout[p][m])
<1> USE DEF InTransaction, Migrating
<1>1. n \in DOMAIN Checkout[p] /\ n \in Nat
  BY Files DEF TypeOK
<1>2. p \in Migrator /\ Done(p) /\ n \notin DOMAIN applied
  BY DEF Commit, Goto, Agreement, Inserted
<1>3. ASSUME NEW m \in DOMAIN Checkout[p], m < n PROVE Through(m, Checkout[p][m])
  <2>1. m \in Nat
    BY Files
  <2>2. m \notin todo[p]
    BY <2>1, <1>1, <1>3 DEF Commit, IsNext
  <2> QED
    BY <2>2, <1>2 DEF Done
<1>4. \A i \in DOMAIN schema : schema[i].name # n
  BY <1>2 DEF Agreement, HistoryIsTrue
<1> QED
  BY <1>1, <1>2, <1>3, <1>4

(* A commit keeps what is said of the history, of its process and of others. *)
LEMMA CommitStep ==
  ASSUME TypeOK, Agreement, NEW p \in Proc, NEW n \in todo[p], Commit(p, n)
  PROVE  Agreement'
<1> USE DEF InTransaction, Migrating
<1>1. n \in DOMAIN Checkout[p] /\ n \in Nat /\ Carried(p, n) \in File /\ schema \in Seq(File)
  BY Files DEF TypeOK
<1>2. pc[p] = "recorded" /\ p \in open /\ p \in Migrator /\ Done(p) /\ Inserted(p) /\ IsNext(p, n)
  BY DEF Commit, Goto, Agreement
<1>3. /\ DOMAIN schema' = DOMAIN schema \cup {Len(schema) + 1}
      /\ schema'[Len(schema) + 1] = Carried(p, n)
      /\ \A i \in DOMAIN schema : schema'[i] = schema[i]
  BY <1>1, AppendFacts DEF Commit
<1>4. HistoryIsTrue'
  <2>1. /\ DOMAIN applied' = DOMAIN applied \cup {n}
        /\ applied'[n] = Checkout[p][n]
        /\ \A m \in DOMAIN applied \ {n} : applied'[m] = applied[m]
    BY DEF Commit
  <2>2. \A i \in DOMAIN schema : schema[i].name \in DOMAIN applied /\ schema[i].name # n
    BY CommitExtends DEF Agreement, HistoryIsTrue
  <2>3. Carried(p, n).name = n /\ Carried(p, n).text = Checkout[p][n]
    BY DEF Carried
  <2>4. DOMAIN applied' = {schema'[i].name : i \in DOMAIN schema'}
    BY <1>3, <2>1, <2>3 DEF Agreement, HistoryIsTrue
  <2>5. \A i \in DOMAIN schema' : applied'[schema'[i].name] = schema'[i].text
    BY <1>3, <2>1, <2>2, <2>3 DEF Agreement, HistoryIsTrue
  <2> QED
    BY <2>4, <2>5 DEF HistoryIsTrue
<1>5. \A m, text : Through(m, text) => Through(m, text)'
  BY <1>3 DEF Through
<1>6. Through(n, Checkout[p][n])'
  BY <1>3 DEF Through, Carried
<1>7. /\ \A q \in Proc \ {p} : pc'[q] = pc[q] /\ todo'[q] = todo[q]
      /\ pc'[p] = (IF todo[p] = {n} THEN Ready(p) ELSE "migrating")
      /\ todo'[p] = todo[p] \ {n}
      /\ open' = open \ {p}
  BY DEF Commit, Goto, TypeOK
<1>8. \A q \in Proc : Done(q) => Done(q)'
  <2> SUFFICES ASSUME NEW q \in Proc, Done(q), NEW m \in DOMAIN Checkout[q] \ todo'[q]
               PROVE  Through(m, Checkout[q][m])'
    BY DEF Done
  <2>1. CASE m \in todo[q]
    BY <2>1, <1>6, <1>7
  <2>2. CASE m \notin todo[q]
    BY <2>2, <1>5 DEF Done
  <2> QED
    BY <2>1, <2>2
<1>9. ServesOnItsSchema'
  <2> SUFFICES ASSUME NEW q \in Proc, pc'[q] \in {"starting", "serving"},
                      NEW m \in DOMAIN Checkout[q]
               PROVE  Through(m, Checkout[q][m])'
    BY DEF ServesOnItsSchema, Through, Carried
  <2>1. CASE q = p
    <3>1. todo'[p] = {}
      BY <2>1, <1>7
    <3> QED
      BY <2>1, <3>1, <1>2, <1>8 DEF Done
  <2>2. CASE q # p
    <3>1. Through(m, Checkout[q][m])
      BY <2>2, <1>7 DEF Agreement, ServesOnItsSchema, Through, Carried
    <3> QED
      BY <3>1, <1>5
  <2> QED
    BY <2>1, <2>2
<1>10. (\A q \in Proc : pc[q] \in Migrating => q \in Migrator /\ todo[q] # {} /\ Done(q))'
  BY <1>2, <1>7, <1>8 DEF Agreement, Ready
<1>11. (\A q \in Proc : pc[q] \in InTransaction <=> q \in open)'
  BY <1>2, <1>7 DEF Agreement, Ready
<1>12. (\A q \in Proc : pc[q] = "recorded" => Inserted(q))'
  <2> SUFFICES ASSUME NEW q \in Proc, pc'[q] = "recorded" PROVE Inserted(q)'
    OBVIOUS
  <2>1. q # p /\ pc[q] = "recorded" /\ Inserted(q)
    BY <1>7 DEF Ready, Agreement
  <2>2. ~IsNext(q, n)
    BY <1>2, <2>1 DEF Inserted
  <2>3. pc'[p] # "recorded"
    BY <1>7 DEF Ready
  <2>4. \A r \in Proc \ {p} : \A m : IsNext(r, m)' <=> IsNext(r, m)
    BY <1>7 DEF IsNext
  <2>5. DOMAIN applied' = DOMAIN applied \cup {n}
    BY DEF Commit
  <2> QED
    BY <1>7, <2>1, <2>2, <2>3, <2>4, <2>5 DEF Inserted
<1> QED
  BY <1>4, <1>9, <1>10, <1>11, <1>12 DEF Agreement

(* Steps that leave both tables, the lists and the transactions alone, and *)
(* bring nobody to a point where something is said of it, keep it all.     *)
LEMMA QuietStep ==
  ASSUME TypeOK, Agreement, UNCHANGED <<applied, schema, todo>>,
         \A p \in Proc :
           \/ pc'[p] = pc[p] /\ (p \in open' <=> p \in open)
           \/ pc'[p] \notin Migrating \cup {"starting", "serving"} /\ p \notin open'
           \/ pc[p] = "starting" /\ pc'[p] = "serving" /\ (p \in open' <=> p \in open)
  PROVE  Agreement'
<1> USE DEF Migrating, InTransaction
<1>1. HistoryIsTrue' /\ \A p \in Proc : Done(p) => Done(p)'
  BY DEF Agreement, HistoryIsTrue, Done, Through
<1>2. ServesOnItsSchema'
  BY DEF Agreement, ServesOnItsSchema, Carried
<1>3. (\A p \in Proc : pc[p] \in Migrating => p \in Migrator /\ todo[p] # {} /\ Done(p))'
  BY <1>1 DEF Agreement
<1>4. (\A p \in Proc : pc[p] \in InTransaction <=> p \in open)'
  BY DEF Agreement
<1>5. (\A p \in Proc : pc[p] = "recorded" => Inserted(p))'
  <2>1. \A p \in Proc : pc'[p] = "recorded" => pc[p] = "recorded"
    OBVIOUS
  <2> QED
    BY <2>1 DEF Agreement, Inserted, IsNext
<1> QED
  BY <1>1, <1>2, <1>3, <1>4, <1>5 DEF Agreement

LEMMA HistoryInvariant == Spec => []Agreement
<1>1. Init => Agreement
  BY DEF Init, Agreement, HistoryIsTrue, ServesOnItsSchema, Migrating, InTransaction
<1>2. TypeOK /\ Agreement /\ [Next]_vars => Agreement'
  <2> SUFFICES ASSUME TypeOK, Agreement, [Next]_vars PROVE Agreement'
    OBVIOUS
  <2> USE DEF InTransaction, Migrating, TypeOK
  <2>1. CASE UNCHANGED vars
    BY <2>1, QuietStep DEF vars
  <2>2. ASSUME NEW p \in Proc, Boot(p) \/ Connect(p) \/ CreateTable(p) \/ Refuse(p)
        PROVE  Agreement'
    BY <2>2, QuietStep DEF Boot, Connect, CreateTable, Refuse, Goto, Agreement
  <2>3. ASSUME NEW p \in Proc, Listen(p) PROVE Agreement'
    BY <2>3, QuietStep DEF Listen, Goto, Agreement
  <2>4. ASSUME NEW p \in Proc, Die(p) PROVE Agreement'
    BY <2>4, QuietStep DEF Die, Agreement
  <2>5. ASSUME NEW p \in Proc, Resolve(p) PROVE Agreement'
    <3>1. \A n \in DOMAIN Checkout[p] \ Pending(p) : Through(n, Checkout[p][n])
      <4> SUFFICES ASSUME NEW n \in DOMAIN Checkout[p] \ Pending(p)
                   PROVE  Through(n, Checkout[p][n])
        OBVIOUS
      <4>1. n \in DOMAIN applied /\ applied[n] = Checkout[p][n]
        BY <2>5 DEF Resolve, Mismatch, Known, Pending
      <4>2. PICK i \in DOMAIN schema : schema[i].name = n
        BY <4>1 DEF Agreement, HistoryIsTrue
      <4>3. schema[i] \in File /\ schema[i].text = Checkout[p][n]
        BY <4>1, <4>2 DEF Agreement, HistoryIsTrue
      <4> QED
        BY <4>2, <4>3 DEF Through, File
    <3>2. /\ \A q \in Proc \ {p} : pc'[q] = pc[q] /\ todo'[q] = todo[q]
          /\ pc'[p] = (IF Pending(p) = {} THEN Ready(p) ELSE "migrating")
          /\ todo'[p] = Pending(p)
          /\ UNCHANGED <<applied, schema, open>>
      BY <2>5 DEF Resolve, Goto
    <3>3. pc[p] = "reading" /\ p \notin open /\ (p \notin Migrator => Pending(p) = {})
      BY <2>5 DEF Resolve, Goto, Agreement
    <3>4. Done(p)' /\ \A q \in Proc \ {p} : Done(q) => Done(q)'
      BY <3>1, <3>2 DEF Done, Through
    <3>5. HistoryIsTrue'
      BY <3>2 DEF Agreement, HistoryIsTrue
    <3>6. ServesOnItsSchema'
      BY <3>1, <3>2 DEF Agreement, ServesOnItsSchema, Ready, Through, Carried
    <3>7. (\A q \in Proc : pc[q] \in Migrating => q \in Migrator /\ todo[q] # {} /\ Done(q))'
      BY <3>2, <3>3, <3>4 DEF Agreement, Ready
    <3>8. (\A q \in Proc : pc[q] \in InTransaction <=> q \in open)'
      BY <3>2, <3>3 DEF Agreement, Ready
    <3>9. (\A q \in Proc : pc[q] = "recorded" => Inserted(q))'
      BY <3>2, <3>3 DEF Agreement, Ready, Inserted, IsNext
    <3> QED
      BY <3>5, <3>6, <3>7, <3>8, <3>9 DEF Agreement
  <2>6. ASSUME NEW p \in Proc, NEW n \in todo[p], Alter(p, n) PROVE Agreement'
    <3>1. /\ pc[p] = "migrating" /\ pc' = [pc EXCEPT ![p] = "altered"]
          /\ open' = open \cup {p}
          /\ UNCHANGED <<applied, schema, todo>>
      BY <2>6 DEF Alter, Goto
    <3>2. HistoryIsTrue' /\ ServesOnItsSchema'
      BY <3>1 DEF Agreement, HistoryIsTrue, ServesOnItsSchema, Carried
    <3>3. (\A q \in Proc : pc[q] \in Migrating => q \in Migrator /\ todo[q] # {} /\ Done(q))'
      BY <3>1 DEF Agreement, Done, Through
    <3>4. (\A q \in Proc : pc[q] \in InTransaction <=> q \in open)'
      BY <3>1 DEF Agreement
    <3>5. (\A q \in Proc : pc[q] = "recorded" => Inserted(q))'
      BY <3>1 DEF Agreement, Inserted, IsNext
    <3> QED
      BY <3>2, <3>3, <3>4, <3>5 DEF Agreement
  <2>7. ASSUME NEW p \in Proc, NEW n \in todo[p], Record(p, n) PROVE Agreement'
    <3>1. \A m \in todo[p] : IsNext(p, m) => m = n
      BY <2>7, Files DEF Record, IsNext
    <3>2. /\ pc[p] = "altered" /\ pc' = [pc EXCEPT ![p] = "recorded"]
          /\ n \notin DOMAIN applied
          /\ \A q \in open \ {p} : pc[q] = "recorded" => ~IsNext(q, n)
          /\ UNCHANGED <<applied, schema, open, todo>>
      BY <2>7 DEF Record, Goto
    <3>3. HistoryIsTrue' /\ ServesOnItsSchema'
      BY <3>2 DEF Agreement, HistoryIsTrue, ServesOnItsSchema, Carried
    <3>4. (\A q \in Proc : pc[q] \in Migrating => q \in Migrator /\ todo[q] # {} /\ Done(q))'
      BY <3>2 DEF Agreement, Done, Through
    <3>5. (\A q \in Proc : pc[q] \in InTransaction <=> q \in open)'
      BY <3>2 DEF Agreement
    <3>6. \A q \in Proc \ {p} : pc[q] = "recorded" => ~IsNext(q, n)
      BY <3>2 DEF Agreement
    <3>7. Inserted(p)'
      BY <3>1, <3>2, <3>6 DEF Inserted, IsNext
    <3>8. \A q \in Proc \ {p} : pc[q] = "recorded" => Inserted(q)'
      <4> SUFFICES ASSUME NEW q \in Proc \ {p}, pc[q] = "recorded", NEW m \in todo[q],
                          IsNext(q, m)
                   PROVE  ~IsNext(p, m) /\ m \notin DOMAIN applied
                          /\ \A r \in Proc \ {q} : pc[r] = "recorded" => ~IsNext(r, m)
        BY <3>2 DEF Inserted, IsNext
      <4>1. m # n
        BY <3>6
      <4>2. ~IsNext(p, m)
        BY <4>1, <3>1 DEF IsNext
      <4> QED
        BY <4>2 DEF Agreement, Inserted
    <3> QED
      BY <3>2, <3>3, <3>4, <3>5, <3>7, <3>8 DEF Agreement
  <2>8. ASSUME NEW p \in Proc, NEW n \in todo[p], Commit(p, n) PROVE Agreement'
    BY <2>8, CommitStep
  <2>9. ASSUME NEW p \in Proc, NEW n \in todo[p], Collide(p, n) PROVE Agreement'
    BY <2>9, QuietStep DEF Collide, Agreement
  <2> QED
    BY <2>1, <2>2, <2>3, <2>4, <2>5, <2>6, <2>7, <2>8, <2>9 DEF Next, Step, Migrate
<1> QED
  BY <1>1, <1>2, TypeCorrect, PTL DEF Spec

-----------------------------------------------------------------------------
(* schema_migrations says exactly which files the database went through,   *)
(* and with which text.                                                    *)
THEOREM HistoryTrue == Spec => []HistoryIsTrue
<1>1. Agreement => HistoryIsTrue
  BY DEF Agreement
<1> QED
  BY <1>1, HistoryInvariant, PTL

(* A backend serves only on a database that has gone through all its files. *)
THEOREM ServesCurrent == Spec => []ServesOnItsSchema
<1>1. Agreement => ServesOnItsSchema
  BY DEF Agreement
<1> QED
  BY <1>1, HistoryInvariant, PTL

(* Startup implements Ledger: a commit is Apply of its process, and nothing *)
(* else changes either table.                                               *)
THEOREM Refinement == Spec => MigrationsAreSerial
<1>1. Init => History!LedgerInit
  BY DEF Init, History!LedgerInit, History!Recorded
<1>2. TypeOK /\ Agreement /\ Agreement' /\ [Next]_vars => [History!LedgerNext]_History!ledgerVars
  <2> SUFFICES ASSUME TypeOK, Agreement, Agreement', Next, ~UNCHANGED <<schema, applied>>
               PROVE  History!LedgerNext
    BY DEF History!ledgerVars, vars
  <2>1. PICK p \in Proc : \E n \in todo[p] : Commit(p, n)
    BY DEF Next, Step, Migrate, Boot, Connect, CreateTable, Resolve, Refuse,
       Alter, Record, Collide, Listen, Die
  <2> PICK n \in todo[p] : Commit(p, n)
    BY <2>1
  <2>2. /\ p \in Migrator /\ n \in DOMAIN Checkout[p]
        /\ \A i \in DOMAIN schema : schema[i].name # n
        /\ \A m \in DOMAIN Checkout[p] : m < n => Through(m, Checkout[p][m])
    BY CommitExtends
  <2>3. schema' = Append(schema, [name |-> n, text |-> Checkout[p][n]])
    BY DEF Commit, Carried
  <2>4. History!Recorded'
    BY DEF Agreement, HistoryIsTrue, History!Recorded
  <2>5. History!Apply(p, n)
    BY <2>2, <2>3, <2>4 DEF History!Apply, History!Carries, Through
  <2> QED
    BY <2>2, <2>5 DEF History!LedgerNext
<1> QED
  BY <1>1, <1>2, TypeCorrect, HistoryInvariant, PTL
     DEF Spec, MigrationsAreSerial, History!LedgerSpec

(* No step changes or removes a row of schema_migrations.                  *)
THEOREM HistoryKept == Spec => HistoryIsKept
<1>1. TypeOK /\ Agreement /\ [Next]_vars =>
        [\A n \in DOMAIN applied : n \in DOMAIN applied' /\ applied'[n] = applied[n]]_vars
  <2> SUFFICES ASSUME TypeOK, Agreement, Next
               PROVE  \A n \in DOMAIN applied : n \in DOMAIN applied' /\ applied'[n] = applied[n]
    OBVIOUS
  <2>1. CASE UNCHANGED applied
    BY <2>1
  <2>2. ASSUME NEW p \in Proc, NEW m \in todo[p], Commit(p, m)
        PROVE  \A n \in DOMAIN applied : n \in DOMAIN applied' /\ applied'[n] = applied[n]
    <3>1. m \notin DOMAIN applied
      BY <2>2 DEF Commit, Goto, Agreement, Inserted
    <3> QED
      BY <2>2, <3>1 DEF Commit
  <2> QED
    BY <2>1, <2>2 DEF Next, Step, Migrate, Boot, Connect, CreateTable, Resolve, Refuse,
       Alter, Record, Collide, Listen, Die
<1> QED
  BY <1>1, TypeCorrect, HistoryInvariant, PTL DEF Spec, HistoryIsKept

=============================================================================
