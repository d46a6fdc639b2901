------------------------------- MODULE Ledger -------------------------------
(***************************************************************************)
(* What migrations promise, as if one process at a time carried out one    *)
(* file: the database goes through a file of some migrator once it has     *)
(* gone through the files that come before it in that migrator's checkout, *)
(* and through no other file of its name; nothing is undone, and the list  *)
(* of what was carried out changes with it.  What order the files of two   *)
(* checkouts come in, nobody promises.                                     *)
(***************************************************************************)
EXTENDS Naturals, Sequences

CONSTANTS Migrator, Checkout

VARIABLES script, \* the files the database has gone through
          record  \* what it is said to have gone through: name -> text
ledgerVars == <<script, record>>

Carries(n, text) == \E i \in DOMAIN script : script[i] = [name |-> n, text |-> text]

Recorded ==
  /\ DOMAIN record = {script[i].name : i \in DOMAIN script}
  /\ \A i \in DOMAIN script : record[script[i].name] = script[i].text

LedgerInit == script = <<>> /\ Recorded

(* The database has gone through p's files before n, and through none of its name. *)
Apply(p, n) ==
  /\ \A i \in DOMAIN script : script[i].name # n
  /\ \A m \in DOMAIN Checkout[p] : m < n => Carries(m, Checkout[p][m])
  /\ script' = Append(script, [name |-> n, text |-> Checkout[p][n]])
  /\ Recorded'

LedgerNext == \E p \in Migrator : \E n \in DOMAIN Checkout[p] : Apply(p, n)

LedgerSpec == LedgerInit /\ [][LedgerNext]_ledgerVars

=============================================================================
