----------------------------- MODULE MCStartup -----------------------------
(* The running release; the releases of two branches, which both added a    *)
(* second file, 0002_b and 0002_e; somebody at a shell with the merge of    *)
(* both, in which the latter was edited.  No file can be carried out twice  *)
(* but the first, whose every statement says IF NOT EXISTS; the branch's    *)
(* own fails after b, but not b after it.                                   *)
EXTENDS Startup, TLC

CONSTANTS running, next, branch, shell, a, b, e, edited

MCProc == {running, next, branch, shell}
MCBackend == {running, next, branch}
MCMigrator == {next, branch, shell}
MCChecksum == {a, b, e, edited}
MCCheckout ==
  running :> (1 :> a) @@
  next    :> (1 :> a @@ 2 :> b) @@
  branch  :> (1 :> a @@ 3 :> e) @@
  shell   :> (1 :> a @@ 2 :> b @@ 3 :> edited)
MCClash == {<<c, c>> : c \in {b, e, edited}} \cup {<<e, edited>>, <<edited, e>>, <<b, e>>}
MCConflict == MCClash \cup {<<a, a>>, <<e, b>>}

=============================================================================
