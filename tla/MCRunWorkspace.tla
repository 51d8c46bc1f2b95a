---------------------------- MODULE MCRunWorkspace ----------------------------
(* The adapter and its child with a fault and a retry, nobody reading; lines *)
(* stored out of order under a reader's polls; overlapping polls while the   *)
(* worker dies and retries; a child that hangs in a workspace whose ACLs are *)
(* prepared; and quiet runs that leave a workspace behind.                   *)
EXTENDS RunWorkspace

Setup(adapter, attempts, printed, failures, polling, breaks) ==
  [adapter |-> adapter, acl |-> FALSE, attempts |-> attempts, lines |-> printed,
   faults |-> failures, polls |-> polling, reconnects |-> breaks]

Stressed == {Setup("real", 2, 1, 1, 0, 0), Setup("real", 1, 2, 1, 0, 0),
             Setup("real", 1, 2, 0, 1, 0), Setup("fake", 2, 1, 1, 2, 1)}
Quiet == Setup("real", 2, 0, 1, 0, 0)
Hanging == [Setup("real", 1, 1, 1, 0, 0) EXCEPT !.acl = TRUE]
MCSetups == Stressed \cup {Quiet, Hanging}

\* A source file, a key in a directory of its own beneath it, and a file elsewhere.
MCFolder == [f \in {"app/Main.kt", "app/keys/a.jks", "infra/prod.yml"} |->
               IF f = "app/keys/a.jks" THEN "app/keys/" ELSE f]
MCSliced == ("app/Main.kt" :> "/Main.kt") @@ ("app/keys/a.jks" :> "/keys/a.jks")
              @@ ("infra/prod.yml" :> "ra/prod.yml")

Plan(s, paths, target, left) == [setup |-> s, touches |-> paths, target |-> target, left |-> left]

Alone == {Plan(Quiet, {"app/Main.kt", "app/keys/a.jks"}, FALSE, "missing")}
MCPlans == {Plan(s, {}, FALSE, "missing") : s \in Stressed} \cup Alone
             \cup {Plan(Quiet, {"app/Main.kt", "infra/prod.yml"}, TRUE, "missing"),
                    Plan(Quiet, {"app/Main.kt"}, FALSE, "foreign"),
                    Plan(Hanging, {"app/Main.kt"}, FALSE, "missing")}
=============================================================================
