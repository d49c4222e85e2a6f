-------------------------- MODULE PreflightContract --------------------------
(***************************************************************************)
(* What preflight runs promise, without saying how a check is made: the     *)
(* checks of PerformPreflightChecks are settled one after the other, each   *)
(* for good; a check is left out exactly when the options or an earlier     *)
(* failure call for it; and the verdict is the conjunction of them all.     *)
(***************************************************************************)
EXTENDS Naturals, Sequences

CONSTANT
  Run           (* The runs.                                                 *)

VARIABLES
  outcome,      (* What has become of each check of each run.                *)
  verdict       (* What each run returns.                                    *)

CheckOrder == <<"kubectl", "access", "helm", "k8sVersion", "rbac", "crds",
                "storageClass", "capability", "snapshotClass", "dns",
                "volumeSnapshot">>

Check == {CheckOrder[i] : i \in 1..Len(CheckOrder)}

Outcome == {"todo", "ok", "failed", "skipped"}

(* These two are skipped together, if the run is told it is in a cluster.   *)
ToolCheck == {"kubectl", "helm"}

(* The checks a check makes no sense without.                               *)
Needs(check) ==
  CASE check = "snapshotClass"  -> {"storageClass"}
    [] check = "volumeSnapshot" -> {"storageClass", "snapshotClass"}
    [] OTHER                    -> {}

Settled(u, check) == outcome[u][check] # "todo"

(* A check waits for those before it.                                       *)
InOrder(u, i) == \A j \in 1..(i - 1) : Settled(u, CheckOrder[j])

Init ==
  /\ outcome = [u \in Run |-> [check \in Check |-> "todo"]]
  /\ verdict = [u \in Run |-> "none"]

Allowed(u, check, res) ==
  IF check \in ToolCheck
  THEN check = "helm" => (res = "skipped" <=> outcome[u]["kubectl"] = "skipped")
  ELSE res = "skipped" <=> \E need \in Needs(check) : outcome[u][need] # "ok"

Settle(u, i, res) ==
  /\ ~Settled(u, CheckOrder[i]) /\ InOrder(u, i)
  /\ Allowed(u, CheckOrder[i], res)
  /\ outcome' = [outcome EXCEPT ![u][CheckOrder[i]] = res]
  /\ UNCHANGED verdict

Decide(u) ==
  /\ verdict[u] = "none"
  /\ \A check \in Check : Settled(u, check)
  /\ verdict' = [verdict EXCEPT ![u] =
                   IF \E check \in Check : outcome[u][check] = "failed" THEN "failed" ELSE "passed"]
  /\ UNCHANGED outcome

Next ==
  \E u \in Run : \/ \E i \in 1..Len(CheckOrder), res \in Outcome \ {"todo"} : Settle(u, i, res)
                 \/ Decide(u)

Spec == Init /\ [][Next]_<<outcome, verdict>>
=============================================================================
