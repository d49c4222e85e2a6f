----------------------------- MODULE MCPreflight -----------------------------
(***************************************************************************)
(* Instances of PreflightSystem for TLC: one run u1, leftovers of a run u2. *)
(***************************************************************************)
EXTENDS PreflightSystem, TLC

CONSTANTS u1, u2, nsA, k1, k2

MCRunNs == [r \in Run |-> nsA]
MCStale == {[run |-> u2, role |-> "dns"], [run |-> u2, role |-> "srcPvc"]}

(* The claims are protected, and a webhook adds a finalizer to one pod.     *)
MCFin == PvcRole \cup {"cap0"}

MCPods == [requests |-> [cpu |-> 1, memory |-> 1], limits |-> [cpu |-> 2, memory |-> 2]]

RunFile(inCluster, class, cleanFail) ==
  [Cmd!EmptyRunSection EXCEPT !.inCluster = inCluster, !.storageClass = "sc",
                              !.snapshotClass = class, !.cleanFail = cleanFail]

In(file, flags) == [file |-> file, flags |-> flags]

(* A flag against inCluster of the file, either way; a class in both; and   *)
(* options that are refused.                                                *)
SoloInputs ==
  {In([Cmd!EmptyRunSection EXCEPT !.inCluster = TRUE],
      "storageClass" :> "sc" @@ "inCluster" :> FALSE @@ "cleanFail" :> TRUE),
   In(RunFile(FALSE, k1, TRUE), "inCluster" :> TRUE @@ "cleanFail" :> FALSE),
   In(RunFile(TRUE, k1, FALSE), "snapshotClass" :> k2 @@ "cleanFail" :> TRUE),
   In(Cmd!EmptyRunSection, "cleanFail" :> TRUE),
   In(RunFile(FALSE, NoClass, TRUE), "requests" :> [cpu |-> 3, memory |-> 0])}
FindInputs == {In(RunFile(FALSE, NoClass, TRUE), "inCluster" :> TRUE)}
CliInputs  == {In(RunFile(FALSE, NoClass, FALSE), "inCluster" :> TRUE)}

CleanupFile(uid) == [Cmd!EmptyCleanupSection EXCEPT !.uid = uid]

(* All runs; one that a flag names, against another in the file; and a UID  *)
(* that is refused.                                                         *)
AnyCleanup == {In(Cmd!EmptyCleanupSection, <<>>), In(CleanupFile(u2), "uid" :> u1),
               In(CleanupFile(u1), "uid" :> "six")}

AllCrds  == {Crd}
SomeCrds == {{"classes"}}

AllClasses == {UserClass}
=============================================================================
