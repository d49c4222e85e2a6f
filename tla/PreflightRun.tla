---------------------------- MODULE PreflightRun ----------------------------
(***************************************************************************)
(* Run.PerformPreflightChecks of tools/preflight/preflight.go with all the  *)
(* checks it calls.  Every API call is a step of its own.  A check is a     *)
(* sequence of steps (StepsOf); the first step that fails ends the check,   *)
(* and the run goes on with the next one.  The two checks that change the   *)
(* cluster for good are those of SnapshotSetup, and the cleanup at the end  *)
(* is a cleaner of PreflightCleanup named after the run.                    *)
(***************************************************************************)
EXTENDS PreflightCleanup, SnapshotSetup

CONSTANT
  MaxPolls      (* defaultRetrySteps: how often a wait asks (120 in the code)*)

ASSUME RunAssumption == Run \subseteq Cleaner /\ MaxPolls \in Nat \ {0}

VARIABLES
  rn,           (* The state of every run of PerformPreflightChecks.         *)
  cutMounted    (* History: snapshots whose data was taken while the source  *)
                (* pod had the claim mounted.                                *)

runVars == <<rn, cutMounted>>

CheckOrder == <<"kubectl", "access", "helm", "k8sVersion", "rbac", "crds",
                "storageClass", "capability", "snapshotClass", "dns",
                "volumeSnapshot">>

NChecks == Len(CheckOrder)
Check   == {CheckOrder[i] : i \in 1..NChecks}
-----------------------------------------------------------------------------
(***************************************************************************)
(* The steps of the checks.                                                 *)
(***************************************************************************)

S(op, role) == [op |-> op, role |-> role]

Probe == <<S("probe", "none")>>

StartPod(role) == <<S("create", role), S("ready", role), S("fetch", role)>>

CapabilitySteps(role) == StartPod(role) \o <<S("delete", role)>>

(* createRestorePodFromSnapshot and the look at the restored data.          *)
RestoreSteps(claim, pod) == <<S("create", claim)>> \o StartPod(pod) \o <<S("exec", pod)>>

SnapshotSteps(snapshot) == <<S("create", snapshot), S("ready", snapshot)>>

(* Mutant of RemoveSource: the source pod is left running.                  *)
KeepSource == <<S("fetch", "srcPod")>>

RemoveSource == <<S("fetch", "srcPod"), S("delete", "srcPod")>>

VolumeSteps ==
  Probe \o <<S("create", "srcPvc")>> \o StartPod("srcPod")
        \o SnapshotSteps("snap") \o RestoreSteps("restorePvc", "restorePod")
        \o RemoveSource
        \o SnapshotSteps("unmntSnap") \o RestoreSteps("unmntPvc", "unmntPod")

StepsOf == [check \in Check |->
  CASE check = "crds"           -> <<S("setup", "crds")>>
    [] check = "snapshotClass"  -> <<S("setup", "class")>>
    [] check = "capability"     -> CapabilitySteps("cap0") \o CapabilitySteps("cap1")
                                     \o CapabilitySteps("cap2")
    [] check = "dns"            -> StartPod("dns") \o <<S("exec", "dns"), S("delete", "dns")>>
    [] check = "volumeSnapshot" -> VolumeSteps
    [] OTHER                    -> Probe]

(***************************************************************************)
(* k, step: the check and the step the run is at; sub: the call within the  *)
(* step; polls: how often the wait has asked; fin: whether the pod fetched  *)
(* last has finalizers; status, storageOk and skipClass: preflightStatus,   *)
(* storageSnapshotSuccess and skipSnapshotClassCheck.  outcome records what *)
(* has become of each check, for the properties.                            *)
(***************************************************************************)
RunState ==
  [k         : 0..(NChecks + 3),
   step      : Nat,
   sub       : {"call", "get", "patch"},
   polls     : 0..(MaxPolls - 1),
   fin       : BOOLEAN,
   inCluster : BOOLEAN,
   cleanFail : BOOLEAN,
   status    : BOOLEAN,
   storageOk : BOOLEAN,
   skipClass : BOOLEAN,
   verdict   : {"none", "passed", "failed"},
   outcome   : [Check -> {"todo", "ok", "failed", "skipped"}]]

IdleRun ==
  [k |-> 0, step |-> 1, sub |-> "call", polls |-> 0, fin |-> FALSE,
   inCluster |-> FALSE, cleanFail |-> FALSE,
   status |-> TRUE, storageOk |-> TRUE, skipClass |-> FALSE,
   verdict |-> "none", outcome |-> [check \in Check |-> "todo"]]

Deciding  == NChecks + 1
Cleaning  == NChecks + 2
Returned  == NChecks + 3

Checking(u) == rn[u].k \in 1..NChecks
CheckOf(u)  == CheckOrder[rn[u].k]
StepOf(u)   == StepsOf[CheckOf(u)][rn[u].step]
Target(u)   == [run |-> u, role |-> StepOf(u).role]

(* Whether the check the run has come to is left out.                       *)
Skips(u) == CASE CheckOf(u) \in {"kubectl", "helm"} -> rn[u].inCluster
              [] CheckOf(u) = "snapshotClass"       -> rn[u].skipClass
              [] CheckOf(u) = "volumeSnapshot"      -> ~rn[u].storageOk
              [] OTHER                              -> FALSE

At(u, op, sub) ==
  /\ Checking(u) /\ ~Skips(u)
  /\ StepOf(u).op = op /\ rn[u].sub = sub

(* The run is done with a check.                                            *)
Conclude(u, res) ==
  [rn[u] EXCEPT !.k = @ + 1, !.step = 1, !.sub = "call", !.polls = 0,
                !.outcome[CheckOf(u)] = res]

(* A step has succeeded; after the last one so has the check.               *)
Proceed(u) ==
  IF rn[u].step < Len(StepsOf[CheckOf(u)])
  THEN [rn[u] EXCEPT !.step = @ + 1, !.sub = "call", !.polls = 0]
  ELSE Conclude(u, "ok")

Advance(u) == rn' = [rn EXCEPT ![u] = Proceed(u)]

(* Mutant of Fail: the class check is not told of a missing storage class.  *)
FailKeepsStorage(u) ==
  rn' = [rn EXCEPT ![u] = [Conclude(u, "failed") EXCEPT
           !.status    = FALSE,
           !.storageOk = @ /\ CheckOf(u) # "snapshotClass",
           !.skipClass = @ \/ CheckOf(u) = "storageClass"]]

(* Mutant of Fail: a failed pod capability check does not count.            *)
FailKeepsStatus(u) ==
  rn' = [rn EXCEPT ![u] = [Conclude(u, "failed") EXCEPT
           !.status    = @ /\ CheckOf(u) = "capability",
           !.storageOk = @ /\ CheckOf(u) \notin {"storageClass", "snapshotClass"},
           !.skipClass = @ \/ CheckOf(u) = "storageClass"]]

(* The check has failed: the verdict is spoilt, and so are the checks that  *)
(* make no sense without it.                                                *)
Fail(u) ==
  rn' = [rn EXCEPT ![u] = [Conclude(u, "failed") EXCEPT
           !.status    = FALSE,
           !.storageOk = @ /\ CheckOf(u) \notin {"storageClass", "snapshotClass"},
           !.skipClass = @ \/ CheckOf(u) = "storageClass"]]
-----------------------------------------------------------------------------
(***************************************************************************)
(* The steps.                                                               *)
(***************************************************************************)

(* PerformPreflightChecks is called with the options of the user.           *)
StartRun(u, opt) ==
  /\ rn[u].k = 0
  /\ rn' = [rn EXCEPT ![u] = [IdleRun EXCEPT !.k = 1, !.inCluster = opt.inCluster,
                                              !.cleanFail = opt.cleanFail]]
  /\ su' = [su EXCEPT ![u] = InitSetup(opt.snapshotClass)]
  /\ UNCHANGED <<clusterVars, cl, classes, cutMounted>>

SkipCheck(u) ==
  /\ Checking(u) /\ Skips(u)
  /\ rn' = [rn EXCEPT ![u] = Conclude(u, "skipped")]
  /\ UNCHANGED <<clusterVars, cl, setupVars, cutMounted>>

(* A check that only looks: a binary, a version, a group, a storage class.  *)
ProbePasses(u) ==
  /\ At(u, "probe", "call")
  /\ Advance(u)
  /\ UNCHANGED <<clusterVars, cl, setupVars, cutMounted>>

(* Any call but the deletion of a pod whose check is done fails the check.  *)
CallFails(u) ==
  /\ \E op \in {"probe", "create", "ready", "fetch", "exec"} : At(u, op, "call")
  /\ Fault
  /\ Fail(u)
  /\ UNCHANGED <<obj, crds, cl, setupVars, cutMounted>>

(* The CRD check and the class check run as SnapshotSetup says.             *)
BeginSetup(u) ==
  /\ At(u, "setup", "call") /\ su[u].pc = "idle"
  /\ \/ StepOf(u).role = "crds"  /\ su[u].crdRes = "none" /\ StartCrds(u)
     \/ StepOf(u).role = "class" /\ su[u].clsRes = "none" /\ StartClass(u)
  /\ UNCHANGED <<clusterVars, cl, classes, runVars>>

EndSetup(u) ==
  /\ At(u, "setup", "call") /\ su[u].pc = "idle"
  /\ LET res == IF StepOf(u).role = "crds" THEN su[u].crdRes ELSE su[u].clsRes
     IN  \/ res = "ok"     /\ Advance(u)
         \/ res = "failed" /\ Fail(u)
  /\ UNCHANGED <<clusterVars, cl, setupVars, cutMounted>>

Creatable(o) == KindOf(o) = "VolumeSnapshot" => "snapshots" \in crds

Create(u) ==
  /\ At(u, "create", "call") /\ Creatable(Target(u))
  /\ obj' = [obj EXCEPT ![Target(u)] = Newborn(Target(u))]
  /\ Advance(u)
  /\ UNCHANGED <<crds, faults, cl, setupVars, cutMounted>>

(* The object is created but the answer is lost.                            *)
CreateAnswerLost(u) ==
  /\ At(u, "create", "call") /\ Creatable(Target(u)) /\ Fault
  /\ obj' = [obj EXCEPT ![Target(u)] = Newborn(Target(u))]
  /\ Fail(u)
  /\ UNCHANGED <<crds, cl, setupVars, cutMounted>>

(* Mutant of ObjectMissing: the wait goes on when the object has gone.      *)
MissingAwaited(u) ==
  \/ At(u, "ready", "call") /\ ~Present(Target(u)) /\ UNCHANGED <<clusterVars, cl, setupVars, runVars>>
  \/ /\ \/ \E op \in {"fetch", "exec"} : At(u, op, "call") /\ ~Present(Target(u))
        \/ At(u, "create", "call") /\ ~Creatable(Target(u))
     /\ Fail(u)
     /\ UNCHANGED <<clusterVars, cl, setupVars, cutMounted>>

(* What is waited for, fetched or entered is not there, or cannot be made.  *)
ObjectMissing(u) ==
  /\ \/ \E op \in {"ready", "fetch", "exec"} : At(u, op, "call") /\ ~Present(Target(u))
     \/ At(u, "create", "call") /\ ~Creatable(Target(u))
  /\ Fail(u)
  /\ UNCHANGED <<clusterVars, cl, setupVars, cutMounted>>

(* WaitOnPod and waitUntilVolSnapReadyToUse: ask, and ask again a bounded   *)
(* number of times; an error of the call ends the wait (CallFails).         *)
PollReady(u) ==
  /\ At(u, "ready", "call") /\ Present(Target(u)) /\ obj[Target(u)].ready
  /\ Advance(u)
  /\ UNCHANGED <<clusterVars, cl, setupVars, cutMounted>>

(* Mutant of PollAgain: the wait has no limit.                              *)
PollForever(u) ==
  /\ At(u, "ready", "call") /\ Present(Target(u)) /\ ~obj[Target(u)].ready
  /\ UNCHANGED <<clusterVars, cl, setupVars, runVars>>

(* Mutant of PollAgain: one question too many.                              *)
PollOnceMore(u) ==
  /\ At(u, "ready", "call") /\ Present(Target(u)) /\ ~obj[Target(u)].ready
  /\ IF rn[u].polls < MaxPolls
     THEN rn' = [rn EXCEPT ![u].polls = @ + 1]
     ELSE Fail(u)
  /\ UNCHANGED <<clusterVars, cl, setupVars, cutMounted>>

PollAgain(u) ==
  /\ At(u, "ready", "call") /\ Present(Target(u)) /\ ~obj[Target(u)].ready
  /\ IF rn[u].polls + 1 < MaxPolls
     THEN rn' = [rn EXCEPT ![u].polls = @ + 1]
     ELSE Fail(u)
  /\ UNCHANGED <<clusterVars, cl, setupVars, cutMounted>>

Fetch(u) ==
  /\ At(u, "fetch", "call") /\ Present(Target(u))
  /\ rn' = [rn EXCEPT ![u] = [Proceed(u) EXCEPT !.fin = obj[Target(u)].fin]]
  /\ UNCHANGED <<clusterVars, cl, setupVars, cutMounted>>

(* execInPod succeeds; an error or its timeout is CallFails.                *)
Exec(u) ==
  /\ At(u, "exec", "call") /\ Present(Target(u))
  /\ Advance(u)
  /\ UNCHANGED <<clusterVars, cl, setupVars, cutMounted>>

(* deleteK8sResource of a pod: DELETE, and if the fetched pod has           *)
(* finalizers, a fetch and a patch.                                         *)
Delete(u) ==
  /\ At(u, "delete", "call") /\ Present(Target(u))
  /\ obj' = Deleted(Target(u))
  /\ IF rn[u].fin THEN rn' = [rn EXCEPT ![u].sub = "get"] ELSE Advance(u)
  /\ UNCHANGED <<crds, faults, cl, setupVars, cutMounted>>

DeleteGet(u) ==
  /\ At(u, "delete", "get") /\ Present(Target(u))
  /\ rn' = [rn EXCEPT ![u].sub = "patch"]
  /\ UNCHANGED <<clusterVars, cl, setupVars, cutMounted>>

DeletePatch(u) ==
  /\ At(u, "delete", "patch") /\ Present(Target(u)) /\ obj[Target(u)].fin
  /\ obj' = Stripped(Target(u))
  /\ Advance(u)
  /\ UNCHANGED <<crds, faults, cl, setupVars, cutMounted>>

(* An error of the deletion, NotFound included, is a warning after a pod    *)
(* has done its work, and fails the volume snapshot check.                  *)
DeleteFails(u) ==
  /\ \E sub \in {"call", "get", "patch"} :
       /\ At(u, "delete", sub)
       /\ \/ Fault
          \/ ~Present(Target(u)) /\ UNCHANGED faults
          \/ sub = "patch" /\ ~obj[Target(u)].fin /\ UNCHANGED faults
  /\ IF CheckOf(u) = "volumeSnapshot" THEN Fail(u) ELSE Advance(u)
  /\ UNCHANGED <<obj, crds, cl, setupVars, cutMounted>>

(* The deletion takes effect but its answer is lost, or that of the patch.  *)
DeletionAnswerLost(u) ==
  /\ \/ /\ At(u, "delete", "call") /\ Present(Target(u))
        /\ obj' = Deleted(Target(u))
     \/ /\ At(u, "delete", "patch") /\ Present(Target(u)) /\ obj[Target(u)].fin
        /\ obj' = Stripped(Target(u))
  /\ Fault
  /\ IF CheckOf(u) = "volumeSnapshot" THEN Fail(u) ELSE Advance(u)
  /\ UNCHANGED <<crds, cl, setupVars, cutMounted>>

(* The verdict; the run cleans up if it is good or the user asked for it.   *)
Decide(u) ==
  /\ rn[u].k = Deciding
  /\ LET cleans == rn[u].status \/ rn[u].cleanFail
     IN  /\ rn' = [rn EXCEPT ![u].verdict = IF rn[u].status THEN "passed" ELSE "failed",
                             ![u].k = IF cleans THEN Cleaning ELSE Returned]
         /\ IF cleans THEN StartCleanup(u, u, RunNs[u]) ELSE UNCHANGED cl
  /\ UNCHANGED <<clusterVars, setupVars, cutMounted>>

(* An error of the cleanup is logged and does not change what is returned.  *)
Return(u) ==
  /\ rn[u].k = Cleaning /\ cl[u].pc = "done"
  /\ rn' = [rn EXCEPT ![u].k = Returned]
  /\ UNCHANGED <<clusterVars, cl, setupVars, cutMounted>>

RunNext(u) ==
  \/ SkipCheck(u) \/ ProbePasses(u) \/ CallFails(u)
  \/ BeginSetup(u) \/ EndSetup(u)
  \/ SetupNext(u) /\ UNCHANGED <<cl, runVars>>
  \/ Create(u) \/ CreateAnswerLost(u) \/ ObjectMissing(u)
  \/ PollReady(u) \/ PollAgain(u) \/ Fetch(u) \/ Exec(u)
  \/ Delete(u) \/ DeleteGet(u) \/ DeletePatch(u) \/ DeleteFails(u)
  \/ DeletionAnswerLost(u)
  \/ Decide(u) \/ Return(u)

RunTypeOK ==
  /\ rn \in [Run -> RunState]
  /\ cutMounted \subseteq Obj
-----------------------------------------------------------------------------
(* The storage takes the data of a snapshot and reports it ready to use.    *)
SnapshotTaken(o) ==
  LET srcPvc == [run |-> o.run, role |-> "srcPvc"]
      srcPod == [run |-> o.run, role |-> "srcPod"]
  IN  /\ KindOf(o) = "VolumeSnapshot" /\ obj[o].phase = "live" /\ ~obj[o].ready
      /\ Present(srcPvc)
      /\ obj' = [obj EXCEPT ![o].ready = TRUE]
      /\ cutMounted' = IF Present(srcPod) THEN cutMounted \cup {o} ELSE cutMounted
      /\ UNCHANGED <<crds, faults, cl, setupVars, rn>>
=============================================================================
