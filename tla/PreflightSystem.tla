--------------------------- MODULE PreflightSystem ---------------------------
(***************************************************************************)
(* Preflight runs, `preflight cleanup` commands and the cluster together.   *)
(***************************************************************************)
EXTENDS PreflightRun

CONSTANTS
  Active,       (* The runs that are performed; the others are over.         *)
  Cli,          (* The `preflight cleanup` commands that may be given.       *)
  CliFrom,      (* Bound: the check a run is at when they are given.         *)
  RunInputs,    (* The input files and flags of a run: [file, flags].        *)
  CleanupInputs,(* Those of a cleanup command.                               *)
  DefaultPods,  (* The default requests and limits of the pods of a run.     *)
  Stale,        (* What the runs that are over have left behind.             *)
  InitCrds,     (* The sets of CRDs the cluster may start with.              *)
  InitClasses   (* The sets of classes it may start with.                    *)

VARIABLE
  asked         (* The input file and the flags of every run and command.    *)

Cmd == INSTANCE PreflightInputs

ASSUME PreflightAssumption ==
  /\ Active \subseteq Run
  /\ Cli \subseteq Cleaner /\ Cli \cap Run = {}
  /\ CliFrom \in Nat
  /\ \A in \in RunInputs, u \in Active : Cmd!NamespaceOf(in.file, in.flags) = RunNs[u]
  /\ \A in \in RunInputs : /\ in.file.inCluster \in BOOLEAN
                          /\ LET opt == Cmd!RunOptions(in.file, in.flags)
                             IN  /\ opt.inCluster \in BOOLEAN /\ opt.cleanFail \in BOOLEAN
                                 /\ opt.snapshotClass \in UserClass \cup {NoClass}
  /\ \A in \in CleanupInputs : Cmd!CleanupOptions(in.file, in.flags).ns \in Ns \cup {NoNs}
  /\ DefaultPods \in Cmd!PodResources
  /\ Stale \subseteq {o \in Obj : o.run \notin Active}
  /\ InitCrds \subseteq SUBSET Crd
  /\ InitClasses \subseteq SUBSET UserClass

vars == <<obj, crds, faults, cl, classes, su, rn, cutMounted, asked>>

Init ==
  /\ crds \in InitCrds
  /\ classes \in InitClasses
  /\ classes # {} => "classes" \in crds
  /\ obj = [o \in Object |-> IF o \in Stale \cup Foreign
                             THEN [Newborn(o) EXCEPT !.ready = TRUE] ELSE Absent]
  /\ faults = 0
  /\ cl = [c \in Cleaner |-> IdleCleaner]
  /\ su = [u \in Run |-> InitSetup(NoClass)]
  /\ rn = [u \in Run |-> IdleRun]
  /\ cutMounted = {}
  /\ \E run \in [Active -> RunInputs], cleanup \in [Cli -> CleanupInputs] :
       asked = [p \in Active \cup Cli |-> IF p \in Active THEN run[p] ELSE cleanup[p]]

(* `preflight run`: the options are made up and looked at before the run.   *)
Launch(u) ==
  LET opt == Cmd!RunOptions(asked[u].file, asked[u].flags)
  IN  ~Cmd!RunRefused(opt) /\ StartRun(u, opt)

(* `preflight cleanup`, too.                                                *)
Invoke(c) ==
  /\ \A u \in Active : rn[u].k >= CliFrom
  /\ LET opt == Cmd!CleanupOptions(asked[c].file, asked[c].flags)
     IN  ~Cmd!CleanupRefused(opt, Run) /\ StartCleanup(c, opt.uid, opt.ns)
  /\ UNCHANGED <<clusterVars, setupVars, runVars>>

CleanerStep(c) == CleanerNext(c) /\ UNCHANGED <<setupVars, runVars>>

(* The pods, claims and snapshots of the cluster move on.  Readiness is     *)
(* read by the wait for it and never again, so it need not change before or *)
(* after that wait.                                                         *)
Awaited(o) == At(o.run, "ready", "call") /\ Target(o.run) = o

ClusterStep(o) ==
  \/ /\ \/ Awaited(o) /\ PodBecomesReady(o)
        \/ ControllerGuards(o) \/ ControllerReleases(o) \/ KubeletStops(o)
     /\ UNCHANGED <<cl, setupVars, runVars>>
  \/ Awaited(o) /\ SnapshotTaken(o)

Next ==
  /\ \/ \E u \in Active : Launch(u) \/ RunNext(u)
     \/ \E c \in Cli : Invoke(c)
     \/ \E c \in Cleaner : CleanerStep(c)
     \/ \E o \in Obj : ClusterStep(o)
  /\ asked' = asked

Spec == Init /\ [][Next]_vars

(* The process of a run and its calls go on: every API call returns.        *)
Fairness == \A u \in Active : /\ WF_vars(RunNext(u) /\ UNCHANGED asked)
                          /\ WF_vars(CleanerStep(u) /\ UNCHANGED asked)

FairSpec == Spec /\ Fairness
-----------------------------------------------------------------------------
TypeOK ==
  /\ ClusterTypeOK
  /\ CleanupTypeOK
  /\ SetupTypeOK
  /\ RunTypeOK

Contract == INSTANCE PreflightContract
              WITH outcome <- [u \in Run |-> rn[u].outcome],
                   verdict <- [u \in Run |-> rn[u].verdict]

(* Every run of PerformPreflightChecks keeps the contract: the three flags  *)
(* it carries along come to the verdict, and to the checks left out, that   *)
(* the outcomes of the single checks call for.                              *)
KeepsContract == Contract!Spec

(* The volume snapshot check creates nothing unless the class check has     *)
(* succeeded, and then with a class that exists and fits the storage class. *)
SnapshotCheckIsGated ==
  \A o \in Obj :
    o.role \in PvcRole \cup SnapRole /\ obj[o].phase # "absent" /\ o \notin Stale =>
      /\ rn[o.run].outcome["snapshotClass"] = "ok"
      /\ su[o.run].chosen \in classes \cap (Matching \cup Generated)

(* The second snapshot is not asked for while the source pod may still run: *)
(* by then its deletion has been accepted.                                  *)
SecondSnapshotAfterDelete ==
  \A u \in Active : obj[[run |-> u, role |-> "unmntSnap"]].phase # "absent" =>
    obj[[run |-> u, role |-> "srcPod"]].phase \in {"dying", "gone"}

Live(u) == {o \in Obj : o.run = u /\ obj[o].phase = "live"}

(* When a run's own cleanup has succeeded, nothing the run has created is   *)
(* live any more, even what it created without knowing; capability pods,    *)
(* which carry another label, are the exception.                            *)
CleanRunLeavesCapabilityPodsOnly ==
  \A u \in Active : cl[u].result = "nil" => {o.role : o \in Live(u)} \subseteq CapRole

(* What the user has asked for: a flag counts before the input file.        *)
Asked(p, name) ==
  IF name \in DOMAIN asked[p].flags THEN asked[p].flags[name] ELSE asked[p].file[name]

(* The objects of another run, and of other programs, are left alone by a   *)
(* run and by its cleanup; only a cleanup command takes them away, and only *)
(* one whose flags or input file ask for that run or for all.               *)
OthersAreSpared ==
  [][\A o \in Object : /\ obj[o].phase = "live" /\ obj'[o].phase # "live"
                       /\ o \in Foreign \/ o.run \notin Active
                       => \E c \in Cli : /\ cl[c].pc = "items"
                                         /\ o \notin Foreign
                                         /\ Asked(c, "uid") \in {o.run, NoUid}]_vars

(* A run that fails leaves what it has created to be looked at: it does not *)
(* clean up unless the user has asked it to.                                *)
FailedRunIsKept ==
  \A u \in Active : rn[u].verdict = "failed" /\ ~Asked(u, "cleanFail") => cl[u].pc = "idle"

(* The checks of the binaries are left out only if the user has asked for   *)
(* it: by the flag, or by an input file that no flag overrides.  (The       *)
(* converse, which the documentation of the input file claims too, does not *)
(* hold: see InClusterOf.)                                                  *)
BinariesSkippedOnlyIfAsked ==
  \A u \in Active :
    "skipped" \in {rn[u].outcome["kubectl"], rn[u].outcome["helm"]} => Asked(u, "inCluster")

(* A run returns, whatever fails, and though a cleanup command, given by    *)
(* somebody else, takes its objects away between two of its calls.          *)
RunReturns == \A u \in Active : rn[u].k = 1 ~> rn[u].k = Returned
-----------------------------------------------------------------------------
(* docs/preflight/README.md: the label preflight-run has the UID as its     *)
(* value on every resource of a run, and all of them are cleaned up.        *)
CleanRunLeavesNothing ==
  \A u \in Active : cl[u].result = "nil" => Live(u) = {}

(* docs/preflight/README.md: the second snapshot of a run that succeeds is  *)
(* one of an unmounted claim.                                               *)
SecondSnapshotIsUnmounted ==
  \A u \in Active : rn[u].verdict = "passed" => [run |-> u, role |-> "unmntSnap"] \notin cutMounted
=============================================================================
