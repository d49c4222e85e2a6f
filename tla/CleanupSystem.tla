---------------------------- MODULE CleanupSystem ----------------------------
(***************************************************************************)
(* Cleaners at work in a cluster that holds the leftovers of earlier runs   *)
(* and in which other preflight runs go on creating objects.                *)
(***************************************************************************)
EXTENDS PreflightCleanup

CONSTANTS
  Stale,        (* Objects that earlier runs may have left behind.           *)
  Fresh,        (* Objects that other runs may create meanwhile.             *)
  InitCrds      (* The sets of CRDs the cluster may start with.              *)

ASSUME SystemAssumption ==
  /\ Stale \subseteq Obj
  /\ Fresh \subseteq Obj
  /\ InitCrds \subseteq SUBSET Crd

vars == <<obj, crds, faults, cl>>

Leftover(o) == [Newborn(o) EXCEPT !.ready = TRUE]

Init ==
  /\ crds \in InitCrds
  /\ \E left \in SUBSET Stale :
       /\ (\E o \in left : KindOf(o) = "VolumeSnapshot") => "snapshots" \in crds
       /\ obj = [o \in Object |-> IF o \in left \cup Foreign THEN Leftover(o) ELSE Absent]
  /\ faults = 0
  /\ cl = [c \in Cleaner |-> IdleCleaner]

(* `preflight cleanup` with any --uid and --namespace.                      *)
Invoke(c) ==
  /\ \E uid \in Run \cup {NoUid}, ns \in Ns \cup {NoNs} : StartCleanup(c, uid, ns)
  /\ UNCHANGED clusterVars

(* Another run creates an object; a snapshot needs its CRD.                 *)
OtherRunCreates(o) ==
  /\ obj[o] = Absent
  /\ KindOf(o) = "VolumeSnapshot" => "snapshots" \in crds
  /\ obj' = [obj EXCEPT ![o] = Newborn(o)]
  /\ UNCHANGED <<crds, faults, cl>>

OtherRunInstallsCrd(crd) ==
  /\ crd \notin crds
  /\ crds' = crds \cup {crd}
  /\ UNCHANGED <<obj, faults, cl>>

Environment ==
  \/ \E o \in Stale \cup Fresh :
       /\ ControllerGuards(o) \/ ControllerReleases(o) \/ KubeletStops(o)
       /\ UNCHANGED cl
  \/ \E o \in Fresh : OtherRunCreates(o)
  \/ \E crd \in Crd : OtherRunInstallsCrd(crd)

Next ==
  \/ \E c \in Cleaner : Invoke(c) \/ CleanerNext(c)
  \/ Environment

Spec == Init /\ [][Next]_vars

(* A cleaner that was started goes on: its API calls return.  A pod that is *)
(* being deleted is stopped and the controllers release what they protect;  *)
(* this is the cluster's doing, and no creator is asked to move.            *)
Fairness ==
  /\ \A c \in Cleaner : WF_vars(CleanerNext(c))
  /\ \A o \in Stale \cup Fresh :
       /\ WF_vars(ControllerReleases(o) /\ UNCHANGED cl)
       /\ WF_vars(KubeletStops(o) /\ UNCHANGED cl)

FairSpec == Spec /\ Fairness
-----------------------------------------------------------------------------
TypeOK == ClusterTypeOK /\ CleanupTypeOK

(* If CleanupPreflightResources returns nil, then every object it selects   *)
(* that was live when it was called is deleted or on its way out: whatever  *)
(* failed, and whatever other cleaners, controllers and runs did between    *)
(* the listing of a kind and the deletion of its objects.                   *)
CleanedOrReported ==
  \A c \in Cleaner : cl[c].result = "nil" =>
    \A o \in cl[c].target : obj[o].phase # "live"

(* If it returns nil, no object that was listed with finalizers is held by  *)
(* a finalizer any more: removeFinalizer has removed them, or they are gone.*)
StrippedOrReported ==
  \A c \in Cleaner : cl[c].result = "nil" =>
    \A o \in cl[c].strip : ~obj[o].fin

(* What a cleaner may touch: objects of preflight runs in its namespace, of *)
(* the run it names if it names one.                                        *)
InScope(c, o) ==
  /\ o \notin Foreign
  /\ RunNs[o.run] = cl[c].ns
  /\ cl[c].uid # NoUid => o.run = cl[c].uid

(* An object ceases to be live only at the hands of a cleaner whose labels  *)
(* and namespace select it: cleanup of one UID leaves alone every other     *)
(* run, every other namespace and every unlabelled object.                  *)
OnlySelectedDeleted ==
  [][\A o \in Object : obj[o].phase = "live" /\ obj'[o].phase # "live" =>
       \E c \in Cleaner : cl[c].pc = "items" /\ InScope(c, o)]_vars

(* Every call of CleanupPreflightResources returns, although the objects it *)
(* works on change under its hands.                                         *)
CleanupReturns ==
  \A c \in Cleaner : cl[c].pc = "discover" ~> cl[c].pc = "done"

(* After a cleanup that returned nil, all it was asked to remove does       *)
(* disappear from the cluster, even what it only marked for deletion.       *)
TargetsVanish ==
  \A c \in Cleaner : cl[c].result = "nil" ~>
    \A o \in cl[c].target : obj[o].phase = "gone"
-----------------------------------------------------------------------------
(***************************************************************************)
(* The inductive invariant behind CleanedOrReported, StrippedOrReported and *)
(* OnlySelectedDeleted.                                                     *)
(***************************************************************************)

(* Only a present object has a finalizer, and a snapshot needs its CRD.     *)
ObjectsOK ==
  \A o \in Object :
    /\ ~Present(o) => ~obj[o].fin
    /\ KindOf(o) = "VolumeSnapshot" /\ Present(o) => "snapshots" \in crds

Working(c) == cl[c].pc \in {"items", "get", "patch"}

(* How the parts of a cleaner's state go together.                          *)
ControlOK(c) ==
  /\ cl[c].idx \in 1..(LastGvk(c) + 1)
  /\ Working(c) => cl[c].idx <= LastGvk(c)
  /\ cl[c].pc \in {"idle", "discover"} => cl[c].strip = {} /\ cl[c].idx = 1
  /\ cl[c].pc \in {"idle", "discover", "list"} => cl[c].items = {}
  /\ cl[c].pc \in {"get", "patch"} => /\ cl[c].cur \in Object
                                     /\ obj[cl[c].cur].phase \in {"dying", "gone"}
  /\ cl[c].result # "none" => cl[c].pc = "done"
  /\ cl[c].result = "nil" => cl[c].ok /\ cl[c].idx = LastGvk(c) + 1 /\ cl[c].items = {}

(* What a cleaner has to do with is selected by it, and has existed.        *)
ScopeOK(c) ==
  /\ \A it \in cl[c].items : it.o \in Mine(c) /\ obj[it.o].phase # "absent"
  /\ \A o \in cl[c].target : o \in Mine(c) /\ obj[o].phase # "absent"
  /\ \A o \in cl[c].strip : obj[o].phase # "absent"

(* The last position of the object's kind in the GVK list.                  *)
LastPos(c, o) == IF KindOf(o) = "VolumeSnapshot" THEN cl[c].vers
                 ELSE IF KindOf(o) = "PVC"       THEN cl[c].vers + 1
                 ELSE cl[c].vers + 2

StillListed(c, o) == \E it \in cl[c].items : it.o = o

(* As long as nothing has failed, a target that is live is still to come.   *)
TargetsOK(c) ==
  cl[c].ok => \A o \in cl[c].target : obj[o].phase = "live" =>
    \/ cl[c].pc = "discover"
    \/ cl[c].pc = "done" /\ cl[c].result = "error"
    \/ cl[c].pc = "list" /\ cl[c].idx <= LastPos(c, o)
    \/ Working(c) /\ (cl[c].idx < LastPos(c, o) \/ StillListed(c, o))

(* And so is one that was listed with finalizers and is live or has some.   *)
StripsOK(c) ==
  cl[c].ok => \A o \in cl[c].strip : obj[o].phase = "live" \/ obj[o].fin =>
    \/ cl[c].pc = "done" /\ cl[c].result = "error"
    \/ \E it \in cl[c].items : it.o = o /\ it.fin
    \/ cl[c].pc \in {"get", "patch"} /\ cl[c].cur = o

(* The state of the cluster and of every cleaner is what the control flow   *)
(* of CleanupPreflightResources and deleteK8sResource makes of it: types,   *)
(* reachable positions in the GVK list, and work that is still owed.        *)
CleanupInv ==
  /\ TypeOK
  /\ ObjectsOK
  /\ \A c \in Cleaner : ControlOK(c) /\ ScopeOK(c) /\ TargetsOK(c) /\ StripsOK(c)
=============================================================================
