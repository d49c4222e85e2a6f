----------------------------- MODULE SetupSystem -----------------------------
(***************************************************************************)
(* Several preflight runs that set up the VolumeSnapshot CRDs and a class   *)
(* of one cluster at the same time.                                         *)
(***************************************************************************)
EXTENDS SnapshotSetup

CONSTANT
  InitCrds      (* The sets of CRDs the cluster may start with.              *)

ASSUME SetupAssumption == InitCrds \subseteq SUBSET Crd

vars == <<obj, crds, faults, classes, su>>

Init ==
  /\ crds \in InitCrds
  /\ classes \in SUBSET UserClass
  /\ classes # {} => "classes" \in crds
  /\ obj = [o \in Object |-> Absent]
  /\ faults = 0
  /\ su \in [Run -> {InitSetup(given) : given \in UserClass \cup {NoClass}}]

(* A run checks the CRDs first and then, whatever came of it, the class.    *)
Begin(u) ==
  /\ \/ su[u].crdRes = "none" /\ StartCrds(u)
     \/ su[u].crdRes # "none" /\ su[u].clsRes = "none" /\ StartClass(u)
  /\ UNCHANGED <<clusterVars, classes>>

Next == \E u \in Run : Begin(u) \/ SetupNext(u)

Spec == Init /\ [][Next]_vars
-----------------------------------------------------------------------------
Succeeded(u) == su[u].clsRes = "ok"

(* A CRD check that succeeds leaves the cluster with all three CRDs, even   *)
(* when another run installs them at the same time.                         *)
CrdCheckIsSound == \A u \in Run : su[u].crdRes = "ok" => crds = Crd

(* A class check that succeeds has chosen a class that is in the cluster    *)
(* and whose driver is the provisioner of the storage class; the user's, if *)
(* one was given and still counts.                                          *)
ChosenClassFits ==
  \A u \in Run : Succeeded(u) =>
    /\ su[u].chosen \in classes \cap (Matching \cup Generated)
    /\ su[u].given # NoClass => su[u].chosen = su[u].given

(* Left to choose among the classes of the cluster, it takes a default one  *)
(* if there is one that fits: wherever that comes in the list, before or    *)
(* after others that fit, and although other runs add classes meanwhile.    *)
DefaultIsPreferred ==
  \A u \in Run : Succeeded(u) /\ su[u].given = NoClass /\ classes \cap Matching \cap DefaultClass # {}
    => su[u].chosen \in DefaultClass

(* A run generates a class only if it was left to choose and none of the    *)
(* cluster's own classes fits.  Two runs may each generate one: a class     *)
(* that another run adds after this one has listed them comes too late.     *)
GeneratedOnlyIfNeeded ==
  \A u \in Run : [gen |-> u] \in classes =>
    /\ su[u].given = NoClass
    /\ classes \cap Matching = {}
-----------------------------------------------------------------------------
(* docs/preflight/README.md: if the user gives no class, the check ensures  *)
(* that one class of the cluster is marked as the default.                  *)
DefaultIsEnsured ==
  \A u \in Run : Succeeded(u) /\ su[u].given = NoClass =>
    classes \cap DefaultClass # {}
=============================================================================
