---------------------------- MODULE SnapshotSetup ----------------------------
(***************************************************************************)
(* The two checks of a preflight run that change the cluster for good:      *)
(* checkAndCreateVolumeSnapshotCRDs, which installs missing CRDs, and       *)
(* validateStorageSnapshotClass with checkAndCreateSnapshotClassForProvi-   *)
(* sioner, which selects a VolumeSnapshotClass or creates one.  What they   *)
(* create carries no label and outlives the run.                            *)
(*                                                                         *)
(* A class is abstracted to what the code asks of it: whether its driver is *)
(* the provisioner of the storage class, and whether it is annotated as the *)
(* default.  The classes are listed in any order.                           *)
(***************************************************************************)
EXTENDS Cluster, Sequences, Functions

CONSTANTS
  UserClass,    (* VolumeSnapshotClasses that exist independently of a run.  *)
  Matching,     (* Those whose driver is the provisioner.                    *)
  DefaultClass, (* Those annotated is-default-class: "true".                 *)
  NoClass       (* The empty --volume-snapshot-class.                        *)

Generated == [gen : Run]
Class     == UserClass \cup Generated

ASSUME ClassAssumption ==
  /\ Matching \subseteq UserClass
  /\ DefaultClass \subseteq UserClass
  /\ UserClass \cap Generated = {}
  /\ NoClass \notin Class

VARIABLES
  classes,      (* The VolumeSnapshotClasses in the cluster.                 *)
  su            (* The state of each run in these two checks.                *)

setupVars == <<classes, su>>

CrdList == <<"classes", "contents", "snapshots">>

(* pc, crd, errs: the step, the position in VolumeSnapshotCRDs and whether  *)
(* the list errs is not empty; given: o.SnapshotClass; chosen:              *)
(* storageVolSnapClass; crdRes, clsRes: what the two checks returned.       *)
SetupState ==
  [pc     : {"idle", "version", "crdGet", "crdCreate", "prefVersion", "select", "classCreate"},
   crd    : 1..4,
   errs   : BOOLEAN,
   given  : UserClass \cup {NoClass},
   chosen : Class \cup {NoClass},
   crdRes : {"none", "ok", "failed"},
   clsRes : {"none", "ok", "failed"}]

InitSetup(given) ==
  [pc |-> "idle", crd |-> 1, errs |-> FALSE, given |-> given, chosen |-> NoClass,
   crdRes |-> "none", clsRes |-> "none"]

SetupTypeOK ==
  /\ classes \subseteq Class
  /\ su \in [Run -> SetupState]
-----------------------------------------------------------------------------
(* The check of the CRDs.                                                   *)

StartCrds(u) ==
  /\ su[u].pc = "idle"
  /\ su' = [su EXCEPT ![u].pc = "version"]

(* The server version decides which CRD manifests would be installed.       *)
GotVersion(u) ==
  /\ su[u].pc = "version"
  /\ su' = [su EXCEPT ![u].pc = "crdGet"]
  /\ UNCHANGED <<clusterVars, classes>>

EndCrds(u, res) == su' = [su EXCEPT ![u].pc = "idle", ![u].crdRes = res]

(* Without the version, or when a CRD cannot be read, the check ends.       *)
CrdCheckAborts(u) ==
  /\ su[u].pc = "version" \/ (su[u].pc = "crdGet" /\ su[u].crd <= Len(CrdList))
  /\ Fault
  /\ EndCrds(u, "failed")
  /\ UNCHANGED <<obj, crds, classes>>

CrdExists(u) ==
  /\ su[u].pc = "crdGet" /\ su[u].crd <= Len(CrdList)
  /\ CrdList[su[u].crd] \in crds
  /\ su' = [su EXCEPT ![u].crd = @ + 1]
  /\ UNCHANGED <<clusterVars, classes>>

CrdMissing(u) ==
  /\ su[u].pc = "crdGet" /\ su[u].crd <= Len(CrdList)
  /\ CrdList[su[u].crd] \notin crds
  /\ su' = [su EXCEPT ![u].pc = "crdCreate"]
  /\ UNCHANGED <<clusterVars, classes>>

(* A class cannot have existed before the CRD of classes: when a run        *)
(* installs that CRD it forgets the class its user named.                   *)
GivenAfter(u) == IF CrdList[su[u].crd] = "classes" THEN NoClass ELSE su[u].given

CreateCrd(u) ==
  /\ su[u].pc = "crdCreate" /\ CrdList[su[u].crd] \notin crds
  /\ crds' = crds \cup {CrdList[su[u].crd]}
  /\ su' = [su EXCEPT ![u].pc = "crdGet", ![u].crd = @ + 1, ![u].given = GivenAfter(u)]
  /\ UNCHANGED <<obj, faults, classes>>

(* Mutants of CreateCrdFails: the error is dropped; a CRD is left out.      *)
CreateErrorDropped(u) ==
  /\ su[u].pc = "crdCreate"
  /\ \/ Fault
     \/ CrdList[su[u].crd] \in crds /\ UNCHANGED faults
  /\ su' = [su EXCEPT ![u].pc = "crdGet", ![u].crd = @ + 1]
  /\ UNCHANGED <<obj, crds, classes>>

CreateErrorSkips(u) ==
  /\ su[u].pc = "crdCreate"
  /\ \/ Fault
     \/ CrdList[su[u].crd] \in crds /\ UNCHANGED faults
  /\ su' = [su EXCEPT ![u].pc = "crdGet", ![u].crd = @ + 2, ![u].errs = TRUE]
  /\ UNCHANGED <<obj, crds, classes>>

(* The manifest is missing, the call fails with or without the CRD having   *)
(* been created, or another run was faster and the CRD exists by now: the   *)
(* error is kept and the next CRD is looked at.                             *)
CreateCrdFails(u) ==
  /\ su[u].pc = "crdCreate"
  /\ \/ Fault /\ crds' \in {crds, crds \cup {CrdList[su[u].crd]}}
     \/ CrdList[su[u].crd] \in crds /\ UNCHANGED <<crds, faults>>
  /\ su' = [su EXCEPT ![u].pc = "crdGet", ![u].crd = @ + 1, ![u].errs = TRUE]
  /\ UNCHANGED <<obj, classes>>

CrdsChecked(u) ==
  /\ su[u].pc = "crdGet" /\ su[u].crd > Len(CrdList)
  /\ EndCrds(u, IF su[u].errs THEN "failed" ELSE "ok")
  /\ UNCHANGED <<clusterVars, classes>>
-----------------------------------------------------------------------------
(* The check of the VolumeSnapshotClass.                                    *)

StartClass(u) ==
  /\ su[u].pc = "idle"
  /\ su' = [su EXCEPT ![u].pc = "prefVersion"]

EndClass(u, res, class) ==
  su' = [su EXCEPT ![u].pc = "idle", ![u].clsRes = res, ![u].chosen = class]

(* The group has a preferred version once one of its CRDs is installed.     *)
GotPrefVersion(u) ==
  /\ su[u].pc = "prefVersion" /\ crds # {}
  /\ su' = [su EXCEPT ![u].pc = "select"]
  /\ UNCHANGED <<clusterVars, classes>>

(* Mutant of Candidates: only a default class is taken.                     *)
DefaultCandidates == {c \in classes : c \in Matching \cap DefaultClass \/ c \in Generated}

(* The classes whose driver is the provisioner.                             *)
Candidates == {c \in classes : c \in Matching \/ c \in Generated}

(* The orders in which the classes may be listed.                           *)
Listings == Bijection(1..Cardinality(classes), classes)

(* Mutant of Scanned: the scan goes on after a default class.               *)
WholeList(list) == DOMAIN list

(* The positions the scan of a list comes to: it returns at the first class *)
(* that has the right driver and is the default.                            *)
Scanned(list) ==
  {i \in DOMAIN list :
     \A j \in DOMAIN list : j < i => list[j] \notin Candidates \cap DefaultClass}

Matches(list) == {i \in Scanned(list) : list[i] \in Candidates}

(* No class given: the last match the scan comes to.                        *)
SelectClass(u) ==
  /\ su[u].pc = "select" /\ su[u].given = NoClass /\ "classes" \in crds
  /\ \E list \in Listings : \E last \in Matches(list) :
       /\ \A i \in Matches(list) : i <= last
       /\ EndClass(u, "ok", list[last])
  /\ UNCHANGED <<clusterVars, classes>>

NoClassMatches(u) ==
  /\ su[u].pc = "select" /\ su[u].given = NoClass /\ "classes" \in crds
  /\ Candidates = {}
  /\ su' = [su EXCEPT ![u].pc = "classCreate"]
  /\ UNCHANGED <<clusterVars, classes>>

CreateClass(u) ==
  /\ su[u].pc = "classCreate"
  /\ classes' = classes \cup {[gen |-> u]}
  /\ EndClass(u, "ok", [gen |-> u])
  /\ UNCHANGED clusterVars

(* The class is created but the answer is lost: the check fails.            *)
CreateClassAnswerLost(u) ==
  /\ su[u].pc = "classCreate" /\ Fault
  /\ classes' = classes \cup {[gen |-> u]}
  /\ EndClass(u, "failed", NoClass)
  /\ UNCHANGED <<obj, crds>>

(* Mutant of GivenMatches: any class of that name will do.                  *)
GivenExists(u) == su[u].given \in classes

GivenMatches(u) == su[u].given \in classes \cap Matching

(* A given class must exist and have the right driver.  It is recorded as   *)
(* the one to use before it is looked up.                                   *)
ConfirmGiven(u) ==
  /\ su[u].pc = "select" /\ su[u].given # NoClass
  /\ GivenMatches(u)
  /\ EndClass(u, "ok", su[u].given)
  /\ UNCHANGED <<clusterVars, classes>>

RejectGiven(u) ==
  /\ su[u].pc = "select" /\ su[u].given # NoClass
  /\ ~GivenMatches(u)
  /\ EndClass(u, "failed", su[u].given)
  /\ UNCHANGED <<clusterVars, classes>>

ClassCheckFails(u) ==
  /\ \/ su[u].pc \in {"prefVersion", "select", "classCreate"} /\ Fault
     \/ su[u].pc = "prefVersion" /\ crds = {} /\ UNCHANGED faults
     \/ su[u].pc = "select" /\ su[u].given = NoClass /\ "classes" \notin crds
                            /\ UNCHANGED faults
  /\ EndClass(u, "failed", IF su[u].pc = "select" THEN su[u].given ELSE su[u].chosen)
  /\ UNCHANGED <<obj, crds, classes>>

SetupNext(u) ==
  \/ GotVersion(u) \/ CrdCheckAborts(u) \/ CrdExists(u) \/ CrdMissing(u)
  \/ CreateCrd(u) \/ CreateCrdFails(u) \/ CrdsChecked(u)
  \/ GotPrefVersion(u) \/ SelectClass(u) \/ NoClassMatches(u) \/ CreateClass(u)
  \/ CreateClassAnswerLost(u) \/ ConfirmGiven(u) \/ RejectGiven(u) \/ ClassCheckFails(u)
=============================================================================
