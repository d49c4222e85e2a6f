----------------------------- MODULE SetupLemmas -----------------------------
(***************************************************************************)
(* Lemmas about the actions of SnapshotSetup, for any number of runs, any   *)
(* classes and any number of failures: the inductive invariant SetupInv,    *)
(* and that every action of a run preserves it.  They serve both systems    *)
(* that SnapshotSetup is a part of.                                         *)
(*                                                                         *)
(* A step is a step of one run.  All that the others may rely on is         *)
(* WorldStep: CRDs and classes are only added, and a class that is added    *)
(* is a generated one.                                                      *)
(***************************************************************************)
EXTENDS SnapshotSetup, WellFoundedInduction, TLAPS

CrdStep   == {"version", "crdGet", "crdCreate"}
ClassStep == {"prefVersion", "select", "classCreate"}

(* A run makes each of its two checks once, the one of the CRDs first.      *)
OrderOK(u) ==
  /\ su[u].pc \in CrdStep => su[u].crdRes = "none"
  /\ su[u].pc \in ClassStep => su[u].crdRes # "none" /\ su[u].clsRes = "none"
  /\ su[u].crdRes = "none" => su[u].clsRes = "none"

(* As long as no CRD has failed, every CRD the run is past is installed.    *)
PassedOK(u) ==
  /\ su[u].pc = "crdCreate" => su[u].crd <= 3
  /\ ~su[u].errs => \A i \in 1..3 : i < su[u].crd => CrdList[i] \in crds

(* A run comes to create a class only in a cluster without one that fits,   *)
(* and only if it was given none.                                           *)
CreatesOK(u) ==
  su[u].pc = "classCreate" => su[u].given = NoClass /\ classes \cap Matching = {}

(* What the two checks promise of a run that has passed them.               *)
PromiseOK(u) ==
  /\ su[u].crdRes = "ok" => crds = Crd
  /\ su[u].clsRes = "ok" =>
       /\ su[u].chosen \in classes \cap (Matching \cup Generated)
       /\ su[u].given # NoClass => su[u].chosen = su[u].given
       /\ su[u].given = NoClass /\ classes \cap Matching \cap DefaultClass # {}
            => su[u].chosen \in DefaultClass

RunOK(u) == OrderOK(u) /\ PassedOK(u) /\ CreatesOK(u) /\ PromiseOK(u)

(* A class is generated only where none of the cluster's own classes fits.  *)
GeneratedOK == classes \cap Generated # {} => classes \cap Matching = {}

SetupInv ==
  /\ ClusterTypeOK /\ SetupTypeOK
  /\ GeneratedOK
  /\ \A u \in Run : RunOK(u)

(* What a step may do to the cluster.                                       *)
WorldStep ==
  /\ ClusterTypeOK'
  /\ crds \subseteq crds'
  /\ classes \subseteq classes' /\ classes' \subseteq classes \cup Generated

(* What a step of run u does to the runs.                                   *)
Moves(u) == su' \in [Run -> SetupState] /\ \A v \in Run \ {u} : su'[v] = su[v]
-----------------------------------------------------------------------------
(* The classes users made are neither added nor taken away by a run.        *)
LEMMA UserClassesStay ==
  ASSUME WorldStep
  PROVE  classes' \cap Matching = classes \cap Matching
BY ClassAssumption DEF WorldStep

(* What holds of a run stays true while another one moves.                  *)
LEMMA Bystander ==
  ASSUME NEW v \in Run, RunOK(v), WorldStep, su'[v] = su[v]
  PROVE  RunOK(v)'
<1>1. classes' \cap Matching = classes \cap Matching
  BY UserClassesStay
<1>2. OrderOK(v)'
  BY DEF RunOK, OrderOK
<1>3. PassedOK(v)'
  BY DEF RunOK, PassedOK, WorldStep, CrdList
<1>4. CreatesOK(v)'
  BY <1>1 DEF RunOK, CreatesOK
<1>5. PromiseOK(v)'
  <2>1. crds' \subseteq Crd
    BY DEF WorldStep, ClusterTypeOK
  <2>2. su[v].crdRes = "ok" => crds' = Crd
    BY <2>1 DEF RunOK, PromiseOK, WorldStep
  <2>3. classes' \cap Matching \cap DefaultClass = classes \cap Matching \cap DefaultClass
    BY <1>1
  <2> QED BY <2>2, <2>3 DEF RunOK, PromiseOK, WorldStep
<1> QED BY <1>2, <1>3, <1>4, <1>5 DEF RunOK

-----------------------------------------------------------------------------
(* The steps that only move the run: nothing changes in the cluster except  *)
(* the count of failures.                                                   *)
LEMMA QuietWorld ==
  ASSUME ClusterTypeOK, obj' = obj, crds' = crds, classes' = classes,
         faults' = faults \/ Fault
  PROVE  WorldStep
<1>1. faults' \in 0..MaxFaults
  BY ClusterAssumption DEF ClusterTypeOK, Fault
<1> QED BY <1>1 DEF WorldStep, ClusterTypeOK

(* The check of the CRDs.                                                   *)
LEMMA CrdSteps ==
  ASSUME SetupInv, NEW u \in Run,
         \/ GotVersion(u) \/ CrdCheckAborts(u) \/ CrdExists(u) \/ CrdMissing(u)
         \/ CreateCrd(u) \/ CreateCrdFails(u) \/ CrdsChecked(u)
  PROVE  WorldStep /\ classes' = classes /\ Moves(u) /\ RunOK(u)'
<1> USE DEF SetupInv, SetupTypeOK
<1>0. /\ su \in [Run -> SetupState] /\ su[u] \in SetupState /\ ClusterTypeOK
      /\ OrderOK(u) /\ PassedOK(u) /\ CreatesOK(u) /\ PromiseOK(u)
  BY DEF RunOK
<1> USE <1>0
<1> HIDE DEF SetupInv
<1>1. CASE GotVersion(u)
  <2>1. WorldStep /\ classes' = classes
    BY <1>1, QuietWorld DEF GotVersion, clusterVars
  <2>2. su' = [su EXCEPT ![u].pc = "crdGet"] /\ su[u].pc = "version" /\ crds' = crds
    BY <1>1 DEF GotVersion, clusterVars
  <2>3. Moves(u)
    BY <2>2 DEF Moves, SetupState
  <2>4. RunOK(u)'
    BY <2>1, <2>2 DEF RunOK, OrderOK, PassedOK, CreatesOK, PromiseOK, SetupState,
      CrdStep, ClassStep
  <2> QED BY <2>1, <2>3, <2>4
<1>2. CASE CrdCheckAborts(u)
  <2>1. WorldStep /\ classes' = classes
    BY <1>2, QuietWorld DEF CrdCheckAborts
  <2>2. /\ su' = [su EXCEPT ![u].pc = "idle", ![u].crdRes = "failed"]
        /\ su[u].pc \in CrdStep /\ crds' = crds
    BY <1>2 DEF CrdCheckAborts, EndCrds, CrdStep
  <2>3. Moves(u)
    BY <2>2 DEF Moves, SetupState
  <2>4. RunOK(u)'
    BY <2>1, <2>2 DEF RunOK, OrderOK, PassedOK, CreatesOK, PromiseOK, SetupState,
      CrdStep, ClassStep
  <2> QED BY <2>1, <2>3, <2>4
<1>3. CASE CrdExists(u)
  <2>1. WorldStep /\ classes' = classes
    BY <1>3, QuietWorld DEF CrdExists, clusterVars
  <2>2. /\ su' = [su EXCEPT ![u].crd = @ + 1] /\ su[u].pc = "crdGet" /\ crds' = crds
        /\ su[u].crd \in 1..3 /\ CrdList[su[u].crd] \in crds
    BY <1>3 DEF CrdExists, clusterVars, CrdList, SetupState
  <2>3. Moves(u)
    BY <2>2 DEF Moves, SetupState
  <2>4. PassedOK(u)'
    BY <2>2 DEF PassedOK, SetupState
  <2>5. OrderOK(u)' /\ CreatesOK(u)' /\ PromiseOK(u)'
    BY <2>1, <2>2 DEF OrderOK, CreatesOK, PromiseOK, SetupState,
      CrdStep, ClassStep
  <2> QED BY <2>1, <2>3, <2>4, <2>5 DEF RunOK
<1>4. CASE CrdMissing(u)
  <2>1. WorldStep /\ classes' = classes
    BY <1>4, QuietWorld DEF CrdMissing, clusterVars
  <2>2. /\ su' = [su EXCEPT ![u].pc = "crdCreate"] /\ su[u].pc = "crdGet" /\ crds' = crds
        /\ su[u].crd <= 3
    BY <1>4 DEF CrdMissing, clusterVars, CrdList
  <2>3. Moves(u)
    BY <2>2 DEF Moves, SetupState
  <2>4. RunOK(u)'
    BY <2>1, <2>2 DEF RunOK, OrderOK, PassedOK, CreatesOK, PromiseOK, SetupState,
      CrdStep, ClassStep
  <2> QED BY <2>1, <2>3, <2>4
<1>5. CASE CreateCrd(u)
  <2>1. /\ su[u].pc = "crdCreate" /\ su[u].crd \in 1..3
        /\ CrdList[su[u].crd] \in Crd
    BY <1>5 DEF CreateCrd, PassedOK, SetupState, CrdList, Crd
  <2>2. crds' = crds \cup {CrdList[su[u].crd]} /\ classes' = classes
    BY <1>5 DEF CreateCrd
  <2>3. WorldStep
    BY <1>5, <2>1, <2>2 DEF CreateCrd, WorldStep, ClusterTypeOK
  <2>4. GivenAfter(u) \in UserClass \cup {NoClass}
    BY DEF GivenAfter, SetupState
  <2>5. su' = [su EXCEPT ![u].pc = "crdGet", ![u].crd = @ + 1, ![u].given = GivenAfter(u)]
    BY <1>5 DEF CreateCrd
  <2>6. Moves(u)
    BY <2>1, <2>4, <2>5 DEF Moves, SetupState
  <2>7. PassedOK(u)'
    BY <2>1, <2>2, <2>5 DEF PassedOK, SetupState
  <2>8. OrderOK(u)' /\ CreatesOK(u)' /\ PromiseOK(u)'
    BY <2>1, <2>2, <2>5 DEF OrderOK, CreatesOK, PromiseOK, SetupState,
      CrdStep, ClassStep
  <2> QED BY <2>2, <2>3, <2>6, <2>7, <2>8 DEF RunOK
<1>6. CASE CreateCrdFails(u)
  <2>1. /\ su[u].pc = "crdCreate" /\ su[u].crd \in 1..3
        /\ CrdList[su[u].crd] \in Crd
    BY <1>6 DEF CreateCrdFails, PassedOK, SetupState, CrdList, Crd
  <2>2. crds' \in {crds, crds \cup {CrdList[su[u].crd]}} /\ classes' = classes
    BY <1>6 DEF CreateCrdFails
  <2>3. WorldStep
    <3>1. faults' \in 0..MaxFaults
      BY <1>6, ClusterAssumption DEF CreateCrdFails, Fault, ClusterTypeOK
    <3> QED BY <1>6, <2>1, <2>2, <3>1 DEF CreateCrdFails, WorldStep, ClusterTypeOK
  <2>4. su' = [su EXCEPT ![u].pc = "crdGet", ![u].crd = @ + 1, ![u].errs = TRUE]
    BY <1>6 DEF CreateCrdFails
  <2>5. Moves(u)
    BY <2>1, <2>4 DEF Moves, SetupState
  <2>6. RunOK(u)'
    BY <2>1, <2>2, <2>4 DEF RunOK, OrderOK, PassedOK, CreatesOK, PromiseOK,
      SetupState, CrdStep, ClassStep
  <2> QED BY <2>2, <2>3, <2>5, <2>6
<1>7. CASE CrdsChecked(u)
  <2>1. WorldStep /\ classes' = classes
    BY <1>7, QuietWorld DEF CrdsChecked, clusterVars
  <2> DEFINE res == IF su[u].errs THEN "failed" ELSE "ok"
  <2>2. /\ su' = [su EXCEPT ![u].pc = "idle", ![u].crdRes = res]
        /\ su[u].pc = "crdGet" /\ su[u].crd > 3 /\ crds' = crds
    BY <1>7 DEF CrdsChecked, EndCrds, clusterVars, CrdList
  <2>3. res \in {"ok", "failed"} /\ (res = "ok" => crds = Crd)
    <3>1. ~su[u].errs => {CrdList[1], CrdList[2], CrdList[3]} \subseteq crds
      BY <2>2 DEF PassedOK, SetupState
    <3> QED BY <3>1 DEF CrdList, Crd, ClusterTypeOK
  <2> HIDE DEF res
  <2>4. Moves(u)
    BY <2>2, <2>3 DEF Moves, SetupState
  <2>5. RunOK(u)'
    BY <2>1, <2>2, <2>3 DEF RunOK, OrderOK, PassedOK, CreatesOK, PromiseOK,
      SetupState, CrdStep, ClassStep
  <2> QED BY <2>1, <2>4, <2>5
<1> QED BY <1>1, <1>2, <1>3, <1>4, <1>5, <1>6, <1>7
-----------------------------------------------------------------------------
(* The check of the VolumeSnapshotClass.  While it runs the run has left    *)
(* the CRDs behind.                                                         *)
LEMMA ClassChecked ==
  ASSUME SetupInv, NEW u \in Run, su[u].pc \in ClassStep,
         NEW res \in {"ok", "failed"}, NEW class \in Class \cup {NoClass},
         EndClass(u, res, class), WorldStep,
         res = "ok" => /\ class \in classes' \cap (Matching \cup Generated)
                       /\ su[u].given # NoClass => class = su[u].given
                       /\ su[u].given = NoClass /\ classes' \cap Matching \cap DefaultClass # {}
                            => class \in DefaultClass
  PROVE  Moves(u) /\ RunOK(u)'
<1>0. /\ su \in [Run -> SetupState] /\ su[u] \in SetupState
      /\ OrderOK(u) /\ PassedOK(u) /\ PromiseOK(u)
  BY DEF SetupInv, SetupTypeOK, RunOK
<1>1. su' = [su EXCEPT ![u].pc = "idle", ![u].clsRes = res, ![u].chosen = class]
  BY DEF EndClass
<1>2. Moves(u)
  BY <1>0, <1>1 DEF Moves, SetupState
<1>3. /\ su'[u].pc = "idle" /\ su'[u].clsRes = res /\ su'[u].chosen = class
      /\ su'[u].given = su[u].given /\ su'[u].crdRes = su[u].crdRes
      /\ su'[u].crd = su[u].crd /\ su'[u].errs = su[u].errs
  BY <1>0, <1>1 DEF SetupState
<1>4. OrderOK(u)'
  BY <1>0, <1>3 DEF OrderOK, CrdStep, ClassStep
<1>5. PassedOK(u)'
  BY <1>0, <1>3 DEF PassedOK, WorldStep
<1>6. CreatesOK(u)'
  BY <1>3 DEF CreatesOK
<1>7. PromiseOK(u)'
  <2>1. su[u].crdRes = "ok" => crds' = Crd
    BY <1>0 DEF PromiseOK, WorldStep, ClusterTypeOK
  <2> QED BY <1>3, <2>1 DEF PromiseOK
<1> QED BY <1>2, <1>4, <1>5, <1>6, <1>7 DEF RunOK

(* A run that is about to create a class knows that none fits.              *)
LEMMA CreatesKnows ==
  ASSUME SetupInv, NEW u \in Run, su[u].pc = "classCreate",
         classes' = classes \cup {[gen |-> u]}, UNCHANGED <<obj, crds>>,
         faults' = faults \/ Fault
  PROVE  /\ WorldStep /\ GeneratedOK'
         /\ [gen |-> u] \in classes' \cap Generated
         /\ su[u].given = NoClass /\ classes' \cap Matching = {}
<1>1. ClusterTypeOK /\ RunOK(u)
  BY DEF SetupInv
<1>2. faults' \in 0..MaxFaults
  BY <1>1, ClusterAssumption DEF ClusterTypeOK, Fault
<1>3. [gen |-> u] \in Generated
  BY DEF Generated
<1>4. WorldStep
  BY <1>1, <1>2, <1>3 DEF WorldStep, ClusterTypeOK
<1>5. classes' \cap Matching = {} /\ su[u].given = NoClass
  BY <1>1, <1>4, UserClassesStay DEF RunOK, CreatesOK
<1> QED BY <1>3, <1>4, <1>5 DEF GeneratedOK

(* The scan: its last match is a class of the cluster with the right driver,*)
(* and the default if there is one, for the scan comes to the first default *)
(* of the list and no further.                                              *)
LEMMA ScanPrefersDefault ==
  ASSUME NEW list \in Listings, NEW last \in Matches(list),
         \A i \in Matches(list) : i <= last
  PROVE  /\ list[last] \in Candidates
         /\ Candidates \cap DefaultClass # {} => list[last] \in DefaultClass
<1> DEFINE D == Candidates \cap DefaultClass
           T == {i \in DOMAIN list : list[i] \in D}
<1>1. /\ DOMAIN list \subseteq Nat
      /\ \A c \in classes : \E i \in DOMAIN list : list[i] = c
  BY DEF Listings, Bijection, Surjection
<1>2. list[last] \in Candidates /\ last \in DOMAIN list
  BY DEF Matches, Scanned
<1>3. ASSUME D # {} PROVE list[last] \in D
  <2>1. T \subseteq Nat /\ T # {}
    BY <1>1, <1>3 DEF Candidates
  <2> DEFINE Less == {p \in Nat \X Nat : p[1] < p[2]}
  <2>2. IsWellFoundedOn(Less, Nat)
    BY NatLessThanWellFounded DEF OpToRel
  <2>w. PICK first \in T : \A i \in T : <<i, first>> \notin Less
    <3> HIDE DEF T, Less
    <3> QED BY <2>1, <2>2, WFMin
  <2>3. \A i \in T : ~(i < first)
    BY <2>1, <2>w
  <2>4. first \in Matches(list)
    BY <1>1, <2>3 DEF Matches, Scanned
  <2>5. first <= last
    BY <2>4
  <2>6. ~(first < last)
    BY <1>2 DEF Matches, Scanned
  <2>7. first = last
    BY <1>1, <1>2, <2>5, <2>6
  <2> QED BY <2>7
<1> QED BY <1>2, <1>3

LEMMA ClassSteps ==
  ASSUME SetupInv, NEW u \in Run,
         \/ GotPrefVersion(u) \/ SelectClass(u) \/ NoClassMatches(u) \/ CreateClass(u)
         \/ CreateClassAnswerLost(u) \/ ConfirmGiven(u) \/ RejectGiven(u) \/ ClassCheckFails(u)
  PROVE  WorldStep /\ GeneratedOK' /\ Moves(u) /\ RunOK(u)'
<1>0. /\ su \in [Run -> SetupState] /\ su[u] \in SetupState /\ ClusterTypeOK
      /\ classes \subseteq Class /\ GeneratedOK
      /\ OrderOK(u) /\ PassedOK(u) /\ CreatesOK(u) /\ PromiseOK(u)
  BY DEF SetupInv, SetupTypeOK, RunOK
<1>q. ASSUME obj' = obj, crds' = crds, classes' = classes, faults' = faults \/ Fault
      PROVE  WorldStep /\ GeneratedOK'
  BY <1>0, <1>q, QuietWorld DEF GeneratedOK
<1>1. CASE GotPrefVersion(u)
  <2>1. WorldStep /\ GeneratedOK'
    BY <1>1, <1>q DEF GotPrefVersion, clusterVars
  <2>2. /\ su' = [su EXCEPT ![u].pc = "select"] /\ su[u].pc = "prefVersion"
        /\ crds' = crds /\ classes' = classes
    BY <1>1 DEF GotPrefVersion, clusterVars
  <2>3. Moves(u)
    BY <1>0, <2>2 DEF Moves, SetupState
  <2>4. RunOK(u)'
    BY <1>0, <2>2 DEF RunOK, OrderOK, PassedOK, CreatesOK, PromiseOK, SetupState,
      CrdStep, ClassStep
  <2> QED BY <2>1, <2>3, <2>4
<1>2. CASE SelectClass(u)
  <2>1. WorldStep /\ GeneratedOK' /\ classes' = classes
    BY <1>2, <1>q DEF SelectClass, clusterVars
  <2>2. su[u].pc \in ClassStep /\ su[u].given = NoClass
    BY <1>2 DEF SelectClass, ClassStep
  <2>a. PICK list \in Listings : \E last \in Matches(list) :
          (\A i \in Matches(list) : i <= last) /\ EndClass(u, "ok", list[last])
    BY <1>2 DEF SelectClass
  <2>3. PICK last \in Matches(list) :
          (\A i \in Matches(list) : i <= last) /\ EndClass(u, "ok", list[last])
    BY <2>a
  <2> DEFINE class == list[last]
  <2>4. /\ class \in classes \cap (Matching \cup Generated)
        /\ classes \cap Matching \cap DefaultClass # {} => class \in DefaultClass
    BY <2>3, ScanPrefersDefault DEF Candidates
  <2> HIDE DEF class
  <2>5. EndClass(u, "ok", class)
    BY <2>3 DEF class
  <2>6. class \in Class
    BY <1>0, <2>4
  <2>7. Moves(u) /\ RunOK(u)'
    BY <1>0, <2>1, <2>2, <2>4, <2>5, <2>6, ClassChecked
  <2> QED BY <2>1, <2>7
<1>3. CASE NoClassMatches(u)
  <2>1. WorldStep /\ GeneratedOK'
    BY <1>3, <1>q DEF NoClassMatches, clusterVars
  <2>2. /\ su' = [su EXCEPT ![u].pc = "classCreate"] /\ su[u].pc = "select"
        /\ crds' = crds /\ classes' = classes
        /\ su[u].given = NoClass /\ classes \cap Matching = {}
    BY <1>3 DEF NoClassMatches, Candidates, clusterVars
  <2>3. Moves(u)
    BY <1>0, <2>2 DEF Moves, SetupState
  <2>4. RunOK(u)'
    BY <1>0, <2>2 DEF RunOK, OrderOK, PassedOK, CreatesOK, PromiseOK, SetupState,
      CrdStep, ClassStep
  <2> QED BY <2>1, <2>3, <2>4
<1>4. CASE CreateClass(u)
  <2>1. /\ WorldStep /\ GeneratedOK'
        /\ [gen |-> u] \in classes' \cap Generated
        /\ su[u].given = NoClass /\ classes' \cap Matching = {}
    BY <1>4, CreatesKnows DEF CreateClass, clusterVars
  <2>2. EndClass(u, "ok", [gen |-> u]) /\ su[u].pc \in ClassStep
    BY <1>4 DEF CreateClass, ClassStep
  <2>3. [gen |-> u] \in Class
    BY <2>1 DEF Class
  <2>4. Moves(u) /\ RunOK(u)'
    BY <2>1, <2>2, <2>3, ClassChecked
  <2> QED BY <2>1, <2>4
<1>5. CASE CreateClassAnswerLost(u)
  <2>1. WorldStep /\ GeneratedOK'
    BY <1>5, CreatesKnows DEF CreateClassAnswerLost
  <2>2. EndClass(u, "failed", NoClass) /\ su[u].pc \in ClassStep
    BY <1>5 DEF CreateClassAnswerLost, ClassStep
  <2>3. Moves(u) /\ RunOK(u)'
    BY <2>1, <2>2, ClassChecked
  <2> QED BY <2>1, <2>3
<1>6. CASE ConfirmGiven(u)
  <2>1. WorldStep /\ GeneratedOK' /\ classes' = classes
    BY <1>6, <1>q DEF ConfirmGiven, clusterVars
  <2>2. /\ su[u].pc \in ClassStep /\ su[u].given # NoClass
        /\ su[u].given \in classes \cap Matching
        /\ EndClass(u, "ok", su[u].given)
    BY <1>6 DEF ConfirmGiven, GivenMatches, ClassStep
  <2>3. su[u].given \in Class
    BY <1>0, <2>2
  <2>4. Moves(u) /\ RunOK(u)'
    BY <2>1, <2>2, <2>3, ClassChecked
  <2> QED BY <2>1, <2>4
<1>7. CASE RejectGiven(u)
  <2>1. WorldStep /\ GeneratedOK'
    BY <1>7, <1>q DEF RejectGiven, clusterVars
  <2>2. su[u].pc \in ClassStep /\ EndClass(u, "failed", su[u].given)
    BY <1>7 DEF RejectGiven, ClassStep
  <2>3. su[u].given \in Class \cup {NoClass}
    BY <1>0 DEF SetupState, Class
  <2>4. Moves(u) /\ RunOK(u)'
    BY <2>1, <2>2, <2>3, ClassChecked
  <2> QED BY <2>1, <2>4
<1>8. CASE ClassCheckFails(u)
  <2>1. WorldStep /\ GeneratedOK'
    BY <1>8, <1>q DEF ClassCheckFails
  <2> DEFINE class == IF su[u].pc = "select" THEN su[u].given ELSE su[u].chosen
  <2>2. su[u].pc \in ClassStep /\ EndClass(u, "failed", class)
    BY <1>8 DEF ClassCheckFails, ClassStep
  <2>3. class \in Class \cup {NoClass}
    BY <1>0 DEF SetupState, Class
  <2> HIDE DEF class
  <2>4. Moves(u) /\ RunOK(u)'
    BY <2>1, <2>2, <2>3, ClassChecked
  <2> QED BY <2>1, <2>4
<1> QED BY <1>1, <1>2, <1>3, <1>4, <1>5, <1>6, <1>7, <1>8
-----------------------------------------------------------------------------
(* A run that starts, and one that begins one of its checks.                *)
LEMMA FreshRun ==
  ASSUME NEW given \in UserClass \cup {NoClass}, NEW u, su[u] = InitSetup(given)
  PROVE  InitSetup(given) \in SetupState /\ RunOK(u)
<1>1. InitSetup(given) \in SetupState
  BY DEF InitSetup, SetupState
<1> QED BY <1>1 DEF InitSetup, RunOK, OrderOK, PassedOK, CreatesOK, PromiseOK, CrdStep, ClassStep

LEMMA StartSteps ==
  ASSUME SetupInv, NEW u \in Run, UNCHANGED <<clusterVars, classes>>,
         \/ StartCrds(u) /\ su[u].crdRes = "none"
         \/ StartClass(u) /\ su[u].crdRes # "none" /\ su[u].clsRes = "none"
  PROVE  WorldStep /\ GeneratedOK' /\ Moves(u) /\ RunOK(u)'
<1>0. /\ su \in [Run -> SetupState] /\ su[u] \in SetupState /\ ClusterTypeOK
      /\ OrderOK(u) /\ PassedOK(u) /\ CreatesOK(u) /\ PromiseOK(u)
  BY DEF SetupInv, SetupTypeOK, RunOK
<1>1. WorldStep /\ classes' = classes /\ crds' = crds /\ GeneratedOK'
  BY <1>0, QuietWorld DEF clusterVars, SetupInv, GeneratedOK
<1>2. CASE su[u].crdRes = "none" /\ StartCrds(u)
  <2>1. su' = [su EXCEPT ![u].pc = "version"]
    BY <1>2 DEF StartCrds
  <2>2. Moves(u)
    BY <1>0, <2>1 DEF Moves, SetupState
  <2>3. RunOK(u)'
    BY <1>0, <1>1, <1>2, <2>1 DEF RunOK, OrderOK, PassedOK, CreatesOK, PromiseOK,
      SetupState, CrdStep, ClassStep
  <2> QED BY <1>1, <2>2, <2>3
<1>3. CASE su[u].crdRes # "none" /\ su[u].clsRes = "none" /\ StartClass(u)
  <2>1. su' = [su EXCEPT ![u].pc = "prefVersion"]
    BY <1>3 DEF StartClass
  <2>2. Moves(u)
    BY <1>0, <2>1 DEF Moves, SetupState
  <2>3. RunOK(u)'
    BY <1>0, <1>1, <1>3, <2>1 DEF RunOK, OrderOK, PassedOK, CreatesOK, PromiseOK,
      SetupState, CrdStep, ClassStep
  <2> QED BY <1>1, <2>2, <2>3
<1> QED BY <1>2, <1>3

(* A step of one run that keeps what holds of it keeps the invariant.       *)
LEMMA OneRunMoves ==
  ASSUME SetupInv, NEW u \in Run, WorldStep, GeneratedOK', Moves(u), RunOK(u)'
  PROVE  SetupInv'
<1>1. classes' \subseteq Class
  BY DEF SetupInv, SetupTypeOK, WorldStep, Class
<1>2. ASSUME NEW v \in Run PROVE RunOK(v)'
  <2>1. CASE v = u
    BY <2>1
  <2>2. CASE v # u
    BY <2>2, Bystander DEF SetupInv, Moves
  <2> QED BY <2>1, <2>2
<1> QED BY <1>1, <1>2 DEF SetupInv, SetupTypeOK, WorldStep, Moves

(* Every step of the two checks of a run keeps the invariant.               *)
LEMMA SetupStepKeeps ==
  ASSUME SetupInv, NEW u \in Run, SetupNext(u)
  PROVE  SetupInv' /\ WorldStep /\ Moves(u)
<1>1. CASE GotVersion(u) \/ CrdCheckAborts(u) \/ CrdExists(u) \/ CrdMissing(u)
           \/ CreateCrd(u) \/ CreateCrdFails(u) \/ CrdsChecked(u)
  <2>1. WorldStep /\ classes' = classes /\ Moves(u) /\ RunOK(u)'
    BY <1>1, CrdSteps
  <2>2. GeneratedOK'
    BY <2>1 DEF SetupInv, GeneratedOK
  <2> QED BY <2>1, <2>2, OneRunMoves
<1>2. CASE GotPrefVersion(u) \/ SelectClass(u) \/ NoClassMatches(u) \/ CreateClass(u)
           \/ CreateClassAnswerLost(u) \/ ConfirmGiven(u) \/ RejectGiven(u)
           \/ ClassCheckFails(u)
  BY <1>2, ClassSteps, OneRunMoves
<1> QED BY <1>1, <1>2 DEF SetupNext

(* A step that leaves CRDs, classes and runs alone keeps it, too.           *)
LEMMA SetupFrame ==
  ASSUME SetupInv, ClusterTypeOK', UNCHANGED <<crds, classes, su>>
  PROVE  SetupInv'
BY DEF SetupInv, SetupTypeOK, GeneratedOK, RunOK, OrderOK, PassedOK, CreatesOK, PromiseOK

(* The two checks of a run go on or end; they touch no object, and what a   *)
(* check has returned stays.                                                *)
LEMMA SetupCourse ==
  ASSUME SetupInv, NEW u \in Run, SetupNext(u)
  PROVE  /\ obj' = obj
         /\ \/ su[u].pc \in CrdStep /\ su'[u].pc \in CrdStep \cup {"idle"}
            \/ su[u].pc \in ClassStep /\ su'[u].pc \in ClassStep \cup {"idle"}
         /\ su'[u].crdRes = "none" => su[u].crdRes = "none"
<1>0. su \in [Run -> SetupState] /\ su[u] \in SetupState
  BY DEF SetupInv, SetupTypeOK
<1>1. CASE GotVersion(u) \/ CrdCheckAborts(u) \/ CrdExists(u) \/ CrdMissing(u)
  BY <1>0, <1>1 DEF GotVersion, CrdCheckAborts, CrdExists, CrdMissing, EndCrds, clusterVars,
    CrdStep, SetupState
<1>2. CASE CreateCrd(u) \/ CreateCrdFails(u) \/ CrdsChecked(u)
  BY <1>0, <1>2 DEF CreateCrd, CreateCrdFails, CrdsChecked, EndCrds, clusterVars, CrdStep, SetupState
<1>3. CASE GotPrefVersion(u) \/ SelectClass(u) \/ NoClassMatches(u) \/ CreateClass(u)
  BY <1>0, <1>3 DEF GotPrefVersion, SelectClass, NoClassMatches, CreateClass, EndClass,
    clusterVars, ClassStep, SetupState
<1>4. CASE CreateClassAnswerLost(u) \/ ConfirmGiven(u) \/ RejectGiven(u) \/ ClassCheckFails(u)
  BY <1>0, <1>4 DEF CreateClassAnswerLost, ConfirmGiven, RejectGiven, ClassCheckFails, EndClass,
    clusterVars, ClassStep, SetupState
<1> QED BY <1>1, <1>2, <1>3, <1>4 DEF SetupNext
=============================================================================
