----------------------------- MODULE SetupProofs -----------------------------
(***************************************************************************)
(* Theorems about SetupSystem, for any number of runs, any classes and any  *)
(* number of failures: the inductive invariant SetupInv of SetupLemmas      *)
(* holds, and with it the safety properties of the two checks.              *)
(***************************************************************************)
EXTENDS SetupSystem, SetupLemmas

LEMMA InitSetupInv == Init => SetupInv
<1> SUFFICES ASSUME Init PROVE SetupInv
  OBVIOUS
<1>1. ClusterTypeOK
  BY SetupAssumption, ClusterAssumption DEF Init, ClusterTypeOK, ObjState, Phase, Absent
<1>2. ASSUME NEW u \in Run PROVE su[u] \in SetupState /\ RunOK(u)
  <2>1. PICK given \in UserClass \cup {NoClass} : su[u] = InitSetup(given)
    BY DEF Init
  <2> QED BY <2>1, FreshRun
<1>3. classes \subseteq Class /\ GeneratedOK
  BY ClassAssumption DEF Init, Class, GeneratedOK
<1>4. su \in [Run -> SetupState]
  BY <1>2 DEF Init
<1> QED BY <1>1, <1>2, <1>3, <1>4 DEF SetupInv, SetupTypeOK

LEMMA NextSetupInv == SetupInv /\ [Next]_vars => SetupInv'
<1> SUFFICES ASSUME SetupInv, [Next]_vars PROVE SetupInv'
  OBVIOUS
<1>1. CASE Next
  <2>1. PICK u \in Run : Begin(u) \/ SetupNext(u)
    BY <1>1 DEF Next
  <2>2. CASE Begin(u)
    BY <2>2, StartSteps, OneRunMoves DEF Begin
  <2>3. CASE SetupNext(u)
    BY <2>3, SetupStepKeeps
  <2> QED BY <2>1, <2>2, <2>3
<1>2. CASE UNCHANGED vars
  <2>1. ClusterTypeOK'
    BY <1>2 DEF vars, SetupInv, ClusterTypeOK
  <2> QED BY <1>2, <2>1, SetupFrame DEF vars
<1> QED BY <1>1, <1>2

(* The inductive invariant holds in every reachable state.                  *)
THEOREM SetupInvHolds == Spec => []SetupInv
<1> QED BY InitSetupInv, NextSetupInv, PTL DEF Spec

(* The cluster, the classes and the two checks of every run have their      *)
(* types.                                                                   *)
THEOREM SetupTypesHold == Spec => [](ClusterTypeOK /\ SetupTypeOK)
<1>1. SetupInv => ClusterTypeOK /\ SetupTypeOK
  BY DEF SetupInv
<1> QED BY <1>1, SetupInvHolds, PTL

(* checkAndCreateVolumeSnapshotCRDs succeeds only in a cluster that has all *)
(* three CRDs, however many runs install them at the same time.             *)
THEOREM CrdCheckIsSoundHolds == Spec => []CrdCheckIsSound
<1>1. SetupInv => CrdCheckIsSound
  BY DEF SetupInv, CrdCheckIsSound, RunOK, PromiseOK
<1> QED BY <1>1, SetupInvHolds, PTL

(* validateStorageSnapshotClass succeeds only with a class that exists and  *)
(* has the driver of the storage class: the given one, if that still counts.*)
THEOREM ChosenClassFitsHolds == Spec => []ChosenClassFits
<1>1. SetupInv => ChosenClassFits
  BY DEF SetupInv, ChosenClassFits, RunOK, PromiseOK, Succeeded
<1> QED BY <1>1, SetupInvHolds, PTL

(* With no class given the scan takes a default class if one fits, in       *)
(* whatever order the classes are listed, and no class that another run     *)
(* generates meanwhile changes that.                                        *)
THEOREM DefaultIsPreferredHolds == Spec => []DefaultIsPreferred
<1>1. SetupInv => DefaultIsPreferred
  BY DEF SetupInv, DefaultIsPreferred, RunOK, PromiseOK, Succeeded
<1> QED BY <1>1, SetupInvHolds, PTL

-----------------------------------------------------------------------------
(* The class that carries a run's mark is one it has generated at the end   *)
(* of its class check, in which nobody gave it a class.                     *)
OwnOK(u) == [gen |-> u] \in classes => su[u].given = NoClass /\ su[u].clsRes # "none"

OwnInv == SetupInv /\ \A u \in Run : OwnOK(u)

LEMMA InitOwnInv == Init => OwnInv
<1> SUFFICES ASSUME Init, NEW u \in Run PROVE OwnOK(u)
  BY InitSetupInv DEF OwnInv
<1>1. [gen |-> u] \in Generated
  BY DEF Generated
<1> QED BY <1>1, ClassAssumption DEF Init, OwnOK

(* A run keeps the class it was given or forgets it, and what its class     *)
(* check has returned stays; it adds no class but its own, and that at the  *)
(* end of a check without a class given.                                    *)
LEMMA OwnClassOnly ==
  ASSUME SetupInv, NEW u \in Run, Begin(u) \/ SetupNext(u)
  PROVE  /\ su'[u].given \in {su[u].given, NoClass}
         /\ su[u].clsRes # "none" => su'[u].clsRes # "none"
         /\ \/ classes' = classes
            \/ /\ classes' = classes \cup {[gen |-> u]}
               /\ su'[u].given = NoClass /\ su'[u].clsRes # "none"
<1>0. su \in [Run -> SetupState] /\ su[u] \in SetupState /\ CreatesOK(u)
  BY DEF SetupInv, SetupTypeOK, RunOK
<1>1. CASE Begin(u)
  BY <1>0, <1>1 DEF Begin, StartCrds, StartClass, SetupState
<1>2. CASE GotVersion(u) \/ CrdCheckAborts(u) \/ CrdExists(u) \/ CrdMissing(u)
  BY <1>0, <1>2 DEF GotVersion, CrdCheckAborts, CrdExists, CrdMissing, EndCrds, SetupState
<1>3. CASE CreateCrd(u) \/ CreateCrdFails(u) \/ CrdsChecked(u)
  BY <1>0, <1>3 DEF CreateCrd, GivenAfter, CreateCrdFails, CrdsChecked, EndCrds, SetupState
<1>4. CASE GotPrefVersion(u) \/ SelectClass(u) \/ NoClassMatches(u)
  BY <1>0, <1>4 DEF GotPrefVersion, SelectClass, NoClassMatches, EndClass, SetupState
<1>5. CASE CreateClass(u) \/ CreateClassAnswerLost(u)
  BY <1>0, <1>5 DEF CreateClass, CreateClassAnswerLost, EndClass, CreatesOK, SetupState
<1>6. CASE ConfirmGiven(u) \/ RejectGiven(u) \/ ClassCheckFails(u)
  BY <1>0, <1>6 DEF ConfirmGiven, RejectGiven, ClassCheckFails, EndClass, SetupState
<1> QED BY <1>1, <1>2, <1>3, <1>4, <1>5, <1>6 DEF SetupNext

LEMMA NextOwnInv == OwnInv /\ [Next]_vars => OwnInv'
<1> SUFFICES ASSUME OwnInv, [Next]_vars, NEW v \in Run PROVE OwnOK(v)'
  BY NextSetupInv DEF OwnInv
<1>0. SetupInv /\ OwnOK(v)
  BY DEF OwnInv
<1>1. CASE Next
  <2>1. PICK u \in Run : Begin(u) \/ SetupNext(u)
    BY <1>1 DEF Next
  <2>2. CASE u = v
    BY <1>0, <2>1, <2>2, OwnClassOnly DEF OwnOK
  <2>3. CASE u # v
    <3>1. su'[v] = su[v]
      <4>1. Moves(u)
        <5>1. CASE Begin(u)
          BY <1>0, <5>1, StartSteps DEF Begin
        <5>2. CASE SetupNext(u)
          BY <1>0, <5>2, SetupStepKeeps
        <5> QED BY <2>1, <5>1, <5>2
      <4> QED BY <2>3, <4>1 DEF Moves
    <3>2. [gen |-> v] # [gen |-> u]
      BY <2>3
    <3>3. classes' = classes \/ classes' = classes \cup {[gen |-> u]}
      BY <1>0, <2>1, OwnClassOnly
    <3> QED BY <1>0, <3>1, <3>2, <3>3 DEF OwnOK
  <2> QED BY <2>2, <2>3
<1>2. CASE UNCHANGED vars
  BY <1>0, <1>2 DEF vars, OwnOK
<1> QED BY <1>1, <1>2

(* checkAndCreateSnapshotClassForProvisioner adds a class only for a run    *)
(* without a class given, and only to a cluster none of whose own classes   *)
(* fits.                                                                    *)
THEOREM GeneratedOnlyIfNeededHolds == Spec => []GeneratedOnlyIfNeeded
<1>1. OwnInv => GeneratedOnlyIfNeeded
  BY DEF OwnInv, OwnOK, SetupInv, GeneratedOK, GeneratedOnlyIfNeeded, Generated
<1> QED BY InitOwnInv, NextOwnInv, <1>1, PTL DEF Spec
=============================================================================
