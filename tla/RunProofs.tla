------------------------------ MODULE RunProofs ------------------------------
(***************************************************************************)
(* Proofs about the course of a run in PreflightSystem, for any number of   *)
(* runs and commands, any input and any number of failures: which steps a   *)
(* run can be at, what becomes of its flags, the types of the whole system, *)
(* and that every run keeps the contract of PreflightContract.              *)
(***************************************************************************)
EXTENDS PreflightSystem, SetupLemmas

-----------------------------------------------------------------------------
(***************************************************************************)
(* The steps of the checks.                                                 *)
(***************************************************************************)

ObjectOp == {"create", "ready", "fetch", "exec", "delete"}

(* The steps that may occur in a check: the cluster-wide ones are those of  *)
(* SnapshotSetup, and claims and snapshots are for one check only.          *)
StepFor(check) ==
  {s \in [op : ObjectOp \cup {"probe", "setup"}, role : Role \cup {"none", "crds", "class"}] :
     /\ s.op \in ObjectOp => s.role \in Role
     /\ s.op = "setup" <=> check \in {"crds", "snapshotClass"}
     /\ s.op = "setup" => s.role = IF check = "crds" THEN "crds" ELSE "class"
     /\ s.role \in PvcRole \cup SnapRole => check = "volumeSnapshot"}

(* A step of a pod, a claim or a snapshot fits the volume snapshot check.   *)
LEMMA VolumeStep ==
  ASSUME NEW op \in ObjectOp, NEW role \in Role
  PROVE  S(op, role) \in StepFor("volumeSnapshot")
BY DEF S, StepFor, ObjectOp

LEMMA PodStep ==
  ASSUME NEW op \in ObjectOp, NEW role \in PodRole, NEW check,
         check \notin {"crds", "snapshotClass"}
  PROVE  S(op, role) \in StepFor(check)
BY DEF S, StepFor, ObjectOp, Role, PodRole, CapRole, PvcRole, SnapRole

(* A sequence of n steps of a set.                                          *)
Fits(s, T, n) == s \in Seq(T) /\ Len(s) = n

LEMMA Joined ==
  ASSUME NEW T, NEW s, NEW t, NEW n, NEW m, Fits(s, T, n), Fits(t, T, m)
  PROVE  Fits(s \o t, T, n + m)
BY DEF Fits

LEMMA Wider ==
  ASSUME NEW T, NEW U, U \subseteq T, NEW s, NEW n, Fits(s, U, n)
  PROVE  Fits(s, T, n)
BY DEF Fits

LEMMA OneStep == ASSUME NEW T, NEW a \in T PROVE Fits(<<a>>, T, 1)
BY DEF Fits

LEMMA ProbeFit ==
  ASSUME NEW check, check \notin {"crds", "snapshotClass"}
  PROVE  Fits(Probe, StepFor(check), 1)
<1>1. S("probe", "none") \in StepFor(check)
  BY DEF S, StepFor, ObjectOp, PvcRole, SnapRole
<1> QED BY <1>1 DEF Probe, Fits

LEMMA StartPodFit ==
  ASSUME NEW T, NEW role, S("create", role) \in T, S("ready", role) \in T, S("fetch", role) \in T
  PROVE  Fits(StartPod(role), T, 3)
BY DEF StartPod, Fits

LEMMA AlonePodFit ==
  ASSUME NEW role \in PodRole, NEW check, check \notin {"crds", "snapshotClass"}
  PROVE  Fits(StartPod(role), StepFor(check), 3)
<1>1. /\ S("create", role) \in StepFor(check)
      /\ S("ready", role) \in StepFor(check)
      /\ S("fetch", role) \in StepFor(check)
  BY PodStep DEF ObjectOp
<1> QED BY <1>1, StartPodFit

LEMMA CapabilityFit ==
  ASSUME NEW role \in PodRole
  PROVE  Fits(CapabilitySteps(role), StepFor("capability"), 3 + 1)
<1>1. S("delete", role) \in StepFor("capability")
  BY PodStep DEF ObjectOp
<1>2. Fits(<<S("delete", role)>>, StepFor("capability"), 1)
  BY <1>1, OneStep
<1>3. Fits(StartPod(role), StepFor("capability"), 3)
  BY AlonePodFit
<1> QED BY <1>2, <1>3, Joined, Zenon DEF CapabilitySteps

(* The volume snapshot check works with these objects until the source pod  *)
(* is removed, and with those after it.                                     *)
Mounted   == {"srcPvc", "srcPod", "snap", "restorePvc", "restorePod"}
Unmounted == {"unmntSnap", "unmntPvc", "unmntPod"}

PartFor(roles) == {s \in StepFor("volumeSnapshot") : s.role \in roles \cup {"none"}}

LEMMA PartStep ==
  ASSUME NEW roles, NEW op \in ObjectOp, NEW role \in Role \cap roles
  PROVE  S(op, role) \in PartFor(roles)
<1>1. S(op, role) \in StepFor("volumeSnapshot")
  BY VolumeStep
<1> QED BY <1>1 DEF PartFor, S

LEMMA PartPodFit ==
  ASSUME NEW roles, NEW role \in Role \cap roles
  PROVE  Fits(StartPod(role), PartFor(roles), 3)
<1>1. /\ S("create", role) \in PartFor(roles)
      /\ S("ready", role) \in PartFor(roles)
      /\ S("fetch", role) \in PartFor(roles)
  BY PartStep DEF ObjectOp
<1> QED BY <1>1, StartPodFit

LEMMA RestoreFit ==
  ASSUME NEW roles, NEW claim \in Role \cap roles, NEW pod \in Role \cap roles
  PROVE  Fits(RestoreSteps(claim, pod), PartFor(roles), 1 + 3 + 1)
<1>1. S("create", claim) \in PartFor(roles) /\ S("exec", pod) \in PartFor(roles)
  BY PartStep DEF ObjectOp
<1>2. /\ Fits(<<S("create", claim)>>, PartFor(roles), 1)
      /\ Fits(<<S("exec", pod)>>, PartFor(roles), 1)
  BY <1>1, OneStep
<1>3. Fits(StartPod(pod), PartFor(roles), 3)
  BY PartPodFit
<1>4. Fits(<<S("create", claim)>> \o StartPod(pod), PartFor(roles), 1 + 3)
  BY <1>2, <1>3, Joined, Zenon
<1> QED BY <1>2, <1>4, Joined, Zenon DEF RestoreSteps

LEMMA SnapshotFit ==
  ASSUME NEW roles, NEW snapshot \in Role \cap roles
  PROVE  Fits(SnapshotSteps(snapshot), PartFor(roles), 2)
<1>1. S("create", snapshot) \in PartFor(roles) /\ S("ready", snapshot) \in PartFor(roles)
  BY PartStep DEF ObjectOp
<1> QED BY <1>1 DEF SnapshotSteps, Fits

SourcePart ==
  Probe \o <<S("create", "srcPvc")>> \o StartPod("srcPod")
        \o SnapshotSteps("snap") \o RestoreSteps("restorePvc", "restorePod")

MountedPart == SourcePart \o RemoveSource

UnmountedPart == SnapshotSteps("unmntSnap") \o RestoreSteps("unmntPvc", "unmntPod")

LEMMA SourceFit == Fits(SourcePart, PartFor(Mounted), 1 + 1 + 3 + 2 + (1 + 3 + 1))
<1> DEFINE T  == PartFor(Mounted)
           s1 == Probe \o <<S("create", "srcPvc")>>
           s2 == s1 \o StartPod("srcPod")
           s3 == s2 \o SnapshotSteps("snap")
           s4 == s3 \o RestoreSteps("restorePvc", "restorePod")
<1>1. Mounted \subseteq Role
  BY DEF Role, PodRole, PvcRole, SnapRole, Mounted
<1>o. /\ "srcPvc" \in Mounted /\ "srcPod" \in Mounted /\ "snap" \in Mounted
      /\ "restorePvc" \in Mounted /\ "restorePod" \in Mounted
  BY DEF Mounted
<1>2. Fits(Probe, T, 1)
  <2>1. S("probe", "none") \in T
    BY DEF S, StepFor, PartFor, ObjectOp, PvcRole, SnapRole
  <2> QED BY <2>1, OneStep DEF Probe
<1>3. Fits(<<S("create", "srcPvc")>>, T, 1)
  <2>1. S("create", "srcPvc") \in T
    BY <1>1, <1>o, PartStep DEF ObjectOp
  <2> QED BY <2>1, OneStep
<1>4. Fits(StartPod("srcPod"), T, 3)
  BY <1>1, <1>o, PartPodFit
<1>5. Fits(SnapshotSteps("snap"), T, 2)
  BY <1>1, <1>o, SnapshotFit
<1>6. Fits(RestoreSteps("restorePvc", "restorePod"), T, 1 + 3 + 1)
  BY <1>1, <1>o, RestoreFit
<1>7. SourcePart = s4
  BY DEF SourcePart
<1> HIDE DEF T
<1>8. Fits(s1, T, 1 + 1)
  BY <1>2, <1>3, Joined, Zenon
<1> HIDE DEF s1
<1>9. Fits(s2, T, 1 + 1 + 3)
  BY <1>8, <1>4, Joined, Zenon
<1> HIDE DEF s2
<1>10. Fits(s3, T, 1 + 1 + 3 + 2)
  BY <1>9, <1>5, Joined, Zenon
<1> HIDE DEF s3
<1>11. Fits(s4, T, 1 + 1 + 3 + 2 + (1 + 3 + 1))
  BY <1>10, <1>6, Joined, Zenon
<1> HIDE DEF s4
<1>12. Fits(SourcePart, T, 1 + 1 + 3 + 2 + (1 + 3 + 1))
  BY <1>7, <1>11, Zenon
<1> QED BY <1>12 DEF T

LEMMA RemoveFit == Fits(RemoveSource, PartFor(Mounted), 2)
<1>1. S("fetch", "srcPod") \in PartFor(Mounted) /\ S("delete", "srcPod") \in PartFor(Mounted)
  BY PartStep DEF ObjectOp, Role, PodRole, Mounted
<1> QED BY <1>1 DEF RemoveSource, Fits

LEMMA MountedFit == Fits(SourcePart, PartFor(Mounted), 12) /\ Fits(MountedPart, PartFor(Mounted), 14)
<1> DEFINE T == PartFor(Mounted)
<1>1. Fits(SourcePart, T, 1 + 1 + 3 + 2 + (1 + 3 + 1)) /\ Fits(RemoveSource, T, 2)
  BY SourceFit, RemoveFit
<1> HIDE DEF T
<1>2. Fits(MountedPart, T, 1 + 1 + 3 + 2 + (1 + 3 + 1) + 2)
  BY <1>1, Joined, Zenon DEF MountedPart
<1>3. Fits(SourcePart, T, 12) /\ Fits(MountedPart, T, 14)
  BY <1>1, <1>2
<1> QED BY <1>3 DEF T

LEMMA UnmountedFit == Fits(UnmountedPart, PartFor(Unmounted), 7)
<1> DEFINE T == PartFor(Unmounted)
<1>1. Unmounted \subseteq Role
  BY DEF Role, PodRole, PvcRole, SnapRole, Unmounted
<1>o. "unmntSnap" \in Unmounted /\ "unmntPvc" \in Unmounted /\ "unmntPod" \in Unmounted
  BY DEF Unmounted
<1>2. Fits(SnapshotSteps("unmntSnap"), T, 2)
  BY <1>1, <1>o, SnapshotFit
<1>3. Fits(RestoreSteps("unmntPvc", "unmntPod"), T, 1 + 3 + 1)
  BY <1>1, <1>o, RestoreFit
<1> HIDE DEF T
<1>4. Fits(UnmountedPart, T, 2 + (1 + 3 + 1))
  BY <1>2, <1>3, Joined, Zenon DEF UnmountedPart
<1>5. Fits(UnmountedPart, T, 7)
  BY <1>4
<1> QED BY <1>5 DEF T

LEMMA Regrouped ==
  ASSUME NEW T, NEW a \in Seq(T), NEW b \in Seq(T), NEW c \in Seq(T)
  PROVE  (a \o b) \o c = a \o (b \o c)
OBVIOUS

LEMMA VolumeIsBothParts == VolumeSteps = MountedPart \o UnmountedPart
<1> DEFINE T  == StepFor("volumeSnapshot")
           s1 == SnapshotSteps("unmntSnap")
           s2 == RestoreSteps("unmntPvc", "unmntPod")
<1>1. PartFor(Mounted) \subseteq T /\ PartFor(Unmounted) \subseteq T
  BY DEF PartFor
<1>2. MountedPart \in Seq(T)
  BY <1>1, MountedFit DEF Fits
<1>3. s1 \in Seq(T) /\ s2 \in Seq(T)
  <2>1. /\ "unmntSnap" \in Role \cap Unmounted /\ "unmntPvc" \in Role \cap Unmounted
        /\ "unmntPod" \in Role \cap Unmounted
    BY DEF Role, PodRole, PvcRole, SnapRole, Unmounted
  <2>2. s1 \in Seq(PartFor(Unmounted)) /\ s2 \in Seq(PartFor(Unmounted))
    BY <2>1, SnapshotFit, RestoreFit DEF Fits
  <2> QED BY <1>1, <2>2
<1>4. VolumeSteps = (MountedPart \o s1) \o s2
  BY DEF VolumeSteps, MountedPart, SourcePart
<1>5. UnmountedPart = s1 \o s2
  BY DEF UnmountedPart
<1> HIDE DEF T, s1, s2
<1> QED BY <1>2, <1>3, <1>4, <1>5, Regrouped

LEMMA PartElements ==
  ASSUME NEW T, NEW s, NEW n, Fits(s, T, n)
  PROVE  \A i \in 1..n : s[i] \in T
BY DEF Fits

(* The steps of the volume snapshot check; the fourteenth is the deletion   *)
(* of the source pod.                                                       *)
LEMMA VolumeFit ==
  /\ Fits(VolumeSteps, StepFor("volumeSnapshot"), 21)
  /\ \A i \in 1..14 : VolumeSteps[i].role \in Mounted \cup {"none"}
  /\ \A i \in 15..21 : VolumeSteps[i].role \in Unmounted \cup {"none"}
  /\ VolumeSteps[14] = S("delete", "srcPod")
<1> DEFINE T == StepFor("volumeSnapshot")
           source == 12
           remove == 2
           first == 14
           second == 7
<1>1. /\ Fits(MountedPart, T, first) /\ Fits(UnmountedPart, T, second)
      /\ Fits(SourcePart, T, source) /\ Fits(RemoveSource, T, remove)
  <2>1. PartFor(Mounted) \subseteq T /\ PartFor(Unmounted) \subseteq T
    BY DEF PartFor
  <2> QED BY <2>1, MountedFit, UnmountedFit, RemoveFit, Wider
<1>2. Fits(MountedPart, PartFor(Mounted), first) /\ Fits(UnmountedPart, PartFor(Unmounted), second)
  BY MountedFit, UnmountedFit
<1>3. RemoveSource[2] = S("delete", "srcPod")
  BY DEF RemoveSource
<1> HIDE DEF T, source, remove, first, second
<1>4. /\ \A i \in 1..first : MountedPart[i] \in PartFor(Mounted)
      /\ \A i \in 1..second : UnmountedPart[i] \in PartFor(Unmounted)
  BY <1>2, PartElements
<1>5. Fits(VolumeSteps, T, first + second)
  BY <1>1, VolumeIsBothParts, Joined, Zenon
<1>6. /\ \A i \in 1..first : VolumeSteps[i] = MountedPart[i]
      /\ \A i \in 1..second : VolumeSteps[first + i] = UnmountedPart[i]
  <2> DEFINE both == MountedPart \o UnmountedPart
  <2>1. /\ \A i \in 1..first : both[i] = MountedPart[i]
        /\ \A i \in 1..second : both[first + i] = UnmountedPart[i]
    BY <1>1 DEF Fits
  <2>2. VolumeSteps = both
    BY VolumeIsBothParts
  <2> HIDE DEF both
  <2> QED BY <2>1, <2>2
<1>7. \A i \in 1..remove : MountedPart[source + i] = RemoveSource[i]
  <2> DEFINE both == SourcePart \o RemoveSource
  <2>1. \A i \in 1..remove : both[source + i] = RemoveSource[i]
    BY <1>1 DEF Fits
  <2>2. MountedPart = both
    BY DEF MountedPart
  <2> HIDE DEF both
  <2> QED BY <2>1, <2>2
<1> HIDE DEF Fits
<1>8. Fits(VolumeSteps, T, 21)
  BY <1>5 DEF first, second
<1>9. ASSUME NEW i \in 1..14 PROVE VolumeSteps[i].role \in Mounted \cup {"none"}
  BY <1>4, <1>6 DEF first, PartFor
<1>10. ASSUME NEW i \in 15..21 PROVE VolumeSteps[i].role \in Unmounted \cup {"none"}
  <2>1. i - 14 \in 1..7 /\ 14 + (i - 14) = i
    OBVIOUS
  <2>2. VolumeSteps[i] = UnmountedPart[i - 14] /\ UnmountedPart[i - 14] \in PartFor(Unmounted)
    BY <1>4, <1>6, <2>1 DEF first, second
  <2> QED BY <2>2 DEF PartFor
<1>11. VolumeSteps[14] = S("delete", "srcPod")
  <2>1. MountedPart[14] = RemoveSource[2]
    BY <1>7 DEF source, remove
  <2> QED BY <1>3, <1>6, <2>1 DEF first
<1> QED BY <1>8, <1>9, <1>10, <1>11 DEF T

(* The steps of every check fit it, and there is at least one.              *)
LEMMA StepsFit ==
  ASSUME NEW check \in Check
  PROVE  \E n \in Nat \ {0} : Fits(StepsOf[check], StepFor(check), n)
<1>1. CASE check = "crds"
  <2>1. S("setup", "crds") \in StepFor("crds")
    BY DEF S, StepFor, ObjectOp, PvcRole, SnapRole
  <2>2. Fits(<<S("setup", "crds")>>, StepFor("crds"), 1)
    BY <2>1, OneStep
  <2> QED BY <1>1, <2>2 DEF StepsOf
<1>2. CASE check = "snapshotClass"
  <2>1. S("setup", "class") \in StepFor("snapshotClass")
    BY DEF S, StepFor, ObjectOp, PvcRole, SnapRole
  <2>2. Fits(<<S("setup", "class")>>, StepFor("snapshotClass"), 1)
    BY <2>1, OneStep
  <2> QED BY <1>2, <2>2 DEF StepsOf
<1>3. CASE check = "capability"
  <2> DEFINE s1 == CapabilitySteps("cap0") \o CapabilitySteps("cap1")
             s2 == s1 \o CapabilitySteps("cap2")
  <2>1. /\ Fits(CapabilitySteps("cap0"), StepFor("capability"), 3 + 1)
        /\ Fits(CapabilitySteps("cap1"), StepFor("capability"), 3 + 1)
        /\ Fits(CapabilitySteps("cap2"), StepFor("capability"), 3 + 1)
    BY CapabilityFit DEF PodRole, CapRole
  <2>2. Fits(s1, StepFor("capability"), 3 + 1 + (3 + 1))
    BY <2>1, Joined, Zenon
  <2>3. StepsOf["capability"] = s2
    BY <1>3 DEF StepsOf
  <2> HIDE DEF s1
  <2>4. Fits(s2, StepFor("capability"), 3 + 1 + (3 + 1) + (3 + 1))
    BY <2>1, <2>2, Joined, Zenon
  <2> HIDE DEF s2
  <2>5. Fits(StepsOf["capability"], StepFor("capability"), 3 + 1 + (3 + 1) + (3 + 1))
    BY <2>3, <2>4, Zenon
  <2>6. Fits(StepsOf["capability"], StepFor("capability"), 12)
    BY <2>5
  <2> QED BY <1>3, <2>6
<1>4. CASE check = "dns"
  <2> DEFINE end == <<S("exec", "dns"), S("delete", "dns")>>
  <2>1. S("exec", "dns") \in StepFor("dns") /\ S("delete", "dns") \in StepFor("dns")
    BY PodStep DEF ObjectOp, PodRole
  <2>2. Fits(end, StepFor("dns"), 2)
    BY <2>1 DEF Fits
  <2>3. Fits(StartPod("dns"), StepFor("dns"), 3)
    BY AlonePodFit DEF PodRole
  <2>4. StepsOf["dns"] = StartPod("dns") \o end
    BY <1>4 DEF StepsOf
  <2> HIDE DEF end
  <2>5. Fits(StartPod("dns") \o end, StepFor("dns"), 3 + 2)
    BY <2>2, <2>3, Joined, Zenon
  <2>6. Fits(StepsOf["dns"], StepFor("dns"), 3 + 2)
    BY <2>4, <2>5, Zenon
  <2>7. Fits(StepsOf["dns"], StepFor("dns"), 5)
    BY <2>6
  <2> QED BY <1>4, <2>7
<1>5. CASE check = "volumeSnapshot"
  <2>1. StepsOf[check] = VolumeSteps
    BY <1>5 DEF StepsOf
  <2> QED BY <1>5, <2>1, VolumeFit
<1>6. CASE check \notin {"crds", "snapshotClass", "capability", "dns", "volumeSnapshot"}
  <2>1. StepsOf[check] = Probe
    BY <1>6 DEF StepsOf
  <2> QED BY <1>6, <2>1, ProbeFit
<1> QED BY <1>1, <1>2, <1>3, <1>4, <1>5, <1>6

LEMMA StepFacts ==
  ASSUME NEW check \in Check
  PROVE  /\ Len(StepsOf[check]) \in Nat \ {0}
         /\ \A i \in 1..Len(StepsOf[check]) : StepsOf[check][i] \in StepFor(check)
<1>1. PICK n \in Nat \ {0} : Fits(StepsOf[check], StepFor(check), n)
  BY StepsFit
<1> QED BY <1>1 DEF Fits
-----------------------------------------------------------------------------
(***************************************************************************)
(* The order of the checks.                                                 *)
(***************************************************************************)

LEMMA ElevenChecks ==
  /\ NChecks = 11
  /\ CheckOrder \in [1..11 -> Check]
  /\ Check = {"kubectl", "access", "helm", "k8sVersion", "rbac", "crds", "storageClass",
              "capability", "snapshotClass", "dns", "volumeSnapshot"}
<1>1. NChecks = 11
  BY DEF NChecks, CheckOrder
<1>2. /\ CheckOrder[1] = "kubectl" /\ CheckOrder[2] = "access" /\ CheckOrder[3] = "helm"
      /\ CheckOrder[4] = "k8sVersion" /\ CheckOrder[5] = "rbac" /\ CheckOrder[6] = "crds"
      /\ CheckOrder[7] = "storageClass" /\ CheckOrder[8] = "capability"
      /\ CheckOrder[9] = "snapshotClass" /\ CheckOrder[10] = "dns"
      /\ CheckOrder[11] = "volumeSnapshot"
  BY DEF CheckOrder
<1>3. 1..11 = {1, 2, 3, 4, 5, 6, 7, 8, 9, 10, 11}
  OBVIOUS
<1>4. CheckOrder = [i \in 1..11 |-> CheckOrder[i]]
  BY <1>3 DEF CheckOrder
<1> HIDE DEF CheckOrder
<1>5. Check = {"kubectl", "access", "helm", "k8sVersion", "rbac", "crds", "storageClass",
              "capability", "snapshotClass", "dns", "volumeSnapshot"}
  BY <1>1, <1>2, <1>3 DEF Check
<1>6. \A i \in 1..11 : CheckOrder[i] \in Check
  BY <1>1 DEF Check
<1> QED BY <1>1, <1>4, <1>5, <1>6

(* Where the checks stand; no check stands twice.                           *)
LEMMA Positions ==
  ASSUME NEW i \in 1..11
  PROVE  /\ CheckOrder[i] = "kubectl"        <=> i = 1
         /\ CheckOrder[i] = "helm"           <=> i = 3
         /\ CheckOrder[i] = "crds"           <=> i = 6
         /\ CheckOrder[i] = "storageClass"   <=> i = 7
         /\ CheckOrder[i] = "snapshotClass"  <=> i = 9
         /\ CheckOrder[i] = "volumeSnapshot" <=> i = 11
         /\ \A j \in 1..11 : CheckOrder[i] = CheckOrder[j] => i = j
<1>1. /\ CheckOrder[1] = "kubectl" /\ CheckOrder[2] = "access" /\ CheckOrder[3] = "helm"
      /\ CheckOrder[4] = "k8sVersion" /\ CheckOrder[5] = "rbac" /\ CheckOrder[6] = "crds"
      /\ CheckOrder[7] = "storageClass" /\ CheckOrder[8] = "capability"
      /\ CheckOrder[9] = "snapshotClass" /\ CheckOrder[10] = "dns"
      /\ CheckOrder[11] = "volumeSnapshot"
  BY DEF CheckOrder
<1>2. i \in {1, 2, 3, 4, 5, 6, 7, 8, 9, 10, 11}
  OBVIOUS
<1>3. ASSUME NEW j \in 1..11, CheckOrder[i] = CheckOrder[j] PROVE i = j
  <2>1. j \in {1, 2, 3, 4, 5, 6, 7, 8, 9, 10, 11}
    OBVIOUS
  <2> QED BY <1>1, <1>2, <1>3, <2>1
<1> QED BY <1>1, <1>2, <1>3
-----------------------------------------------------------------------------
(***************************************************************************)
(* What one step does to the record of a run.                               *)
(***************************************************************************)

(* A well-formed record; at a check, the run is at one of its steps.        *)
Placed(r) ==
  /\ r \in RunState
  /\ r.k \in 1..11 => r.step \in 1..Len(StepsOf[CheckOrder[r.k]])

(* The fields of a record but those that say where in a check it is.        *)
SameFlags(r, s) ==
  /\ s.verdict = r.verdict /\ s.inCluster = r.inCluster /\ s.cleanFail = r.cleanFail

Stays(r, s) ==
  /\ s.k = r.k /\ s.outcome = r.outcome /\ SameFlags(r, s)
  /\ s.status = r.status /\ s.storageOk = r.storageOk /\ s.skipClass = r.skipClass

(* The check r is at comes to an end.                                       *)
Settles(r, s, res) ==
  /\ s.k = r.k + 1 /\ SameFlags(r, s)
  /\ s.outcome = [r.outcome EXCEPT ![CheckOrder[r.k]] = res]
  /\ s.status <=> r.status /\ res # "failed"
  /\ s.storageOk <=> /\ r.storageOk
                     /\ res = "failed" => CheckOrder[r.k] \notin {"storageClass", "snapshotClass"}
  /\ s.skipClass <=> r.skipClass \/ (res = "failed" /\ CheckOrder[r.k] = "storageClass")

LEMMA CheckingFacts ==
  ASSUME NEW u \in Run, Placed(rn[u]), Checking(u)
  PROVE  /\ rn[u].k \in 1..11 /\ rn[u] \in RunState /\ CheckOf(u) = CheckOrder[rn[u].k]
         /\ CheckOf(u) \in Check /\ rn[u].outcome \in [Check -> {"todo", "ok", "failed", "skipped"}]
         /\ StepOf(u) \in StepFor(CheckOf(u))
         /\ rn[u].step \in 1..Len(StepsOf[CheckOf(u)]) /\ Len(StepsOf[CheckOf(u)]) \in Nat \ {0}
<1>1. rn[u].k \in 1..11 /\ rn[u] \in RunState /\ CheckOf(u) = CheckOrder[rn[u].k]
  BY ElevenChecks DEF Checking, Placed, CheckOf
<1>2. CheckOf(u) \in Check
  BY <1>1, ElevenChecks
<1>3. rn[u].step \in 1..Len(StepsOf[CheckOf(u)])
  BY <1>1 DEF Placed
<1>4. rn[u].outcome \in [Check -> {"todo", "ok", "failed", "skipped"}]
  BY <1>1 DEF RunState
<1> QED BY <1>1, <1>2, <1>3, <1>4, StepFacts DEF StepOf

(* At an object's step the run knows which object, and it is its own.       *)
LEMMA AtObject ==
  ASSUME NEW u \in Run, Placed(rn[u]), Checking(u), StepOf(u).op \in ObjectOp
  PROVE  /\ Target(u) \in Obj /\ Target(u) \in Object
         /\ Target(u).run = u /\ Target(u).role = StepOf(u).role /\ StepOf(u).role \in Role
         /\ Target(u).role \in PvcRole \cup SnapRole => rn[u].k = 11
<1>1. StepOf(u) \in StepFor(CheckOf(u)) /\ rn[u].k \in 1..11 /\ CheckOf(u) = CheckOrder[rn[u].k]
  BY CheckingFacts
<1>2. /\ StepOf(u).role \in Role
      /\ StepOf(u).role \in PvcRole \cup SnapRole => CheckOf(u) = "volumeSnapshot"
  BY <1>1 DEF StepFor
<1>3. CheckOf(u) = "volumeSnapshot" => rn[u].k = 11
  BY <1>1, Positions
<1> QED BY <1>2, <1>3 DEF Target, Obj, Object

LEMMA ConcludeFacts ==
  ASSUME NEW u \in Run, Placed(rn[u]), Checking(u), NEW res \in {"ok", "failed", "skipped"}
  PROVE  /\ Placed(Conclude(u, res))
         /\ Conclude(u, res).k = rn[u].k + 1 /\ SameFlags(rn[u], Conclude(u, res))
         /\ Conclude(u, res).outcome = [rn[u].outcome EXCEPT ![CheckOf(u)] = res]
         /\ Conclude(u, res).status = rn[u].status
         /\ Conclude(u, res).storageOk = rn[u].storageOk
         /\ Conclude(u, res).skipClass = rn[u].skipClass
<1>1. /\ rn[u] \in RunState /\ rn[u].k \in 1..11 /\ CheckOf(u) \in Check
      /\ rn[u].outcome \in [Check -> {"todo", "ok", "failed", "skipped"}]
  BY CheckingFacts
<1>2. /\ Conclude(u, res).k = rn[u].k + 1 /\ Conclude(u, res).step = 1
      /\ Conclude(u, res).outcome = [rn[u].outcome EXCEPT ![CheckOf(u)] = res]
      /\ SameFlags(rn[u], Conclude(u, res))
      /\ Conclude(u, res).status = rn[u].status
      /\ Conclude(u, res).storageOk = rn[u].storageOk
      /\ Conclude(u, res).skipClass = rn[u].skipClass
  BY <1>1 DEF Conclude, RunState, SameFlags
<1>3. 0 \in 0..(MaxPolls - 1)
  BY RunAssumption
<1>4. rn[u].k + 1 \in 0..(NChecks + 3)
  BY <1>1, ElevenChecks
<1>5. [rn[u].outcome EXCEPT ![CheckOf(u)] = res] \in [Check -> {"todo", "ok", "failed", "skipped"}]
  BY <1>1
<1>6. Conclude(u, res) \in RunState
  BY <1>1, <1>3, <1>4, <1>5 DEF Conclude, RunState
<1>7. ASSUME NEW k \in 1..11 PROVE 1 \in 1..Len(StepsOf[CheckOrder[k]])
  <2>1. CheckOrder[k] \in Check
    BY ElevenChecks
  <2> QED BY <2>1, StepFacts
<1> QED BY <1>2, <1>6, <1>7 DEF Placed

LEMMA ProceedFacts ==
  ASSUME NEW u \in Run, Placed(rn[u]), Checking(u)
  PROVE  /\ Placed(Proceed(u))
         /\ Stays(rn[u], Proceed(u)) \/ Settles(rn[u], Proceed(u), "ok")
<1>1. /\ rn[u] \in RunState /\ rn[u].k \in 1..11 /\ CheckOf(u) = CheckOrder[rn[u].k]
      /\ rn[u].step \in 1..Len(StepsOf[CheckOf(u)]) /\ Len(StepsOf[CheckOf(u)]) \in Nat \ {0}
  BY CheckingFacts
<1>2. CASE rn[u].step < Len(StepsOf[CheckOf(u)])
  <2> DEFINE r == [rn[u] EXCEPT !.step = @ + 1, !.sub = "call", !.polls = 0]
  <2>1. Proceed(u) = r
    BY <1>2 DEF Proceed
  <2>2. 0 \in 0..(MaxPolls - 1)
    BY RunAssumption
  <2>3. Stays(rn[u], r) /\ r.step = rn[u].step + 1
    BY <1>1 DEF RunState, Stays, SameFlags
  <2>6. rn[u].step + 1 \in Nat
    BY <1>1 DEF RunState
  <2>7. r \in RunState
    BY <1>1, <2>2, <2>6 DEF RunState
  <2>4. rn[u].step + 1 \in 1..Len(StepsOf[CheckOf(u)])
    BY <1>1, <1>2
  <2> HIDE DEF r
  <2>5. Placed(r)
    BY <1>1, <2>3, <2>4, <2>7 DEF Placed, Stays
  <2> QED BY <2>1, <2>3, <2>5
<1>3. CASE ~(rn[u].step < Len(StepsOf[CheckOf(u)]))
  <2>1. Proceed(u) = Conclude(u, "ok")
    BY <1>3 DEF Proceed
  <2>2. Settles(rn[u], Conclude(u, "ok"), "ok")
    BY <1>1, ConcludeFacts DEF Settles
  <2> QED BY <2>1, <2>2, ConcludeFacts
<1> QED BY <1>2, <1>3

LEMMA FailFacts ==
  ASSUME NEW u \in Run, Placed(rn[u]), Checking(u), rn \in [Run -> RunState], Fail(u)
  PROVE  /\ rn' = [rn EXCEPT ![u] = rn'[u]]
         /\ Placed(rn'[u]) /\ Settles(rn[u], rn'[u], "failed")
<1> DEFINE c == Conclude(u, "failed")
           r == [c EXCEPT !.status    = FALSE,
                          !.storageOk = @ /\ CheckOf(u) \notin {"storageClass", "snapshotClass"},
                          !.skipClass = @ \/ CheckOf(u) = "storageClass"]
<1>1. rn' = [rn EXCEPT ![u] = r] /\ rn'[u] = r
  BY DEF Fail
<1>2. /\ Placed(c) /\ c.k = rn[u].k + 1 /\ SameFlags(rn[u], c)
      /\ c.outcome = [rn[u].outcome EXCEPT ![CheckOf(u)] = "failed"]
      /\ c.status = rn[u].status /\ c.storageOk = rn[u].storageOk
      /\ c.skipClass = rn[u].skipClass
  BY ConcludeFacts
<1>3. rn[u] \in RunState /\ CheckOf(u) = CheckOrder[rn[u].k]
  BY CheckingFacts
<1> HIDE DEF c
<1>4. c \in RunState
  BY <1>2 DEF Placed
<1>5. /\ r.k = c.k /\ r.step = c.step /\ r.outcome = c.outcome /\ SameFlags(c, r)
      /\ r.status = FALSE
      /\ r.storageOk = (c.storageOk /\ CheckOf(u) \notin {"storageClass", "snapshotClass"})
      /\ r.skipClass = (c.skipClass \/ CheckOf(u) = "storageClass")
  BY <1>4 DEF RunState, SameFlags
<1>6. /\ (c.storageOk /\ CheckOf(u) \notin {"storageClass", "snapshotClass"}) \in BOOLEAN
      /\ (c.skipClass \/ CheckOf(u) = "storageClass") \in BOOLEAN
  OBVIOUS
<1>7. r \in RunState
  BY <1>4, <1>6 DEF RunState
<1> HIDE DEF r
<1>8. Placed(r)
  BY <1>2, <1>5, <1>7 DEF Placed
<1>9. Settles(rn[u], r, "failed")
  <2>1. r.k = rn[u].k + 1 /\ SameFlags(rn[u], r)
    BY <1>2, <1>5 DEF SameFlags
  <2> QED BY <1>2, <1>3, <1>5, <2>1 DEF Settles
<1> QED BY <1>1, <1>8, <1>9

LEMMA AdvanceFacts ==
  ASSUME NEW u \in Run, Placed(rn[u]), Checking(u), rn \in [Run -> RunState], Advance(u)
  PROVE  /\ rn' = [rn EXCEPT ![u] = rn'[u]]
         /\ Placed(rn'[u])
         /\ Stays(rn[u], rn'[u]) \/ Settles(rn[u], rn'[u], "ok")
<1>1. rn' = [rn EXCEPT ![u] = Proceed(u)] /\ rn'[u] = Proceed(u)
  BY DEF Advance
<1> QED BY <1>1, ProceedFacts

(* A step within a check changes no more than sub, polls or fin.            *)
LEMMA WithinFacts ==
  ASSUME NEW u \in Run, Placed(rn[u]), rn \in [Run -> RunState],
         NEW sub \in {"call", "get", "patch"}, NEW polls \in 0..(MaxPolls - 1),
         rn' = [rn EXCEPT ![u] = [rn[u] EXCEPT !.sub = sub, !.polls = polls]]
  PROVE  rn' = [rn EXCEPT ![u] = rn'[u]] /\ Placed(rn'[u]) /\ Stays(rn[u], rn'[u])
<1> DEFINE r == [rn[u] EXCEPT !.sub = sub, !.polls = polls]
<1>0. rn[u] \in RunState
  OBVIOUS
<1>1. rn'[u] = r /\ rn' = [rn EXCEPT ![u] = r]
  OBVIOUS
<1>2. Stays(rn[u], r) /\ r.step = rn[u].step
  BY <1>0 DEF RunState, Stays, SameFlags
<1>3. r \in RunState
  BY <1>0 DEF RunState
<1> HIDE DEF r
<1>4. Placed(r)
  BY <1>2, <1>3 DEF Placed, Stays
<1> QED BY <1>1, <1>2, <1>4

(* What a step of a run may do to its record.                               *)
Decides(r, s) ==
  /\ r.k = 12 /\ s.k \in {13, 14} /\ (s.k = 13 <=> r.status \/ r.cleanFail)
  /\ s = [r EXCEPT !.verdict = IF r.status THEN "passed" ELSE "failed", !.k = s.k]

Returns(r, s) == r.k = 13 /\ s = [r EXCEPT !.k = 14]

CourseStep(u) ==
  /\ rn' = [rn EXCEPT ![u] = rn'[u]]
  /\ Placed(rn'[u])
  /\ \/ Stays(rn[u], rn'[u])
     \/ \E res \in {"ok", "failed", "skipped"} :
          Checking(u) /\ Settles(rn[u], rn'[u], res) /\ (res = "skipped" <=> Skips(u))
     \/ Decides(rn[u], rn'[u])
     \/ Returns(rn[u], rn'[u])

LEMMA StillCourse ==
  ASSUME NEW u \in Run, Placed(rn[u]), rn \in [Run -> RunState], rn' = rn
  PROVE  CourseStep(u)
<1>1. rn' = [rn EXCEPT ![u] = rn'[u]] /\ Stays(rn[u], rn'[u])
  BY DEF Stays, SameFlags
<1> QED BY <1>1 DEF CourseStep, Placed

(* A check that goes on, succeeds or fails is not one that is left out.     *)
LEMMA WorkedCourse ==
  ASSUME NEW u \in Run, Placed(rn[u]), rn \in [Run -> RunState], Checking(u), ~Skips(u),
         Advance(u) \/ Fail(u)
  PROVE  CourseStep(u)
<1>1. CASE Advance(u)
  BY <1>1, AdvanceFacts DEF CourseStep
<1>2. CASE Fail(u)
  BY <1>2, FailFacts DEF CourseStep
<1> QED BY <1>1, <1>2

LEMMA RunSteps ==
  ASSUME ClusterTypeOK, NEW u \in Run, Placed(rn[u]), rn \in [Run -> RunState], RunNext(u)
  PROVE  CourseStep(u)
<1> USE DEF At
<1>0. rn[u] \in RunState
  OBVIOUS
<1>1. CASE SkipCheck(u)
  <2>1. Checking(u) /\ Skips(u) /\ rn' = [rn EXCEPT ![u] = Conclude(u, "skipped")]
    BY <1>1 DEF SkipCheck
  <2>2. rn'[u] = Conclude(u, "skipped") /\ rn' = [rn EXCEPT ![u] = rn'[u]]
    BY <2>1
  <2>3. Placed(rn'[u])
    BY <2>1, <2>2, ConcludeFacts
  <2>4. Settles(rn[u], rn'[u], "skipped")
    <3>1. CheckOf(u) = CheckOrder[rn[u].k]
      BY DEF CheckOf
    <3> QED BY <2>1, <2>2, <3>1, ConcludeFacts DEF Settles
  <2> QED BY <2>1, <2>2, <2>3, <2>4 DEF CourseStep
<1>2. CASE ProbePasses(u) \/ CallFails(u) \/ EndSetup(u)
  BY <1>2, WorkedCourse DEF ProbePasses, CallFails, EndSetup
<1>3. CASE BeginSetup(u) \/ (SetupNext(u) /\ UNCHANGED <<cl, runVars>>)
  BY <1>3, StillCourse DEF BeginSetup, runVars
<1>4. CASE Create(u) \/ CreateAnswerLost(u) \/ ObjectMissing(u)
  BY <1>4, WorkedCourse DEF Create, CreateAnswerLost, ObjectMissing
<1>5. CASE PollReady(u) \/ Exec(u) \/ DeletePatch(u) \/ DeleteFails(u) \/ DeletionAnswerLost(u)
  BY <1>5, WorkedCourse DEF PollReady, Exec, DeletePatch, DeleteFails, DeletionAnswerLost
<1>6. CASE PollAgain(u)
  <2>1. Checking(u) /\ ~Skips(u)
    BY <1>6 DEF PollAgain
  <2>2. CASE rn[u].polls + 1 < MaxPolls
    <3>1. rn[u].polls + 1 \in 0..(MaxPolls - 1)
      BY <1>0, <2>2, RunAssumption DEF RunState
    <3>2. rn' = [rn EXCEPT ![u].polls = @ + 1]
      BY <1>6, <2>2 DEF PollAgain
    <3>3. [rn[u] EXCEPT !.polls = @ + 1] = [rn[u] EXCEPT !.sub = rn[u].sub, !.polls = rn[u].polls + 1]
      BY <1>0 DEF RunState
    <3>4. rn' = [rn EXCEPT ![u] = [rn[u] EXCEPT !.sub = rn[u].sub, !.polls = rn[u].polls + 1]]
      BY <3>2, <3>3
    <3>5. rn[u].sub \in {"call", "get", "patch"}
      BY <1>0 DEF RunState
    <3> QED BY <3>1, <3>4, <3>5, WithinFacts DEF CourseStep
  <2>3. CASE ~(rn[u].polls + 1 < MaxPolls)
    BY <1>6, <2>1, <2>3, WorkedCourse DEF PollAgain
  <2> QED BY <2>2, <2>3
<1>7. CASE Fetch(u)
  <2>1. Checking(u) /\ ~Skips(u) /\ StepOf(u).op \in ObjectOp
    BY <1>7 DEF Fetch, ObjectOp
  <2>2. obj[Target(u)].fin \in BOOLEAN
    BY <2>1, AtObject DEF ClusterTypeOK, ObjState
  <2> DEFINE r == [Proceed(u) EXCEPT !.fin = obj[Target(u)].fin]
  <2>3. rn' = [rn EXCEPT ![u] = r] /\ rn'[u] = r
    BY <1>7 DEF Fetch
  <2>4. Placed(Proceed(u)) /\ (Stays(rn[u], Proceed(u)) \/ Settles(rn[u], Proceed(u), "ok"))
    BY <2>1, ProceedFacts
  <2>5. Proceed(u) \in RunState
    BY <2>4 DEF Placed
  <2>6. /\ r \in RunState /\ r.k = Proceed(u).k /\ r.step = Proceed(u).step
        /\ r.outcome = Proceed(u).outcome /\ SameFlags(Proceed(u), r)
        /\ r.status = Proceed(u).status /\ r.storageOk = Proceed(u).storageOk
        /\ r.skipClass = Proceed(u).skipClass
    BY <2>2, <2>5 DEF RunState, SameFlags
  <2> HIDE DEF r
  <2>7. Placed(r)
    BY <2>4, <2>6 DEF Placed
  <2>8. Stays(rn[u], r) \/ Settles(rn[u], r, "ok")
    BY <2>4, <2>6 DEF Stays, Settles, SameFlags
  <2> QED BY <2>1, <2>3, <2>7, <2>8 DEF CourseStep
<1>8. CASE Delete(u) \/ DeleteGet(u)
  <2>1. Checking(u) /\ ~Skips(u)
    BY <1>8 DEF Delete, DeleteGet
  <2>2. CASE Advance(u)
    BY <2>1, <2>2, WorkedCourse
  <2>3. ASSUME NEW sub \in {"get", "patch"}, rn' = [rn EXCEPT ![u].sub = sub] PROVE CourseStep(u)
    <3>1. rn[u].polls \in 0..(MaxPolls - 1)
      BY <1>0 DEF RunState
    <3>2. [rn[u] EXCEPT !.sub = sub] = [rn[u] EXCEPT !.sub = sub, !.polls = rn[u].polls]
      BY <1>0 DEF RunState
    <3>3. rn' = [rn EXCEPT ![u] = [rn[u] EXCEPT !.sub = sub, !.polls = rn[u].polls]]
      BY <2>3, <3>2
    <3> QED BY <3>1, <3>3, WithinFacts DEF CourseStep
  <2>4. Advance(u) \/ rn' = [rn EXCEPT ![u].sub = "get"] \/ rn' = [rn EXCEPT ![u].sub = "patch"]
    BY <1>8 DEF Delete, DeleteGet
  <2> QED BY <2>2, <2>3, <2>4
<1>9. CASE Decide(u)
  <2> DEFINE k == IF rn[u].status \/ rn[u].cleanFail THEN Cleaning ELSE Returned
             verdict == IF rn[u].status THEN "passed" ELSE "failed"
             r == [rn[u] EXCEPT !.verdict = verdict, !.k = k]
  <2>0. rn[u].k = 12 /\ rn' = [rn EXCEPT ![u].verdict = verdict, ![u].k = k]
    BY <1>9, ElevenChecks DEF Decide, Deciding
  <2>2. k \in {13, 14} /\ (k = 13 <=> rn[u].status \/ rn[u].cleanFail) /\ k \in 0..(NChecks + 3)
    BY ElevenChecks DEF Cleaning, Returned
  <2>3. verdict \in {"none", "passed", "failed"}
    OBVIOUS
  <2> HIDE DEF k, verdict
  <2>1. rn' = [rn EXCEPT ![u] = r] /\ rn[u].k = 12
    BY <1>0, <2>0 DEF RunState
  <2>4. r \in RunState /\ r.k = k
    BY <1>0, <2>2, <2>3 DEF RunState
  <2>5. Placed(r)
    BY <2>2, <2>4 DEF Placed
  <2>6. Decides(rn[u], r)
    BY <2>1, <2>2, <2>4 DEF Decides, verdict
  <2> HIDE DEF r
  <2> QED BY <2>1, <2>5, <2>6 DEF CourseStep
<1>10. CASE Return(u)
  <2> DEFINE r == [rn[u] EXCEPT !.k = 14]
  <2>1. rn' = [rn EXCEPT ![u] = r] /\ rn[u].k = 13
    BY <1>10, ElevenChecks DEF Return, Cleaning, Returned
  <2>2. r \in RunState /\ r.k = 14
    BY <1>0, ElevenChecks DEF RunState
  <2>3. Placed(r) /\ Returns(rn[u], r)
    BY <2>1, <2>2 DEF Placed, Returns
  <2> HIDE DEF r
  <2> QED BY <2>1, <2>3 DEF CourseStep
<1> HIDE DEF At
<1> QED BY <1>1, <1>2, <1>3, <1>4, <1>5, <1>6, <1>7, <1>8, <1>9, <1>10 DEF RunNext
-----------------------------------------------------------------------------
(***************************************************************************)
(* What the record of a run says at any time: which checks are settled, and *)
(* that the flags the run carries along are what the outcomes make of them. *)
(***************************************************************************)

OrderlyOK(r) == \A i \in 1..11 : r.outcome[CheckOrder[i]] = "todo" <=> i >= r.k

StatusOK(r) == r.status <=> \A check \in Check : r.outcome[check] # "failed"

VerdictOK(r) ==
  /\ r.verdict = "none" <=> r.k <= 12
  /\ r.verdict = "failed" => ~r.status

ToolsOK(r) ==
  /\ r.k > 1 => (r.outcome["kubectl"] = "skipped" <=> r.inCluster)
  /\ r.outcome["kubectl"] = "skipped" \/ r.outcome["helm"] = "skipped" => r.inCluster

StorageOK(r) ==
  /\ r.outcome["storageClass"] # "skipped"
  /\ r.skipClass <=> r.outcome["storageClass"] = "failed"
  /\ r.storageOk <=> /\ r.outcome["storageClass"] \in {"todo", "ok"}
                     /\ r.outcome["snapshotClass"] \in {"todo", "ok"}

FlowOK(r) == OrderlyOK(r) /\ StatusOK(r) /\ VerdictOK(r) /\ ToolsOK(r) /\ StorageOK(r)

LEMMA NamedChecks ==
  ASSUME NEW r, OrderlyOK(r)
  PROVE  /\ r.outcome["kubectl"] = "todo" <=> 1 >= r.k
         /\ r.outcome["helm"] = "todo" <=> 3 >= r.k
         /\ r.outcome["storageClass"] = "todo" <=> 7 >= r.k
         /\ r.outcome["snapshotClass"] = "todo" <=> 9 >= r.k
<1>1. /\ CheckOrder[1] = "kubectl" /\ CheckOrder[3] = "helm"
      /\ CheckOrder[7] = "storageClass" /\ CheckOrder[9] = "snapshotClass"
  BY Positions
<1>2. /\ 1 \in 1..11 /\ 3 \in 1..11 /\ 7 \in 1..11 /\ 9 \in 1..11
  OBVIOUS
<1>3. /\ r.outcome[CheckOrder[1]] = "todo" <=> 1 >= r.k
      /\ r.outcome[CheckOrder[3]] = "todo" <=> 3 >= r.k
      /\ r.outcome[CheckOrder[7]] = "todo" <=> 7 >= r.k
      /\ r.outcome[CheckOrder[9]] = "todo" <=> 9 >= r.k
  BY <1>2 DEF OrderlyOK
<1> QED BY <1>1, <1>3

(* A run that has just been started, or not yet.                            *)
LEMMA FreshFlow ==
  ASSUME NEW r, r.outcome = [check \in Check |-> "todo"], r.k \in {0, 1}, r.verdict = "none",
         r.status = TRUE, r.storageOk = TRUE, r.skipClass = FALSE
  PROVE  FlowOK(r)
<1>1. \A i \in 1..11 : CheckOrder[i] \in Check
  BY ElevenChecks
<1>2. OrderlyOK(r)
  BY <1>1 DEF OrderlyOK
<1>3. "kubectl" \in Check /\ "helm" \in Check /\ "storageClass" \in Check /\ "snapshotClass" \in Check
  BY ElevenChecks
<1> QED BY <1>2, <1>3 DEF FlowOK, StatusOK, VerdictOK, ToolsOK, StorageOK

(* The end of a check: the flags stay what the outcomes make of them.       *)
LEMMA SettleFlow ==
  ASSUME NEW u \in Run, Placed(rn[u]), FlowOK(rn[u]), Checking(u), Placed(rn'[u]),
         NEW res \in {"ok", "failed", "skipped"}, Settles(rn[u], rn'[u], res),
         res = "skipped" <=> Skips(u)
  PROVE  FlowOK(rn'[u])
<1> DEFINE r == rn[u]  s == rn'[u]  c == CheckOrder[r.k]
<1>1. /\ r.k \in 1..11 /\ c \in Check /\ r \in RunState /\ c = CheckOf(u)
      /\ r.outcome \in [Check -> {"todo", "ok", "failed", "skipped"}]
  BY CheckingFacts
<1>2. /\ s.k = r.k + 1 /\ s.verdict = r.verdict /\ s.inCluster = r.inCluster
      /\ s.outcome = [r.outcome EXCEPT ![c] = res]
      /\ s.status <=> r.status /\ res # "failed"
      /\ s.storageOk <=> r.storageOk /\ (res = "failed" => c \notin {"storageClass", "snapshotClass"})
      /\ s.skipClass <=> r.skipClass \/ (res = "failed" /\ c = "storageClass")
  BY DEF Settles, SameFlags
<1>3. s.outcome[c] = res /\ \A check \in Check \ {c} : s.outcome[check] = r.outcome[check]
  BY <1>1, <1>2
<1>4. /\ c = "kubectl" <=> r.k = 1
      /\ c = "helm" <=> r.k = 3
      /\ c = "storageClass" <=> r.k = 7
      /\ c = "snapshotClass" <=> r.k = 9
      /\ \A i \in 1..11 : CheckOrder[i] = c => i = r.k
  BY <1>1, Positions
<1>5. /\ "kubectl" \in Check /\ "helm" \in Check /\ "storageClass" \in Check /\ "snapshotClass" \in Check
      /\ \A i \in 1..11 : CheckOrder[i] \in Check
  BY ElevenChecks
<1>6. /\ c \in {"kubectl", "helm"} => (res = "skipped" <=> r.inCluster)
      /\ c = "snapshotClass" => (res = "skipped" <=> r.skipClass)
      /\ c = "storageClass" => res # "skipped"
  BY <1>1 DEF Skips
<1>n. /\ r.outcome["kubectl"] = "todo" <=> 1 >= r.k
      /\ r.outcome["storageClass"] = "todo" <=> 7 >= r.k
      /\ r.outcome["snapshotClass"] = "todo" <=> 9 >= r.k
  BY NamedChecks DEF FlowOK
<1>7. OrderlyOK(r) /\ StatusOK(r) /\ VerdictOK(r) /\ ToolsOK(r) /\ StorageOK(r)
  BY DEF FlowOK
<1> HIDE DEF r, s, c
<1>8. OrderlyOK(s)
  <2> SUFFICES ASSUME NEW i \in 1..11 PROVE s.outcome[CheckOrder[i]] = "todo" <=> i >= s.k
    BY DEF OrderlyOK
  <2>1. CASE i = r.k
    BY <1>1, <1>2, <1>3, <2>1 DEF c
  <2>2. CASE i # r.k
    <3>1. CheckOrder[i] # c /\ CheckOrder[i] \in Check
      BY <1>4, <1>5, <2>2
    <3>2. s.outcome[CheckOrder[i]] = r.outcome[CheckOrder[i]]
      BY <1>3, <3>1
    <3> QED BY <1>1, <1>2, <1>7, <2>2, <3>2 DEF OrderlyOK
  <2> QED BY <2>1, <2>2
<1>9. StatusOK(s)
  BY <1>1, <1>2, <1>3, <1>7, <1>n DEF StatusOK, OrderlyOK, c
<1>10. VerdictOK(s)
  BY <1>1, <1>2, <1>7 DEF VerdictOK
<1>11. ToolsOK(s)
  <2>1. CASE r.k = 1
    BY <1>2, <1>3, <1>4, <1>5, <1>6, <1>7, <2>1 DEF ToolsOK
  <2>2. CASE r.k = 3
    BY <1>2, <1>3, <1>4, <1>5, <1>6, <1>7, <2>2 DEF ToolsOK
  <2>3. CASE r.k # 1 /\ r.k # 3
    BY <1>1, <1>2, <1>3, <1>4, <1>5, <1>7, <2>3 DEF ToolsOK
  <2> QED BY <2>1, <2>2, <2>3
<1>12. StorageOK(s)
  <2>1. CASE r.k = 7
    BY <1>2, <1>3, <1>4, <1>5, <1>6, <1>7, <1>n, <2>1 DEF StorageOK
  <2>2. CASE r.k = 9
    <3>1. /\ s.outcome["snapshotClass"] = res /\ s.outcome["storageClass"] = r.outcome["storageClass"]
          /\ c = "snapshotClass"
      BY <1>3, <1>4, <1>5, <2>2
    <3>2. r.outcome["storageClass"] # "todo" /\ r.outcome["snapshotClass"] = "todo"
      BY <1>n, <2>2
    <3> QED BY <1>1, <1>2, <1>6, <1>7, <3>1, <3>2 DEF StorageOK
  <2>3. CASE r.k # 7 /\ r.k # 9
    BY <1>1, <1>2, <1>3, <1>4, <1>5, <1>7, <2>3 DEF StorageOK
  <2> QED BY <2>1, <2>2, <2>3
<1>13. FlowOK(s)
  BY <1>8, <1>9, <1>10, <1>11, <1>12 DEF FlowOK
<1> QED BY <1>13 DEF s

LEMMA CourseFlow ==
  ASSUME NEW u \in Run, Placed(rn[u]), FlowOK(rn[u]), CourseStep(u)
  PROVE  FlowOK(rn'[u])
<1>0. rn[u] \in RunState /\ Placed(rn'[u])
  BY DEF Placed, CourseStep
<1>1. CASE Stays(rn[u], rn'[u])
  BY <1>1 DEF Stays, SameFlags, FlowOK, OrderlyOK, StatusOK, VerdictOK, ToolsOK, StorageOK
<1>2. CASE \E res \in {"ok", "failed", "skipped"} :
             Checking(u) /\ Settles(rn[u], rn'[u], res) /\ (res = "skipped" <=> Skips(u))
  BY <1>0, <1>2, SettleFlow
<1> DEFINE s == rn'[u]
<1>3. CASE Decides(rn[u], rn'[u])
  <2>1. /\ s.outcome = rn[u].outcome /\ s.status = rn[u].status /\ s.storageOk = rn[u].storageOk
        /\ s.skipClass = rn[u].skipClass /\ s.inCluster = rn[u].inCluster
        /\ s.verdict = (IF rn[u].status THEN "passed" ELSE "failed")
        /\ s.k \in {13, 14} /\ rn[u].k = 12
    BY <1>0, <1>3 DEF Decides, RunState
  <2> HIDE DEF s
  <2>2. FlowOK(s)
    <3>1. OrderlyOK(s)
      BY <2>1 DEF FlowOK, OrderlyOK
    <3>2. VerdictOK(s)
      BY <2>1 DEF VerdictOK
    <3>3. StatusOK(s) /\ ToolsOK(s) /\ StorageOK(s)
      BY <2>1 DEF FlowOK, StatusOK, ToolsOK, StorageOK
    <3> QED BY <3>1, <3>2, <3>3 DEF FlowOK
  <2> QED BY <2>2 DEF s
<1>4. CASE Returns(rn[u], rn'[u])
  <2>1. /\ s.outcome = rn[u].outcome /\ s.status = rn[u].status /\ s.storageOk = rn[u].storageOk
        /\ s.skipClass = rn[u].skipClass /\ s.inCluster = rn[u].inCluster
        /\ s.verdict = rn[u].verdict /\ s.k = 14 /\ rn[u].k = 13
    BY <1>0, <1>4 DEF Returns, RunState
  <2> HIDE DEF s
  <2>2. FlowOK(s)
    <3>1. OrderlyOK(s)
      BY <2>1 DEF FlowOK, OrderlyOK
    <3>2. VerdictOK(s)
      BY <2>1 DEF FlowOK, VerdictOK
    <3>3. StatusOK(s) /\ ToolsOK(s) /\ StorageOK(s)
      BY <2>1 DEF FlowOK, StatusOK, ToolsOK, StorageOK
    <3> QED BY <3>1, <3>2, <3>3 DEF FlowOK
  <2> QED BY <2>2 DEF s
<1> QED BY <1>1, <1>2, <1>3, <1>4 DEF CourseStep
-----------------------------------------------------------------------------
(***************************************************************************)
(* Every step of a run is a step of the contract, or none.                  *)
(***************************************************************************)

Outcomes == [v \in Run |-> rn[v].outcome]
Verdicts == [v \in Run |-> rn[v].verdict]

LEMMA SameChecks == Contract!CheckOrder = CheckOrder /\ Contract!Check = Check
<1>1. Contract!CheckOrder = CheckOrder
  BY DEF CheckOrder, Contract!CheckOrder
<1>2. NChecks = Len(CheckOrder)
  BY DEF NChecks
<1> HIDE DEF CheckOrder, Contract!CheckOrder
<1> QED BY <1>1, <1>2 DEF Check, Contract!Check

(* A check that comes to an end is settled as the contract allows.          *)
LEMMA SettleKeeps ==
  ASSUME NEW u \in Run, rn \in [Run -> RunState], Placed(rn[u]), FlowOK(rn[u]), Checking(u),
         rn' = [rn EXCEPT ![u] = rn'[u]],
         NEW res \in {"ok", "failed", "skipped"}, Settles(rn[u], rn'[u], res),
         res = "skipped" <=> Skips(u)
  PROVE  Contract!Next
<1> DEFINE k == rn[u].k  c == CheckOrder[k]
<1>1. /\ k \in 1..11 /\ c \in Check /\ c = CheckOf(u)
      /\ rn[u].outcome \in [Check -> {"todo", "ok", "failed", "skipped"}]
  BY CheckingFacts
<1>2. rn'[u].outcome = [rn[u].outcome EXCEPT ![c] = res] /\ rn'[u].verdict = rn[u].verdict
  BY DEF Settles, SameFlags
<1>3. Outcomes' = [Outcomes EXCEPT ![u][c] = res] /\ Verdicts' = Verdicts
  BY <1>2 DEF Outcomes, Verdicts
<1>4. OrderlyOK(rn[u]) /\ ToolsOK(rn[u]) /\ StorageOK(rn[u])
  BY DEF FlowOK
<1>5. \A i \in 1..11 : Outcomes[u][CheckOrder[i]] = "todo" <=> i >= k
  BY <1>4 DEF OrderlyOK, Outcomes
<1>6. /\ c = "kubectl" <=> k = 1
      /\ c = "helm" <=> k = 3
      /\ c = "snapshotClass" <=> k = 9
      /\ c = "volumeSnapshot" <=> k = 11
  BY <1>1, Positions
<1>n. /\ rn[u].outcome["storageClass"] = "todo" <=> 7 >= k
      /\ rn[u].outcome["snapshotClass"] = "todo" <=> 9 >= k
  BY <1>4, NamedChecks
<1>t. /\ "storageClass" \in Check /\ "snapshotClass" \in Check /\ "kubectl" \in Check
      /\ rn[u].outcome["storageClass"] \in {"todo", "ok", "failed", "skipped"}
      /\ rn[u].outcome["snapshotClass"] \in {"todo", "ok", "failed", "skipped"}
  BY <1>1, ElevenChecks
<1>7. Contract!Allowed(u, c, res)
  <2>1. CASE c \in {"kubectl", "helm"}
    <3>1. res = "skipped" <=> rn[u].inCluster
      BY <1>1, <2>1 DEF Skips
    <3>2. c = "helm" => (Outcomes[u]["kubectl"] = "skipped" <=> rn[u].inCluster)
      BY <1>4, <1>6 DEF ToolsOK, Outcomes
    <3>3. c = "helm" => (res = "skipped" <=> Outcomes[u]["kubectl"] = "skipped")
      BY <3>1, <3>2
    <3> QED BY <2>1, <3>3 DEF Contract!Allowed, Contract!ToolCheck, Outcomes
  <2>2. CASE c = "snapshotClass"
    <3>1. res = "skipped" <=> rn[u].outcome["storageClass"] # "ok"
      BY <1>1, <1>4, <1>6, <1>n, <1>t, <2>2 DEF Skips, StorageOK
    <3> QED BY <2>2, <3>1 DEF Contract!Allowed, Contract!ToolCheck, Contract!Needs, Outcomes
  <2>3. CASE c = "volumeSnapshot"
    <3>1. res = "skipped" <=> \/ rn[u].outcome["storageClass"] # "ok"
                             \/ rn[u].outcome["snapshotClass"] # "ok"
      BY <1>1, <1>4, <1>6, <1>n, <1>t, <2>3 DEF Skips, StorageOK
    <3> QED BY <2>3, <3>1 DEF Contract!Allowed, Contract!ToolCheck, Contract!Needs, Outcomes
  <2>4. CASE c \notin {"kubectl", "helm", "snapshotClass", "volumeSnapshot"}
    <3>1. res # "skipped"
      BY <1>1, <2>4 DEF Skips
    <3> QED BY <2>4, <3>1 DEF Contract!Allowed, Contract!ToolCheck, Contract!Needs, Outcomes
  <2> QED BY <2>1, <2>2, <2>3, <2>4
<1>8. Contract!Settle(u, k, res)
  <2>1. Outcomes[u][c] = "todo"
    BY <1>1, <1>5
  <2>2. \A j \in 1..(k - 1) : Outcomes[u][CheckOrder[j]] # "todo"
    BY <1>1, <1>5
  <2> HIDE DEF k, c
  <2> QED BY <1>3, <1>7, <2>1, <2>2, SameChecks
       DEF Contract!Settle, Contract!Settled, Contract!InOrder, Outcomes, Verdicts, c
<1>9. Len(Contract!CheckOrder) = 11 /\ res \in Contract!Outcome \ {"todo"}
  BY SameChecks, ElevenChecks DEF NChecks, Contract!Outcome
<1> QED BY <1>1, <1>8, <1>9 DEF Contract!Next

LEMMA DecideKeeps ==
  ASSUME NEW u \in Run, rn \in [Run -> RunState], FlowOK(rn[u]), Decides(rn[u], rn'[u]),
         rn' = [rn EXCEPT ![u] = rn'[u]]
  PROVE  Contract!Next
<1> DEFINE verdict == IF rn[u].status THEN "passed" ELSE "failed"
<1>0. rn[u] \in RunState
  OBVIOUS
<1>1. rn'[u].outcome = rn[u].outcome /\ rn'[u].verdict = verdict /\ rn[u].k = 12
  BY <1>0 DEF Decides, RunState
<1>2. Outcomes' = Outcomes /\ Verdicts' = [Verdicts EXCEPT ![u] = verdict]
  BY <1>1 DEF Outcomes, Verdicts
<1>3. \A check \in Check : rn[u].outcome[check] # "todo"
  <2>1. \A check \in Check : \E i \in 1..11 : check = CheckOrder[i]
    BY ElevenChecks DEF Check, NChecks
  <2>2. OrderlyOK(rn[u])
    BY DEF FlowOK
  <2> QED BY <1>1, <2>1, <2>2 DEF OrderlyOK
<1>4. rn[u].status <=> \A check \in Check : rn[u].outcome[check] # "failed"
  BY DEF FlowOK, StatusOK
<1>5. verdict = IF \E check \in Check : Outcomes[u][check] = "failed" THEN "failed" ELSE "passed"
  BY <1>4 DEF Outcomes
<1>6. Verdicts[u] = "none"
  BY <1>1 DEF FlowOK, VerdictOK, Verdicts
<1> HIDE DEF verdict
<1>7. Contract!Decide(u)
  BY <1>2, <1>3, <1>5, <1>6, SameChecks DEF Contract!Decide, Contract!Settled, Outcomes, Verdicts
<1> QED BY <1>7 DEF Contract!Next

LEMMA CourseKeeps ==
  ASSUME NEW u \in Run, rn \in [Run -> RunState], Placed(rn[u]), FlowOK(rn[u]), CourseStep(u)
  PROVE  Contract!Next \/ UNCHANGED <<Outcomes, Verdicts>>
<1>0. rn' = [rn EXCEPT ![u] = rn'[u]] /\ rn[u] \in RunState
  BY DEF CourseStep
<1>1. ASSUME rn'[u].outcome = rn[u].outcome, rn'[u].verdict = rn[u].verdict
      PROVE  UNCHANGED <<Outcomes, Verdicts>>
  BY <1>0, <1>1 DEF Outcomes, Verdicts
<1>2. CASE Stays(rn[u], rn'[u])
  BY <1>1, <1>2 DEF Stays, SameFlags
<1>3. CASE \E res \in {"ok", "failed", "skipped"} :
             Checking(u) /\ Settles(rn[u], rn'[u], res) /\ (res = "skipped" <=> Skips(u))
  BY <1>0, <1>3, SettleKeeps
<1>4. CASE Decides(rn[u], rn'[u])
  BY <1>0, <1>4, DecideKeeps
<1>5. CASE Returns(rn[u], rn'[u])
  BY <1>0, <1>1, <1>5 DEF Returns, RunState
<1> QED BY <1>2, <1>3, <1>4, <1>5 DEF CourseStep
-----------------------------------------------------------------------------
(***************************************************************************)
(* What the steps of cleaners, controllers and runs do to the objects.      *)
(***************************************************************************)

(* No object comes to be, and none comes back to life.                      *)
Ages ==
  \A o \in Object : /\ obj'[o].phase = "absent" <=> obj[o].phase = "absent"
                    /\ obj[o].phase # "live" => obj'[o].phase # "live"

(* The live objects that a step marks for deletion or removes.              *)
Killed == {o \in Object : obj[o].phase = "live" /\ obj'[o].phase # "live"}

LEMMA FaultCount ==
  ASSUME ClusterTypeOK, faults' = faults \/ Fault
  PROVE  faults' \in 0..MaxFaults
BY ClusterAssumption DEF ClusterTypeOK, Fault

LEMMA SameObjects == obj' = obj => Ages /\ Killed = {}
BY DEF Ages, Killed

LEMMA DeletedFacts ==
  ASSUME ClusterTypeOK, NEW x \in Object, Present(x), obj' = Deleted(x)
  PROVE  obj' \in [Object -> ObjState] /\ Ages /\ Killed \subseteq {x}
         /\ obj'[x].phase \in {"dying", "gone"}
<1>1. obj \in [Object -> ObjState] /\ Gone \in ObjState
  BY DEF ClusterTypeOK, Gone, ObjState, Phase
<1>2. CASE obj' = [obj EXCEPT ![x].phase = "dying"]
  <2>1. obj' \in [Object -> ObjState]
    BY <1>1, <1>2 DEF ObjState, Phase
  <2>2. obj'[x].phase = "dying" /\ \A o \in Object \ {x} : obj'[o] = obj[o]
    BY <1>1, <1>2 DEF ObjState
  <2> QED BY <2>1, <2>2 DEF Ages, Killed, Present
<1>3. CASE obj' = [obj EXCEPT ![x] = Gone]
  <2>1. obj'[x].phase = "gone" /\ \A o \in Object \ {x} : obj'[o] = obj[o]
    BY <1>1, <1>3 DEF Gone
  <2> QED BY <1>1, <1>3, <2>1 DEF Ages, Killed, Present
<1> QED BY <1>2, <1>3 DEF Deleted

LEMMA StrippedFacts ==
  ASSUME ClusterTypeOK, NEW x \in Object, Present(x), obj' = Stripped(x)
  PROVE  obj' \in [Object -> ObjState] /\ Ages /\ Killed = {}
<1>1. obj \in [Object -> ObjState] /\ Gone \in ObjState
  BY DEF ClusterTypeOK, Gone, ObjState, Phase
<1>2. CASE obj' = [obj EXCEPT ![x].fin = FALSE]
  <2>1. obj' \in [Object -> ObjState]
    BY <1>1, <1>2 DEF ObjState
  <2>2. \A o \in Object : obj'[o].phase = obj[o].phase
    BY <1>1, <1>2 DEF ObjState
  <2> QED BY <2>1, <2>2 DEF Ages, Killed
<1>3. CASE obj' = [obj EXCEPT ![x] = Gone] /\ obj[x].phase = "dying"
  <2>1. obj'[x].phase = "gone" /\ \A o \in Object \ {x} : obj'[o] = obj[o]
    BY <1>1, <1>3 DEF Gone
  <2> QED BY <1>1, <1>3, <2>1 DEF Ages, Killed
<1> QED BY <1>2, <1>3 DEF Stripped

(* The controllers, the kubelets and the storage.                           *)
LEMMA ClusterSteps ==
  ASSUME ClusterTypeOK, RunTypeOK, NEW o \in Obj, ClusterStep(o)
  PROVE  /\ ClusterTypeOK' /\ Ages /\ Killed = {} /\ cutMounted' \subseteq Obj
         /\ UNCHANGED <<crds, cl, setupVars, rn>>
<1>1. o \in Object /\ obj \in [Object -> ObjState]
  BY DEF Object, ClusterTypeOK
<1>2. UNCHANGED <<crds, faults, cl, setupVars, rn>>
  BY DEF ClusterStep, PodBecomesReady, ControllerGuards, ControllerReleases, KubeletStops,
         SnapshotTaken, runVars, setupVars
<1>3. cutMounted' \subseteq Obj
  BY DEF ClusterStep, SnapshotTaken, runVars, RunTypeOK
<1>4. ASSUME NEW fin \in BOOLEAN, NEW ready \in BOOLEAN,
             obj' = [obj EXCEPT ![o] = [obj[o] EXCEPT !.fin = fin, !.ready = ready]]
      PROVE  obj' \in [Object -> ObjState] /\ Ages /\ Killed = {}
  <2>1. obj[o] \in ObjState
    BY <1>1
  <2>2. /\ [obj[o] EXCEPT !.fin = fin, !.ready = ready] \in ObjState
        /\ [obj[o] EXCEPT !.fin = fin, !.ready = ready].phase = obj[o].phase
    BY <2>1 DEF ObjState
  <2>3. obj' \in [Object -> ObjState]
    BY <1>1, <1>4, <2>2
  <2>4. \A p \in Object : obj'[p].phase = obj[p].phase
    BY <1>1, <1>4, <2>2
  <2> QED BY <2>3, <2>4 DEF Ages, Killed
<1>5. obj' \in [Object -> ObjState] /\ Ages /\ Killed = {}
  <2>1. CASE PodBecomesReady(o) \/ SnapshotTaken(o)
    <3>1. obj' = [obj EXCEPT ![o].ready = TRUE]
      BY <2>1 DEF PodBecomesReady, SnapshotTaken
    <3>2. obj[o] \in ObjState /\ obj[o].fin \in BOOLEAN
      BY <1>1 DEF ObjState
    <3>3. [obj[o] EXCEPT !.ready = TRUE] = [obj[o] EXCEPT !.fin = obj[o].fin, !.ready = TRUE]
      BY <3>2 DEF ObjState
    <3>4. obj' = [obj EXCEPT ![o] = [obj[o] EXCEPT !.fin = obj[o].fin, !.ready = TRUE]]
      BY <3>1, <3>3
    <3> QED BY <1>4, <3>2, <3>4
  <2>2. CASE ControllerGuards(o)
    <3>1. obj' = [obj EXCEPT ![o].fin = TRUE]
      BY <2>2 DEF ControllerGuards
    <3>2. obj[o] \in ObjState /\ obj[o].ready \in BOOLEAN
      BY <1>1 DEF ObjState
    <3>3. [obj[o] EXCEPT !.fin = TRUE] = [obj[o] EXCEPT !.fin = TRUE, !.ready = obj[o].ready]
      BY <3>2 DEF ObjState
    <3>4. obj' = [obj EXCEPT ![o] = [obj[o] EXCEPT !.fin = TRUE, !.ready = obj[o].ready]]
      BY <3>1, <3>3
    <3> QED BY <1>4, <3>2, <3>4
  <2>3. CASE ControllerReleases(o)
    BY <1>1, <2>3, StrippedFacts DEF ControllerReleases, Present
  <2>4. CASE KubeletStops(o)
    <3>1. obj' = [obj EXCEPT ![o] = Gone] /\ obj[o].phase = "dying"
      BY <2>4 DEF KubeletStops
    <3>2. obj'[o].phase = "gone" /\ \A p \in Object \ {o} : obj'[p] = obj[p]
      BY <1>1, <3>1 DEF Gone
    <3>3. Gone \in ObjState
      BY DEF Gone, ObjState, Phase
    <3> QED BY <1>1, <3>1, <3>2, <3>3 DEF Ages, Killed
  <2> QED BY <2>1, <2>2, <2>3, <2>4 DEF ClusterStep
<1>6. ClusterTypeOK'
  BY <1>2, <1>5 DEF ClusterTypeOK
<1> QED BY <1>2, <1>3, <1>5, <1>6
-----------------------------------------------------------------------------
(* What a step of a cleaner may do.                                         *)
CleanerKeeps(c) ==
  /\ cl' = [cl EXCEPT ![c] = cl'[c]] /\ cl'[c] \in CleanerState
  /\ cl'[c].uid = cl[c].uid /\ cl'[c].ns = cl[c].ns
  /\ cl[c].pc # "idle" /\ cl'[c].pc # "idle"
  /\ cl'[c].items \subseteq cl[c].items \cup ListedItems(c)

LEMMA NextItemFacts ==
  ASSUME NEW c \in Cleaner, CleanupTypeOK, AtItem(c)
  PROVE  NextItem(c) \in cl[c].items /\ NextItem(c).o \in Object /\ cl[c].pc = "items"
<1>1. NextItem(c) \in cl[c].items /\ cl[c].pc = "items"
  BY DEF AtItem, NextItem
<1>2. cl[c].items \in SUBSET Item
  BY DEF CleanupTypeOK, CleanerState
<1> QED BY <1>1, <1>2 DEF Item

LEMMA CleanerSteps ==
  ASSUME ClusterTypeOK, CleanupTypeOK, NEW c \in Cleaner, CleanerNext(c)
  PROVE  /\ ClusterTypeOK' /\ CleanerKeeps(c) /\ crds' = crds /\ Ages
         /\ \A o \in Killed : cl[c].pc = "items" /\ \E it \in cl[c].items : it.o = o
<1>0. cl \in [Cleaner -> CleanerState] /\ cl[c] \in CleanerState /\ obj \in [Object -> ObjState]
  BY DEF CleanupTypeOK, ClusterTypeOK
<1>q. ASSUME obj' = obj, crds' = crds, faults' = faults \/ Fault
      PROVE  ClusterTypeOK' /\ Ages /\ Killed = {}
  BY <1>q, FaultCount, SameObjects DEF ClusterTypeOK
<1>1. CASE Discover(c)
  <2>1. cl' = [cl EXCEPT ![c].pc = "list", ![c].vers = ServedVersions] /\ cl[c].pc = "discover"
    BY <1>1 DEF Discover
  <2>2. ServedVersions \in Nat
    BY CleanupAssumption DEF ServedVersions
  <2>3. CleanerKeeps(c)
    BY <1>0, <2>1, <2>2 DEF CleanerKeeps, CleanerState, CleanerPc
  <2> QED BY <1>1, <1>q, <2>3 DEF Discover, clusterVars
<1>2. CASE DiscoverFails(c)
  <2>1. cl' = [cl EXCEPT ![c].pc = "done", ![c].result = "error"] /\ cl[c].pc = "discover"
    BY <1>2 DEF DiscoverFails
  <2>2. CleanerKeeps(c)
    BY <1>0, <2>1 DEF CleanerKeeps, CleanerState, CleanerPc
  <2> QED BY <1>2, <1>q, <2>2 DEF DiscoverFails
<1>3. CASE List(c)
  <2> DEFINE L == ListedItems(c)
             strip == cl[c].strip \cup {it.o : it \in {i \in L : i.fin}}
  <2>1. cl' = [cl EXCEPT ![c].pc = "items", ![c].items = L, ![c].strip = strip] /\ cl[c].pc = "list"
    BY <1>3 DEF List
  <2>2. L \subseteq Item
    <3>1. \A o \in Mine(c) : o \in Object /\ obj[o].fin \in BOOLEAN
      BY <1>0 DEF Mine, Selected, ObjState
    <3> QED BY <3>1 DEF ListedItems, Item
  <2>3. strip \in SUBSET Object
    BY <1>0, <2>2 DEF CleanerState, Item
  <2> HIDE DEF L, strip
  <2>4. CleanerKeeps(c)
    BY <1>0, <2>1, <2>2, <2>3 DEF CleanerKeeps, CleanerState, CleanerPc, L
  <2> QED BY <1>3, <1>q, <2>4 DEF List, clusterVars
<1>4. CASE ListFails(c)
  <2>1. cl' = [cl EXCEPT ![c].idx = @ + 1, ![c].ok = FALSE] /\ cl[c].pc = "list"
    BY <1>4 DEF ListFails
  <2>4. cl[c].idx + 1 \in Nat
    BY <1>0 DEF CleanerState
  <2>2. CleanerKeeps(c)
    BY <1>0, <2>1, <2>4 DEF CleanerKeeps, CleanerState, CleanerPc
  <2>3. obj' = obj /\ crds' = crds /\ (faults' = faults \/ Fault)
    BY <1>4 DEF ListFails
  <2> QED BY <1>q, <2>2, <2>3
<1>5. CASE NextKind(c)
  <2>1. cl' = [cl EXCEPT ![c].pc = "list", ![c].idx = @ + 1] /\ cl[c].pc = "items"
    BY <1>5 DEF NextKind
  <2>3. cl[c].idx + 1 \in Nat
    BY <1>0 DEF CleanerState
  <2>2. CleanerKeeps(c)
    BY <1>0, <2>1, <2>3 DEF CleanerKeeps, CleanerState, CleanerPc
  <2> QED BY <1>5, <1>q, <2>2 DEF NextKind, clusterVars
<1>6. CASE DeleteItem(c)
  <2> DEFINE it == NextItem(c)
  <2>1. it \in cl[c].items /\ it.o \in Object /\ cl[c].pc = "items"
    BY <1>6, NextItemFacts DEF DeleteItem
  <2>2. obj' = Deleted(it.o) /\ Present(it.o) /\ crds' = crds /\ faults' = faults
    BY <1>6 DEF DeleteItem, DeleteThenStrip
  <2> HIDE DEF it
  <2>3. obj' \in [Object -> ObjState] /\ Ages /\ Killed \subseteq {it.o}
    BY <2>1, <2>2, DeletedFacts
  <2>4. CleanerKeeps(c)
    <3>1. CASE cl' = [cl EXCEPT ![c].items = @ \ {it}, ![c].pc = "get", ![c].cur = it.o]
      BY <1>0, <2>1, <3>1 DEF CleanerKeeps, CleanerState, CleanerPc
    <3>2. CASE cl' = [cl EXCEPT ![c].items = @ \ {it}]
      BY <1>0, <2>1, <3>2 DEF CleanerKeeps, CleanerState
    <3> QED BY <1>6, <3>1, <3>2 DEF DeleteItem, DeleteThenStrip, it
  <2>5. ClusterTypeOK'
    BY <2>2, <2>3 DEF ClusterTypeOK
  <2> QED BY <2>1, <2>2, <2>3, <2>4, <2>5
<1>7. CASE DeleteItemMissing(c)
  <2>1. cl' = [cl EXCEPT ![c].items = @ \ {NextItem(c)}] /\ cl[c].pc = "items"
    BY <1>7 DEF DeleteItemMissing, AtItem
  <2>2. CleanerKeeps(c)
    BY <1>0, <2>1 DEF CleanerKeeps, CleanerState
  <2> QED BY <1>7, <1>q, <2>2 DEF DeleteItemMissing, clusterVars
<1>8. CASE DeleteItemFails(c)
  <2>1. cl' = [cl EXCEPT ![c].items = @ \ {NextItem(c)}, ![c].ok = FALSE] /\ cl[c].pc = "items"
    BY <1>8 DEF DeleteItemFails, RemembersFailure, AtItem
  <2>2. CleanerKeeps(c)
    BY <1>0, <2>1 DEF CleanerKeeps, CleanerState
  <2> QED BY <1>8, <1>q, <2>2 DEF DeleteItemFails
<1>13. CASE DeleteAnswerLost(c)
  <2> DEFINE it == NextItem(c)
  <2>1. it \in cl[c].items /\ it.o \in Object /\ cl[c].pc = "items"
    BY <1>13, NextItemFacts DEF DeleteAnswerLost
  <2>2. obj' = Deleted(it.o) /\ Present(it.o) /\ crds' = crds /\ Fault
    BY <1>13 DEF DeleteAnswerLost
  <2>3. cl' = [cl EXCEPT ![c].items = @ \ {it}, ![c].ok = FALSE]
    BY <1>13 DEF DeleteAnswerLost, RemembersFailure
  <2> HIDE DEF it
  <2>4. obj' \in [Object -> ObjState] /\ Ages /\ Killed \subseteq {it.o}
    BY <2>1, <2>2, DeletedFacts
  <2>5. CleanerKeeps(c)
    BY <1>0, <2>1, <2>3 DEF CleanerKeeps, CleanerState
  <2>6. ClusterTypeOK'
    BY <2>2, <2>4, FaultCount DEF ClusterTypeOK
  <2> QED BY <2>1, <2>2, <2>4, <2>5, <2>6
<1>9. CASE GetLatest(c)
  <2>1. cl' = [cl EXCEPT ![c].pc = "patch"] /\ cl[c].pc = "get"
    BY <1>9 DEF GetLatest
  <2>2. CleanerKeeps(c)
    BY <1>0, <2>1 DEF CleanerKeeps, CleanerState, CleanerPc
  <2> QED BY <1>9, <1>q, <2>2 DEF GetLatest, clusterVars
<1>d. ASSUME NEW failed \in BOOLEAN, ItemDone(c, failed), cl[c].pc \in {"get", "patch"}
      PROVE  CleanerKeeps(c)
  <2>1. cl' = [cl EXCEPT ![c].pc = "items", ![c].cur = NoObj, ![c].ok = @ /\ ~failed]
    BY <1>d DEF ItemDone
  <2>2. (cl[c].ok /\ ~failed) \in BOOLEAN
    OBVIOUS
  <2> QED BY <1>0, <1>d, <2>1, <2>2 DEF CleanerKeeps, CleanerState, CleanerPc
<1>10. CASE PatchFinalizers(c) \/ PatchAnswerLost(c)
  <2>1. /\ cl[c].pc = "patch" /\ Present(cl[c].cur) /\ obj[cl[c].cur].fin
        /\ obj' = Stripped(cl[c].cur) /\ (ItemDone(c, FALSE) \/ ItemDone(c, TRUE))
        /\ crds' = crds /\ (faults' = faults \/ Fault)
    BY <1>10 DEF PatchFinalizers, PatchAnswerLost
  <2>2. CASE cl[c].cur \in Object
    <3>1. obj' \in [Object -> ObjState] /\ Ages /\ Killed = {}
      BY <2>1, <2>2, StrippedFacts
    <3> QED BY <1>d, <2>1, <3>1, FaultCount DEF ClusterTypeOK
  <2>3. CASE cl[c].cur \notin Object
    <3>1. obj' = obj
      BY <1>0, <2>1, <2>3 DEF Stripped
    <3> QED BY <1>d, <1>q, <2>1, <3>1
  <2> QED BY <2>2, <2>3
<1>11. CASE PatchInvalid(c) \/ StripMissing(c) \/ StripFails(c)
  <2>1. /\ cl[c].pc \in {"get", "patch"} /\ (ItemDone(c, FALSE) \/ ItemDone(c, TRUE))
        /\ obj' = obj /\ crds' = crds /\ (faults' = faults \/ Fault)
    BY <1>11 DEF PatchInvalid, StripMissing, StripFails, clusterVars
  <2> QED BY <1>d, <1>q, <2>1
<1>12. CASE Finish(c)
  <2> DEFINE res == IF cl[c].ok THEN "nil" ELSE "error"
  <2>1. cl' = [cl EXCEPT ![c].pc = "done", ![c].result = res] /\ cl[c].pc = "list"
    BY <1>12 DEF Finish
  <2>2. res \in {"none", "nil", "error"}
    OBVIOUS
  <2> HIDE DEF res
  <2>3. CleanerKeeps(c)
    BY <1>0, <2>1, <2>2 DEF CleanerKeeps, CleanerState, CleanerPc
  <2> QED BY <1>12, <1>q, <2>3 DEF Finish, clusterVars
<1> QED BY <1>1, <1>2, <1>3, <1>4, <1>5, <1>6, <1>7, <1>8, <1>9, <1>10, <1>11, <1>12, <1>13
       DEF CleanerNext
-----------------------------------------------------------------------------
(***************************************************************************)
(* The inductive invariant.                                                 *)
(***************************************************************************)

(* The two checks of SnapshotSetup go on only while the run is at them.     *)
PhaseOK(u) ==
  /\ su[u].pc \in CrdStep => rn[u].k = 6
  /\ su[u].pc \in ClassStep => rn[u].k = 9 /\ ~rn[u].skipClass
  /\ rn[u].k > 6 => su[u].crdRes # "none"
  /\ rn[u].outcome["snapshotClass"] = "ok" => su[u].clsRes = "ok"

AskedOK ==
  /\ \A u \in Active : asked[u] \in RunInputs
  /\ \A c \in Cli : asked[c] \in CleanupInputs

(* A run works with the options its user asked for.                         *)
FlagGiven(u) == "inCluster" \in DOMAIN asked[u].flags /\ asked[u].flags["inCluster"]

OptionsOK(u) ==
  /\ rn[u].inCluster => FlagGiven(u)
  /\ rn[u].k > 0 => (rn[u].cleanFail <=> Asked(u, "cleanFail"))

(* A cleaner works for the run it is named after, which has its verdict and *)
(* wants to be cleaned up, or for whom its user asked for.                  *)
CleanerOK(c) ==
  /\ \A it \in cl[c].items : it.o \in Mine(c)
  /\ cl[c].pc # "idle" =>
       \/ /\ c \in Active /\ cl[c].uid = c /\ cl[c].ns = RunNs[c]
          /\ rn[c].k >= 13 /\ (rn[c].status \/ rn[c].cleanFail)
       \/ c \in Cli /\ cl[c].uid = Asked(c, "uid")

RunInv ==
  /\ SetupInv /\ CleanupTypeOK /\ RunTypeOK /\ AskedOK
  /\ \A u \in Run : Placed(rn[u]) /\ FlowOK(rn[u]) /\ PhaseOK(u)
  /\ \A u \in Active : OptionsOK(u)
  /\ \A c \in Cleaner : CleanerOK(c)
-----------------------------------------------------------------------------
(***************************************************************************)
(* The steps of a run that neither are part of the two setup checks nor     *)
(* start the cleanup.                                                       *)
(***************************************************************************)

Plain(u) ==
  \/ SkipCheck(u) \/ ProbePasses(u) \/ CallFails(u)
  \/ Create(u) \/ CreateAnswerLost(u) \/ ObjectMissing(u)
  \/ PollReady(u) \/ PollAgain(u) \/ Fetch(u) \/ Exec(u)
  \/ Delete(u) \/ DeleteGet(u) \/ DeletePatch(u) \/ DeleteFails(u)
  \/ DeletionAnswerLost(u)
  \/ Return(u)

(* The object of the step comes to be.                                      *)
Creates(u) ==
  /\ At(u, "create", "call") /\ Creatable(Target(u))
  /\ obj' = [obj EXCEPT ![Target(u)] = Newborn(Target(u))]

Own(u) == {o \in Obj : o.run = u}

LEMMA CreatesFacts ==
  ASSUME ClusterTypeOK, NEW u \in Run, Placed(rn[u]), Creates(u)
  PROVE  obj' \in [Object -> ObjState] /\ Killed = {}
<1>1. Target(u) \in Object
  BY AtObject DEF Creates, At, ObjectOp
<1>2. /\ Newborn(Target(u)).phase = "live" /\ Newborn(Target(u)) \in ObjState
  BY DEF Newborn, ObjState, Phase
<1>3. obj' = [obj EXCEPT ![Target(u)] = Newborn(Target(u))] /\ obj \in [Object -> ObjState]
  BY DEF Creates, ClusterTypeOK
<1> QED BY <1>1, <1>2, <1>3 DEF Killed

LEMMA PlainWorld ==
  ASSUME ClusterTypeOK, NEW u \in Run, Placed(rn[u]), Plain(u)
  PROVE  /\ ClusterTypeOK' /\ UNCHANGED <<crds, cl, classes, su, cutMounted>>
         /\ Killed \subseteq Own(u) /\ (Ages \/ Creates(u))
<1>q. ASSUME obj' = obj, crds' = crds, faults' = faults \/ Fault
      PROVE  ClusterTypeOK' /\ Ages /\ Killed = {}
  BY <1>q, FaultCount, SameObjects DEF ClusterTypeOK
<1>1. CASE \/ SkipCheck(u) \/ ProbePasses(u) \/ ObjectMissing(u) \/ PollReady(u) \/ PollAgain(u)
           \/ Fetch(u) \/ Exec(u) \/ DeleteGet(u) \/ Return(u)
  <2>1. UNCHANGED <<clusterVars, cl, setupVars, cutMounted>>
    BY <1>1 DEF SkipCheck, ProbePasses, ObjectMissing, PollReady, PollAgain, Fetch, Exec,
                DeleteGet, Return
  <2> QED BY <1>q, <2>1 DEF clusterVars, setupVars
<1>2. CASE CallFails(u) \/ DeleteFails(u)
  <2>1. UNCHANGED <<obj, crds, cl, setupVars, cutMounted>> /\ (faults' = faults \/ Fault)
    BY <1>2 DEF CallFails, DeleteFails
  <2> QED BY <1>q, <2>1 DEF setupVars
<1>3. CASE Create(u) \/ CreateAnswerLost(u)
  <2>1. /\ UNCHANGED <<crds, cl, setupVars, cutMounted>> /\ (faults' = faults \/ Fault)
        /\ Creates(u)
    BY <1>3 DEF Create, CreateAnswerLost, Creates
  <2>2. obj' \in [Object -> ObjState] /\ Killed = {}
    BY <2>1, CreatesFacts
  <2>3. faults' \in 0..MaxFaults
    BY <2>1, FaultCount
  <2> QED BY <2>1, <2>2, <2>3 DEF setupVars, ClusterTypeOK
<1>4. CASE Delete(u) \/ DeletePatch(u) \/ DeletionAnswerLost(u)
  <2>1. /\ UNCHANGED <<crds, cl, setupVars, cutMounted>> /\ Present(Target(u))
        /\ (faults' = faults \/ Fault)
        /\ obj' = Deleted(Target(u)) \/ obj' = Stripped(Target(u))
        /\ Checking(u) /\ StepOf(u).op \in ObjectOp
    BY <1>4 DEF Delete, DeletePatch, DeletionAnswerLost, At, ObjectOp
  <2>2. Target(u) \in Object /\ Target(u) \in Own(u)
    BY <2>1, AtObject DEF Own
  <2>3. obj' \in [Object -> ObjState] /\ Ages /\ Killed \subseteq {Target(u)}
    BY <2>1, <2>2, DeletedFacts, StrippedFacts
  <2>4. faults' \in 0..MaxFaults
    BY <2>1, FaultCount DEF ClusterTypeOK
  <2> QED BY <2>1, <2>2, <2>3, <2>4 DEF setupVars, ClusterTypeOK
<1> QED BY <1>1, <1>2, <1>3, <1>4 DEF Plain

(* At the two setup checks such a step can only leave the check out.        *)
LEMMA PlainPlace ==
  ASSUME NEW u \in Run, Placed(rn[u]), Plain(u)
  PROVE  /\ rn[u].k # 6
         /\ rn[u].k = 9 => rn[u].skipClass /\ Skips(u)
<1>1. CASE Return(u)
  BY <1>1, ElevenChecks DEF Return, Cleaning
<1>2. CASE SkipCheck(u)
  <2>1. rn[u].k \in 1..11 /\ CheckOf(u) = CheckOrder[rn[u].k] /\ Skips(u)
    BY <1>2, CheckingFacts DEF SkipCheck
  <2>2. /\ CheckOf(u) = "crds" <=> rn[u].k = 6
        /\ CheckOf(u) = "snapshotClass" <=> rn[u].k = 9
    BY <2>1, Positions
  <2> QED BY <2>1, <2>2 DEF Skips
<1>3. CASE ~Return(u) /\ ~SkipCheck(u)
  <2>1. Checking(u) /\ StepOf(u).op # "setup"
    BY <1>3 DEF Plain, At, ProbePasses, CallFails, Create, CreateAnswerLost, ObjectMissing,
                PollReady, PollAgain, Fetch, Exec, Delete, DeleteGet, DeletePatch, DeleteFails,
                DeletionAnswerLost
  <2>2. rn[u].k \in 1..11 /\ CheckOf(u) = CheckOrder[rn[u].k] /\ StepOf(u) \in StepFor(CheckOf(u))
    BY <2>1, CheckingFacts
  <2>3. CheckOf(u) \notin {"crds", "snapshotClass"}
    BY <2>1, <2>2 DEF StepFor
  <2> QED BY <2>2, <2>3, Positions
<1> QED BY <1>1, <1>2, <1>3
-----------------------------------------------------------------------------
(***************************************************************************)
(* The parts of the invariant, as a run moves.                              *)
(***************************************************************************)

LEMMA InvFacts ==
  ASSUME RunInv, NEW u \in Run
  PROVE  /\ rn \in [Run -> RunState] /\ rn[u] \in RunState /\ Placed(rn[u]) /\ FlowOK(rn[u])
         /\ PhaseOK(u) /\ ClusterTypeOK /\ su \in [Run -> SetupState] /\ su[u] \in SetupState
         /\ cutMounted \subseteq Obj /\ cl \in [Cleaner -> CleanerState]
         /\ u \in Active => OptionsOK(u)
         /\ OrderOK(u)
BY DEF RunInv, RunTypeOK, SetupInv, SetupTypeOK, CleanupTypeOK, RunOK

LEMMA EndingFacts ==
  ASSUME NEW r \in RunState, NEW s, Decides(r, s) \/ Returns(r, s)
  PROVE  /\ r.k \in {12, 13} /\ s.k \in {13, 14}
         /\ s.outcome = r.outcome /\ s.status = r.status
         /\ s.inCluster = r.inCluster /\ s.cleanFail = r.cleanFail
BY DEF Decides, Returns, RunState

(* A run that has its verdict keeps it, and what it was told.               *)
LEMMA CourseMoves ==
  ASSUME NEW u \in Run, rn \in [Run -> RunState], CourseStep(u)
  PROVE  /\ rn'[u].inCluster = rn[u].inCluster /\ rn'[u].cleanFail = rn[u].cleanFail
         /\ rn'[u].k > 0 => rn[u].k > 0
         /\ rn[u].k >= 13 => rn'[u].k >= 13 /\ rn'[u].status = rn[u].status
         /\ \A v \in Run \ {u} : rn'[v] = rn[v]
         /\ rn' \in [Run -> RunState]
<1>1. rn' = [rn EXCEPT ![u] = rn'[u]] /\ rn \in [Run -> RunState] /\ rn'[u] \in RunState
  BY DEF CourseStep, Placed
<1>2. rn[u] \in RunState /\ rn[u].k \in 0..14 /\ rn'[u].k \in 0..14
  BY <1>1, ElevenChecks DEF RunState
<1>3. CASE Stays(rn[u], rn'[u])
  BY <1>1, <1>2, <1>3 DEF Stays, SameFlags
<1>4. CASE \E res \in {"ok", "failed", "skipped"} :
             Checking(u) /\ Settles(rn[u], rn'[u], res) /\ (res = "skipped" <=> Skips(u))
  BY <1>1, <1>2, <1>4, ElevenChecks DEF Settles, SameFlags, Checking
<1>5. CASE Decides(rn[u], rn'[u]) \/ Returns(rn[u], rn'[u])
  BY <1>1, <1>2, <1>5, EndingFacts
<1> QED BY <1>1, <1>3, <1>4, <1>5 DEF CourseStep

(* A step of the run leaves alone what holds of the cleaners that rest.     *)
LEMMA CleanersStay ==
  ASSUME RunInv, NEW u \in Active, CourseStep(u), asked' = asked,
         NEW c \in Cleaner, cl'[c] = cl[c]
  PROVE  CleanerOK(c)'
<1>0. rn \in [Run -> RunState]
  BY DEF RunInv, RunTypeOK
<1>1. u \in Run /\ Active \subseteq Run
  BY PreflightAssumption
<1>2. CleanerOK(c) /\ Mine(c)' = Mine(c)
  BY DEF RunInv, Mine
<1>3. ASSUME c \in Active, rn[c].k >= 13
      PROVE  /\ rn'[c].k >= 13 /\ rn'[c].status = rn[c].status
             /\ rn'[c].cleanFail = rn[c].cleanFail
  BY <1>0, <1>1, <1>3, CourseMoves
<1>4. Asked(c, "uid")' = Asked(c, "uid")
  BY DEF Asked
<1> QED BY <1>2, <1>3, <1>4 DEF CleanerOK

LEMMA RunFrame ==
  ASSUME RunInv, NEW u \in Active, CourseStep(u), asked' = asked,
         SetupInv', CleanupTypeOK', cutMounted' \subseteq Obj, PhaseOK(u)',
         \A v \in Run \ {u} : su'[v] = su[v],
         \A c \in Cleaner : CleanerOK(c)'
  PROVE  RunInv'
<1>0. rn \in [Run -> RunState]
  BY DEF RunInv, RunTypeOK
<1>1. u \in Run /\ Active \subseteq Run
  BY PreflightAssumption
<1>2. RunTypeOK'
  BY <1>0, <1>1, CourseMoves DEF RunTypeOK
<1>3. ASSUME NEW v \in Run PROVE Placed(rn'[v]) /\ FlowOK(rn'[v]) /\ PhaseOK(v)'
  <2>1. CASE v = u
    BY <1>1, <2>1, InvFacts, CourseFlow DEF CourseStep
  <2>2. CASE v # u
    <3>1. rn'[v] = rn[v] /\ su'[v] = su[v]
      BY <1>0, <1>1, <2>2, CourseMoves
    <3> QED BY <3>1, InvFacts DEF PhaseOK
  <2> QED BY <2>1, <2>2
<1>4. ASSUME NEW v \in Active PROVE OptionsOK(v)'
  <2>1. /\ rn'[v].inCluster = rn[v].inCluster /\ rn'[v].cleanFail = rn[v].cleanFail
        /\ rn'[v].k > 0 => rn[v].k > 0
    <3>1. CASE v = u
      BY <1>0, <1>1, <3>1, CourseMoves
    <3>2. CASE v # u
      <4>1. v \in Run \ {u}
        BY <1>1, <3>2
      <4>2. rn'[v] = rn[v]
        BY <1>0, <1>1, <4>1, CourseMoves
      <4> QED BY <4>2
    <3> QED BY <3>1, <3>2
  <2>2. OptionsOK(v) /\ FlagGiven(v)' = FlagGiven(v) /\ Asked(v, "cleanFail")' = Asked(v, "cleanFail")
    BY DEF RunInv, FlagGiven, Asked
  <2> QED BY <2>1, <2>2 DEF OptionsOK
<1>5. AskedOK'
  BY DEF RunInv, AskedOK
<1> HIDE DEF CleanerOK
<1> QED BY <1>2, <1>3, <1>4, <1>5 DEF RunInv

(* The setup checks rest: where they stand does not get out of step with    *)
(* the run.                                                                 *)
LEMMA PhaseStays ==
  ASSUME NEW u \in Run, Placed(rn[u]), PhaseOK(u), CourseStep(u), su'[u] = su[u],
         rn[u].k = 6 => su[u].pc = "idle" /\ su[u].crdRes # "none",
         rn[u].k = 9 =>
           \/ su[u].pc = "idle" /\ (Settles(rn[u], rn'[u], "ok") => su[u].clsRes = "ok")
           \/ rn[u].skipClass /\ Skips(u)
  PROVE  PhaseOK(u)'
<1>1. rn[u] \in RunState /\ rn'[u] \in RunState /\ rn[u].k \in 0..14 /\ rn'[u].k \in 0..14
      /\ rn'[u].outcome \in [Check -> {"todo", "ok", "failed", "skipped"}]
      /\ rn[u].outcome \in [Check -> {"todo", "ok", "failed", "skipped"}]
  BY ElevenChecks DEF CourseStep, Placed, RunState
<1>2. CASE Stays(rn[u], rn'[u])
  BY <1>1, <1>2 DEF Stays, PhaseOK
<1>3. CASE \E res \in {"ok", "failed", "skipped"} :
             Checking(u) /\ Settles(rn[u], rn'[u], res) /\ (res = "skipped" <=> Skips(u))
  <2>1. PICK res \in {"ok", "failed", "skipped"} :
          Checking(u) /\ Settles(rn[u], rn'[u], res) /\ (res = "skipped" <=> Skips(u))
    BY <1>3
  <2>2. rn[u].k \in 1..11 /\ rn'[u].k = rn[u].k + 1
    BY <2>1, CheckingFacts DEF Settles
  <2>3. "snapshotClass" \in Check /\ CheckOrder[rn[u].k] \in Check
    BY <2>2, ElevenChecks
  <2>4. CheckOrder[rn[u].k] = "snapshotClass" <=> rn[u].k = 9
    BY <2>2, Positions
  <2>5. rn'[u].outcome = [rn[u].outcome EXCEPT ![CheckOrder[rn[u].k]] = res]
    BY <2>1 DEF Settles
  <2>6. su[u].pc \in CrdStep \cup ClassStep => su[u].pc # "idle"
    BY DEF CrdStep, ClassStep
  <2>7. su[u].pc \notin CrdStep \cup ClassStep
    BY <2>6 DEF PhaseOK
  <2>8. rn'[u].k > 6 => su[u].crdRes # "none"
    BY <2>2 DEF PhaseOK
  <2>9. rn'[u].outcome["snapshotClass"] = "ok" => su[u].clsRes = "ok"
    <3>1. CASE rn[u].k = 9
      <4>1. rn'[u].outcome["snapshotClass"] = res
        BY <1>1, <2>3, <2>4, <2>5, <3>1
      <4> QED BY <2>1, <3>1, <4>1
    <3>2. CASE rn[u].k # 9
      <4>1. rn'[u].outcome["snapshotClass"] = rn[u].outcome["snapshotClass"]
        BY <1>1, <2>3, <2>4, <2>5, <3>2
      <4> QED BY <4>1 DEF PhaseOK
    <3> QED BY <3>1, <3>2
  <2> QED BY <2>7, <2>8, <2>9 DEF PhaseOK
<1>4. CASE Decides(rn[u], rn'[u]) \/ Returns(rn[u], rn'[u])
  <2>1. rn[u].k \in {12, 13} /\ rn'[u].outcome = rn[u].outcome
    BY <1>1, <1>4, EndingFacts
  <2> QED BY <2>1 DEF PhaseOK
<1> QED BY <1>2, <1>3, <1>4 DEF CourseStep
-----------------------------------------------------------------------------
(***************************************************************************)
(* Every action preserves the invariant.                                    *)
(***************************************************************************)

LEMMA PlainKeeps ==
  ASSUME RunInv, NEW u \in Active, Plain(u), CourseStep(u), asked' = asked
  PROVE  RunInv'
<1>1. u \in Run
  BY PreflightAssumption
<1>2. Placed(rn[u]) /\ PhaseOK(u) /\ ClusterTypeOK /\ cutMounted \subseteq Obj
  BY <1>1, InvFacts
<1>3. ClusterTypeOK' /\ UNCHANGED <<crds, cl, classes, su, cutMounted>>
  BY <1>1, <1>2, PlainWorld
<1>4. SetupInv' /\ CleanupTypeOK'
  BY <1>3, SetupFrame DEF RunInv, CleanupTypeOK
<1>5. \A c \in Cleaner : CleanerOK(c)'
  BY <1>3, CleanersStay
<1>6. PhaseOK(u)'
  BY <1>1, <1>2, <1>3, PlainPlace, PhaseStays
<1> QED BY <1>1, <1>2, <1>3, <1>4, <1>5, <1>6, RunFrame

(* The two checks of SnapshotSetup begin, go on and end.                    *)
LEMMA SetupKeeps ==
  ASSUME RunInv, NEW u \in Active, CourseStep(u), asked' = asked,
         BeginSetup(u) \/ EndSetup(u) \/ (SetupNext(u) /\ UNCHANGED <<cl, runVars>>)
  PROVE  RunInv'
<1>1. u \in Run /\ SetupInv
  BY PreflightAssumption DEF RunInv
<1>2. /\ Placed(rn[u]) /\ PhaseOK(u) /\ ClusterTypeOK /\ cutMounted \subseteq Obj
      /\ rn \in [Run -> RunState] /\ su \in [Run -> SetupState] /\ FlowOK(rn[u])
  BY <1>1, InvFacts
<1>3. cl' = cl /\ cutMounted' = cutMounted
  BY DEF BeginSetup, EndSetup, runVars
<1>4. CleanupTypeOK' /\ \A c \in Cleaner : CleanerOK(c)'
  BY <1>3, CleanersStay DEF RunInv, CleanupTypeOK
<1>5. CASE BeginSetup(u) \/ EndSetup(u)
  <2>1. /\ Checking(u) /\ ~Skips(u) /\ StepOf(u).op = "setup" /\ su[u].pc = "idle"
    BY <1>5 DEF BeginSetup, EndSetup, At
  <2>2. rn[u].k \in 1..11 /\ CheckOf(u) = CheckOrder[rn[u].k] /\ StepOf(u) \in StepFor(CheckOf(u))
    BY <1>1, <1>2, <2>1, CheckingFacts
  <2>3. /\ CheckOf(u) \in {"crds", "snapshotClass"}
        /\ StepOf(u).role = IF CheckOf(u) = "crds" THEN "crds" ELSE "class"
    BY <2>1, <2>2 DEF StepFor
  <2>4. \/ rn[u].k = 6 /\ StepOf(u).role = "crds"
        \/ rn[u].k = 9 /\ StepOf(u).role = "class" /\ ~rn[u].skipClass /\ CheckOf(u) = "snapshotClass"
    BY <2>1, <2>2, <2>3, Positions DEF Skips
  <2>5. CASE BeginSetup(u)
    <3>1. /\ UNCHANGED <<clusterVars, cl, classes, rn>>
          /\ \/ StepOf(u).role = "crds"  /\ su[u].crdRes = "none" /\ StartCrds(u)
             \/ StepOf(u).role = "class" /\ su[u].clsRes = "none" /\ StartClass(u)
      BY <2>5 DEF BeginSetup, runVars
    <3>2. rn[u].k = 9 => su[u].crdRes # "none"
      BY <1>2 DEF PhaseOK
    <3>3. WorldStep /\ GeneratedOK' /\ Moves(u) /\ RunOK(u)'
      BY <1>1, <2>4, <3>1, <3>2, StartSteps
    <3>4. SetupInv' /\ \A v \in Run \ {u} : su'[v] = su[v]
      BY <1>1, <3>3, OneRunMoves DEF Moves
    <3>5. PhaseOK(u)'
      <4>1. CASE rn[u].k = 6
        <5>1. su' = [su EXCEPT ![u].pc = "version"]
          BY <2>4, <3>1, <4>1 DEF StartCrds
        <5>2. su'[u].pc = "version" /\ su'[u].crdRes = su[u].crdRes /\ su'[u].clsRes = su[u].clsRes
          BY <1>1, <1>2, <5>1 DEF SetupState
        <5> QED BY <1>2, <3>1, <4>1, <5>2 DEF PhaseOK, CrdStep, ClassStep
      <4>2. CASE rn[u].k = 9
        <5>1. su' = [su EXCEPT ![u].pc = "prefVersion"]
          BY <2>4, <3>1, <4>2 DEF StartClass
        <5>2. su'[u].pc = "prefVersion" /\ su'[u].crdRes = su[u].crdRes /\ su'[u].clsRes = su[u].clsRes
          BY <1>1, <1>2, <5>1 DEF SetupState
        <5> QED BY <1>2, <2>4, <3>1, <4>2, <5>2 DEF PhaseOK, CrdStep, ClassStep
      <4> QED BY <2>4, <4>1, <4>2
    <3> QED BY <1>2, <1>3, <1>4, <3>4, <3>5, RunFrame
  <2>6. CASE EndSetup(u)
    <3>1. /\ UNCHANGED <<clusterVars, classes, su>>
          /\ \/ StepOf(u).role = "crds" /\ su[u].crdRes \in {"ok", "failed"}
             \/ /\ StepOf(u).role # "crds"
                /\ \/ su[u].clsRes = "ok" /\ Advance(u)
                   \/ su[u].clsRes = "failed" /\ Fail(u)
      BY <2>6 DEF EndSetup, setupVars
    <3>2. ClusterTypeOK'
      BY <1>2, <3>1 DEF ClusterTypeOK, clusterVars
    <3>3. SetupInv'
      BY <1>1, <3>1, <3>2, SetupFrame DEF clusterVars
    <3>4. ASSUME rn[u].k = 9, Settles(rn[u], rn'[u], "ok") PROVE su[u].clsRes = "ok"
      <4>1. CASE Fail(u)
        <5>1. Settles(rn[u], rn'[u], "failed")
          BY <1>1, <1>2, <2>1, <4>1, FailFacts
        <5>2. /\ rn'[u].outcome = [rn[u].outcome EXCEPT ![CheckOrder[rn[u].k]] = "failed"]
              /\ rn'[u].outcome = [rn[u].outcome EXCEPT ![CheckOrder[rn[u].k]] = "ok"]
          BY <3>4, <5>1 DEF Settles
        <5>3. /\ CheckOrder[rn[u].k] \in Check
              /\ rn[u].outcome \in [Check -> {"todo", "ok", "failed", "skipped"}]
          BY <1>1, <1>2, <2>1, <2>2, CheckingFacts
        <5> QED BY <5>2, <5>3
      <4> QED BY <2>4, <3>1, <3>4, <4>1
    <3>5. PhaseOK(u)'
      BY <1>1, <1>2, <2>1, <2>4, <3>1, <3>4, PhaseStays
    <3> QED BY <1>2, <1>3, <1>4, <3>1, <3>3, <3>5, RunFrame
  <2> QED BY <1>5, <2>5, <2>6
<1>6. CASE SetupNext(u) /\ UNCHANGED <<cl, runVars>>
  <2>1. SetupInv' /\ \A v \in Run \ {u} : su'[v] = su[v]
    BY <1>1, <1>6, SetupStepKeeps DEF Moves
  <2>2. rn' = rn
    BY <1>6 DEF runVars
  <2>3. /\ \/ su[u].pc \in CrdStep /\ su'[u].pc \in CrdStep \cup {"idle"}
           \/ su[u].pc \in ClassStep /\ su'[u].pc \in ClassStep \cup {"idle"}
        /\ su'[u].crdRes = "none" => su[u].crdRes = "none"
    BY <1>1, <1>6, SetupCourse
  <2>4. rn[u].outcome["snapshotClass"] # "ok"
    <3>1. rn[u].k \in {6, 9}
      BY <1>2, <2>3 DEF PhaseOK
    <3>2. rn[u].outcome["snapshotClass"] = "todo"
      BY <1>2, <3>1, NamedChecks DEF FlowOK
    <3> QED BY <3>2
  <2>5. PhaseOK(u)'
    BY <1>2, <2>2, <2>3, <2>4 DEF PhaseOK, CrdStep, ClassStep
  <2> QED BY <1>2, <1>3, <1>4, <2>1, <2>5, RunFrame
<1> QED BY <1>5, <1>6

(* A call of CleanupPreflightResources begins.                              *)
LEMMA StartFacts ==
  ASSUME CleanupTypeOK, NEW c \in Cleaner, NEW uid \in Run \cup {NoUid}, NEW ns \in Ns \cup {NoNs},
         StartCleanup(c, uid, ns)
  PROVE  /\ cl[c].pc = "idle" /\ cl' \in [Cleaner -> CleanerState]
         /\ \A d \in Cleaner \ {c} : cl'[d] = cl[d]
         /\ cl'[c].uid = uid /\ cl'[c].items = {}
         /\ cl'[c].pc = "discover" /\ cl'[c].idx = 1 /\ cl'[c].result = "none"
         /\ ns # NoNs => cl'[c].ns = ns
<1> DEFINE deleteNs == IF ns = NoNs THEN DefaultNs ELSE ns
           target == {o \in Selected(uid, deleteNs) : obj[o].phase = "live"}
           new == [IdleCleaner EXCEPT !.pc = "discover", !.uid = uid, !.ns = deleteNs,
                                      !.target = target]
<1>1. cl' = [cl EXCEPT ![c] = new] /\ cl[c].pc = "idle" /\ cl \in [Cleaner -> CleanerState]
  BY DEF StartCleanup, CleanupTypeOK
<1>2. deleteNs \in Ns /\ target \in SUBSET Object
  BY ClusterAssumption DEF Selected
<1>3. ns # NoNs => deleteNs = ns
  OBVIOUS
<1> HIDE DEF deleteNs, target
<1>4. /\ new.uid = uid /\ new.items = {} /\ new.ns = deleteNs
      /\ new.pc = "discover" /\ new.idx = 1 /\ new.result = "none"
      /\ new \in CleanerState
  BY <1>2 DEF IdleCleaner, CleanerState, CleanerPc
<1> HIDE DEF new
<1> QED BY <1>1, <1>3, <1>4

LEMMA DecideKeepsInv ==
  ASSUME RunInv, NEW u \in Active, Decide(u), CourseStep(u), asked' = asked
  PROVE  RunInv'
<1>1. u \in Run /\ SetupInv /\ u \in Cleaner /\ CleanupTypeOK
  BY PreflightAssumption, RunAssumption DEF RunInv
<1>2. /\ Placed(rn[u]) /\ PhaseOK(u) /\ ClusterTypeOK /\ cutMounted \subseteq Obj
      /\ rn \in [Run -> RunState] /\ rn[u] \in RunState
  BY <1>1, InvFacts
<1>3. /\ UNCHANGED <<clusterVars, classes, su, cutMounted>> /\ rn[u].k = 12
      /\ IF rn[u].status \/ rn[u].cleanFail THEN StartCleanup(u, u, RunNs[u]) ELSE cl' = cl
  BY ElevenChecks DEF Decide, setupVars, Deciding
<1>4. SetupInv'
  <2>1. ClusterTypeOK'
    BY <1>2, <1>3 DEF ClusterTypeOK, clusterVars
  <2> QED BY <1>1, <1>3, <2>1, SetupFrame DEF clusterVars
<1>5. PhaseOK(u)'
  BY <1>1, <1>2, <1>3, PhaseStays
<1>6. CASE cl' = cl
  BY <1>1, <1>2, <1>3, <1>4, <1>5, <1>6, CleanersStay, RunFrame DEF CleanupTypeOK
<1>7. CASE StartCleanup(u, u, RunNs[u]) /\ (rn[u].status \/ rn[u].cleanFail)
  <2>1. u \in Run \cup {NoUid} /\ RunNs[u] \in Ns \cup {NoNs} /\ RunNs[u] # NoNs
    BY <1>1, ClusterAssumption, CleanupAssumption
  <2>2. /\ cl' \in [Cleaner -> CleanerState]
        /\ \A d \in Cleaner \ {u} : cl'[d] = cl[d]
        /\ cl'[u].uid = u /\ cl'[u].items = {} /\ cl'[u].ns = RunNs[u]
    BY <1>1, <1>7, <2>1, StartFacts
  <2>3. /\ rn'[u].k = 13 /\ rn'[u].status = rn[u].status /\ rn'[u].cleanFail = rn[u].cleanFail
    <3>1. Decides(rn[u], rn'[u])
      <4>1. ~Checking(u)
        BY <1>3, ElevenChecks DEF Checking
      <4>2. ~Stays(rn[u], rn'[u])
        <5>1. rn'[u].k = IF rn[u].status \/ rn[u].cleanFail THEN Cleaning ELSE Returned
          BY <1>1, <1>2 DEF Decide, RunState
        <5> QED BY <1>3, <5>1, ElevenChecks DEF Stays, Cleaning, Returned
      <4> QED BY <1>3, <4>1, <4>2 DEF CourseStep, Returns
    <3> QED BY <1>2, <1>7, <3>1, EndingFacts DEF Decides
  <2>4. ASSUME NEW c \in Cleaner PROVE CleanerOK(c)'
    <3>1. CASE c = u
      BY <2>2, <2>3, <1>7, <3>1 DEF CleanerOK
    <3>2. CASE c # u
      BY <2>2, <3>2, CleanersStay
    <3> QED BY <3>1, <3>2
  <2> QED BY <1>2, <1>3, <1>4, <1>5, <2>2, <2>4, RunFrame DEF CleanupTypeOK
<1> QED BY <1>3, <1>6, <1>7

LEMMA RunKeeps ==
  ASSUME RunInv, NEW u \in Active, RunNext(u), asked' = asked
  PROVE  RunInv' /\ CourseStep(u)
<1>1. u \in Run
  BY PreflightAssumption
<1>2. CourseStep(u)
  BY <1>1, InvFacts, RunSteps
<1>3. \/ Plain(u) \/ Decide(u) \/ BeginSetup(u) \/ EndSetup(u)
      \/ SetupNext(u) /\ UNCHANGED <<cl, runVars>>
  BY DEF RunNext, Plain
<1>4. CASE Plain(u)
  BY <1>2, <1>4, PlainKeeps
<1>5. CASE Decide(u)
  BY <1>2, <1>5, DecideKeepsInv
<1>6. CASE BeginSetup(u) \/ EndSetup(u) \/ (SetupNext(u) /\ UNCHANGED <<cl, runVars>>)
  BY <1>2, <1>6, SetupKeeps
<1> QED BY <1>2, <1>3, <1>4, <1>5, <1>6

(* What `preflight run` makes of the input file and the flags.              *)
LEMMA OptionsFacts ==
  ASSUME NEW in \in RunInputs
  PROVE  LET opt == Cmd!RunOptions(in.file, in.flags)
         IN  /\ opt.inCluster \in BOOLEAN /\ opt.cleanFail \in BOOLEAN
             /\ opt.snapshotClass \in UserClass \cup {NoClass}
             /\ opt.inCluster => "inCluster" \in DOMAIN in.flags /\ in.flags["inCluster"]
             /\ opt.cleanFail = IF "cleanFail" \in DOMAIN in.flags
                                THEN in.flags["cleanFail"] ELSE in.file["cleanFail"]
<1> DEFINE opt == Cmd!RunOptions(in.file, in.flags)
<1>1. /\ in.file.inCluster \in BOOLEAN
      /\ opt.inCluster \in BOOLEAN /\ opt.cleanFail \in BOOLEAN
      /\ opt.snapshotClass \in UserClass \cup {NoClass}
  BY PreflightAssumption
<1>2. /\ opt.inCluster = Cmd!InClusterOf(in.file, in.flags)
      /\ opt.cleanFail = Cmd!FlagOr(in.flags, "cleanFail", in.file.cleanFail)
  BY DEF Cmd!RunOptions
<1> HIDE DEF opt
<1>3. opt.inCluster => "inCluster" \in DOMAIN in.flags /\ in.flags["inCluster"]
  BY <1>1, <1>2 DEF Cmd!InClusterOf, Cmd!FlagOr
<1>4. opt.cleanFail = IF "cleanFail" \in DOMAIN in.flags
                      THEN in.flags["cleanFail"] ELSE in.file["cleanFail"]
  BY <1>2 DEF Cmd!FlagOr
<1>5. QED BY <1>1, <1>3, <1>4 DEF opt

(* A run starts with the options of its user.                               *)
LEMMA LaunchFacts ==
  ASSUME RunInv, NEW u \in Active, Launch(u)
  PROVE  /\ rn[u].k = 0 /\ rn'[u] \in RunState /\ rn' = [rn EXCEPT ![u] = rn'[u]]
         /\ rn'[u].k = 1 /\ rn'[u].step = 1 /\ rn'[u].verdict = "none"
         /\ rn'[u].outcome = [check \in Check |-> "todo"]
         /\ rn'[u].status = TRUE /\ rn'[u].storageOk = TRUE /\ rn'[u].skipClass = FALSE
         /\ rn'[u].inCluster => FlagGiven(u)
         /\ rn'[u].cleanFail <=> Asked(u, "cleanFail")
         /\ \E given \in UserClass \cup {NoClass} : su' = [su EXCEPT ![u] = InitSetup(given)]
         /\ UNCHANGED <<clusterVars, cl, classes, cutMounted>>
<1>1. u \in Run /\ asked[u] \in RunInputs /\ rn \in [Run -> RunState]
  BY PreflightAssumption DEF RunInv, AskedOK, RunTypeOK
<1> DEFINE opt == Cmd!RunOptions(asked[u].file, asked[u].flags)
<1>2. /\ opt.inCluster \in BOOLEAN /\ opt.cleanFail \in BOOLEAN
      /\ opt.snapshotClass \in UserClass \cup {NoClass}
      /\ opt.inCluster => FlagGiven(u)
      /\ opt.cleanFail = Asked(u, "cleanFail")
  BY <1>1, OptionsFacts DEF FlagGiven, Asked
<1>3. StartRun(u, opt)
  BY DEF Launch
<1> HIDE DEF opt
<1> DEFINE new == [IdleRun EXCEPT !.k = 1, !.inCluster = opt.inCluster, !.cleanFail = opt.cleanFail]
<1>4. /\ rn[u].k = 0 /\ rn' = [rn EXCEPT ![u] = new]
      /\ su' = [su EXCEPT ![u] = InitSetup(opt.snapshotClass)]
      /\ UNCHANGED <<clusterVars, cl, classes, cutMounted>>
  BY <1>3 DEF StartRun
<1>5. 1 \in 0..(NChecks + 3) /\ 0 \in 0..(MaxPolls - 1)
  BY ElevenChecks, RunAssumption
<1>6. /\ new.k = 1 /\ new.step = 1 /\ new.verdict = "none"
      /\ new.outcome = [check \in Check |-> "todo"]
      /\ new.status = TRUE /\ new.storageOk = TRUE /\ new.skipClass = FALSE
      /\ new.inCluster = opt.inCluster /\ new.cleanFail = opt.cleanFail
  BY DEF IdleRun
<1>7. new \in RunState
  BY <1>2, <1>5 DEF IdleRun, RunState
<1> HIDE DEF new
<1>8. rn'[u] = new
  BY <1>1, <1>4
<1> QED BY <1>2, <1>4, <1>6, <1>7, <1>8

LEMMA LaunchKeeps ==
  ASSUME RunInv, NEW u \in Active, Launch(u), asked' = asked
  PROVE  RunInv'
<1>1. /\ u \in Run /\ Active \subseteq Run /\ Cli \cap Run = {}
      /\ rn \in [Run -> RunState] /\ SetupInv /\ su \in [Run -> SetupState]
  BY PreflightAssumption DEF RunInv, RunTypeOK, SetupInv, SetupTypeOK
<1>2. /\ rn[u].k = 0 /\ rn'[u] \in RunState /\ rn' = [rn EXCEPT ![u] = rn'[u]]
      /\ rn'[u].k = 1 /\ rn'[u].step = 1 /\ rn'[u].verdict = "none"
      /\ rn'[u].outcome = [check \in Check |-> "todo"]
      /\ rn'[u].status = TRUE /\ rn'[u].storageOk = TRUE /\ rn'[u].skipClass = FALSE
      /\ rn'[u].inCluster => FlagGiven(u)
      /\ rn'[u].cleanFail <=> Asked(u, "cleanFail")
      /\ UNCHANGED <<clusterVars, cl, classes, cutMounted>>
  BY LaunchFacts
<1>3. PICK given \in UserClass \cup {NoClass} : su' = [su EXCEPT ![u] = InitSetup(given)]
  BY LaunchFacts
<1>4. \A v \in Run \ {u} : rn'[v] = rn[v] /\ su'[v] = su[v]
  BY <1>1, <1>2, <1>3
<1>5. su'[u] = InitSetup(given)
  BY <1>1, <1>3
<1>6. InitSetup(given) \in SetupState
  BY DEF InitSetup, SetupState
<1>7. SetupInv'
  <2>1. RunOK(u)'
    BY <1>5 DEF RunOK, OrderOK, PassedOK, CreatesOK, PromiseOK, InitSetup, CrdStep, ClassStep
  <2>2. ClusterTypeOK /\ SetupTypeOK /\ GeneratedOK
    BY <1>1 DEF SetupInv
  <2>3. ClusterTypeOK'
    BY <1>2, <2>2 DEF ClusterTypeOK, clusterVars
  <2>4. WorldStep /\ GeneratedOK' /\ Moves(u)
    BY <1>1, <1>2, <1>3, <1>4, <1>6, <2>2, <2>3 DEF WorldStep, GeneratedOK, Moves, clusterVars
  <2> QED BY <1>1, <2>1, <2>4, OneRunMoves
<1>8. Placed(rn'[u])
  <2>1. CheckOrder[1] \in Check
    BY ElevenChecks
  <2>2. 1 \in 1..Len(StepsOf[CheckOrder[1]])
    BY <2>1, StepFacts
  <2> QED BY <1>2, <2>2 DEF Placed
<1>9. FlowOK(rn'[u])
  BY <1>2, FreshFlow
<1>10. PhaseOK(u)'
  <2>1. "snapshotClass" \in Check
    BY ElevenChecks
  <2> QED BY <1>2, <1>5, <2>1 DEF PhaseOK, InitSetup, CrdStep, ClassStep
<1>11. \A v \in Run \ {u} : Placed(rn'[v]) /\ FlowOK(rn'[v]) /\ PhaseOK(v)'
  BY <1>4, InvFacts DEF PhaseOK
<1>12. ASSUME NEW v \in Active PROVE OptionsOK(v)'
  <2>1. FlagGiven(v)' = FlagGiven(v) /\ Asked(v, "cleanFail")' = Asked(v, "cleanFail")
    BY DEF FlagGiven, Asked
  <2>2. CASE v = u
    BY <1>2, <2>1, <2>2 DEF OptionsOK
  <2>3. CASE v # u
    <3>1. rn'[v] = rn[v] /\ OptionsOK(v)
      BY <1>1, <1>4, <2>3 DEF RunInv
    <3> QED BY <2>1, <3>1 DEF OptionsOK
  <2> QED BY <2>2, <2>3
<1>13. ASSUME NEW c \in Cleaner PROVE CleanerOK(c)'
  <2>1. CleanerOK(c) /\ Mine(c)' = Mine(c) /\ cl'[c] = cl[c] /\ Asked(c, "uid")' = Asked(c, "uid")
    BY <1>2 DEF RunInv, Mine, Asked
  <2>2. CASE c = u
    BY <1>1, <1>2, <2>1, <2>2 DEF CleanerOK
  <2>3. CASE c # u
    <3>1. c \in Active => rn'[c] = rn[c]
      BY <1>1, <1>4, <2>3
    <3> QED BY <2>1, <3>1 DEF CleanerOK
  <2> QED BY <2>2, <2>3
<1>14. CleanupTypeOK' /\ RunTypeOK' /\ AskedOK'
  BY <1>1, <1>2 DEF RunInv, CleanupTypeOK, RunTypeOK, AskedOK
<1> HIDE DEF CleanerOK
<1> QED BY <1>7, <1>8, <1>9, <1>10, <1>11, <1>12, <1>13, <1>14 DEF RunInv

(* A step that leaves the runs alone.                                       *)
LEMMA CleanersFrame ==
  ASSUME RunInv, asked' = asked, UNCHANGED <<crds, classes, su, rn>>,
         ClusterTypeOK', cutMounted' \subseteq Obj, cl' \in [Cleaner -> CleanerState],
         \A c \in Cleaner : CleanerOK(c)'
  PROVE  RunInv'
<1>1. SetupInv'
  BY SetupFrame DEF RunInv
<1>2. CleanupTypeOK' /\ RunTypeOK' /\ AskedOK'
  BY DEF RunInv, CleanupTypeOK, RunTypeOK, AskedOK
<1>3. \A u \in Run : Placed(rn'[u]) /\ FlowOK(rn'[u]) /\ PhaseOK(u)'
  BY DEF RunInv, PhaseOK
<1>4. \A u \in Active : OptionsOK(u)'
  BY DEF RunInv, OptionsOK, FlagGiven, Asked
<1> HIDE DEF CleanerOK
<1> QED BY <1>1, <1>2, <1>3, <1>4 DEF RunInv

(* What holds of a cleaner goes on to hold while it works for the same run. *)
LEMMA CleanerStays ==
  ASSUME RunInv, asked' = asked, rn' = rn, NEW c \in Cleaner,
         cl'[c].uid = cl[c].uid, cl'[c].ns = cl[c].ns,
         cl'[c].pc # "idle" => cl[c].pc # "idle",
         cl'[c].items \subseteq cl[c].items \cup ListedItems(c)
  PROVE  CleanerOK(c)'
<1>1. CleanerOK(c) /\ Mine(c)' = Mine(c)
  BY DEF RunInv, Mine
<1>2. \A it \in ListedItems(c) : it.o \in Mine(c)
  BY DEF ListedItems
<1>3. Asked(c, "uid")' = Asked(c, "uid")
  BY DEF Asked
<1> QED BY <1>1, <1>2, <1>3 DEF CleanerOK

LEMMA InvokeKeeps ==
  ASSUME RunInv, NEW c \in Cli, Invoke(c), asked' = asked
  PROVE  RunInv'
<1>1. c \in Cleaner /\ asked[c] \in CleanupInputs /\ c \notin Active
  BY PreflightAssumption DEF RunInv, AskedOK
<1> DEFINE opt == Cmd!CleanupOptions(asked[c].file, asked[c].flags)
<1>2. /\ StartCleanup(c, opt.uid, opt.ns) /\ ~Cmd!CleanupRefused(opt, Run)
      /\ UNCHANGED <<clusterVars, setupVars, runVars>>
  BY DEF Invoke
<1>3. opt.ns \in Ns \cup {NoNs}
  BY <1>1, PreflightAssumption
<1>4. opt.uid = Asked(c, "uid")
  BY DEF Cmd!CleanupOptions, Cmd!FlagOr, Asked
<1> HIDE DEF opt
<1>5. opt.uid \in Run \cup {NoUid}
  BY <1>2 DEF Cmd!CleanupRefused
<1>6. CleanupTypeOK
  BY DEF RunInv
<1>7. /\ cl' \in [Cleaner -> CleanerState] /\ \A d \in Cleaner \ {c} : cl'[d] = cl[d]
      /\ cl'[c].uid = opt.uid /\ cl'[c].items = {}
  BY <1>1, <1>2, <1>3, <1>5, <1>6, StartFacts
<1>8. UNCHANGED <<obj, crds, faults, classes, su, rn, cutMounted>>
  BY <1>2 DEF clusterVars, setupVars, runVars
<1>9. ClusterTypeOK' /\ cutMounted' \subseteq Obj
  BY <1>8 DEF RunInv, SetupInv, RunTypeOK, ClusterTypeOK
<1>10. ASSUME NEW d \in Cleaner PROVE CleanerOK(d)'
  <2>1. CASE d = c
    <3>1. Asked(c, "uid")' = Asked(c, "uid")
      BY DEF Asked
    <3> QED BY <1>4, <1>7, <2>1, <3>1 DEF CleanerOK
  <2>2. CASE d # c
    BY <1>7, <1>8, <2>2, CleanerStays
  <2> QED BY <2>1, <2>2
<1> HIDE DEF CleanerOK
<1> QED BY <1>7, <1>8, <1>9, <1>10, CleanersFrame

LEMMA CleanerStepKeeps ==
  ASSUME RunInv, NEW c \in Cleaner, CleanerStep(c), asked' = asked
  PROVE  RunInv'
<1>1. CleanerNext(c) /\ UNCHANGED <<classes, su, rn, cutMounted>>
  BY DEF CleanerStep, setupVars, runVars
<1>2. ClusterTypeOK /\ CleanupTypeOK /\ cutMounted \subseteq Obj
  BY DEF RunInv, SetupInv, RunTypeOK
<1>3. ClusterTypeOK' /\ CleanerKeeps(c) /\ crds' = crds
  BY <1>1, <1>2, CleanerSteps
<1>4. /\ cl' \in [Cleaner -> CleanerState]
      /\ \A d \in Cleaner \ {c} : cl'[d] = cl[d]
  BY <1>2, <1>3 DEF CleanerKeeps, CleanupTypeOK
<1>5. ASSUME NEW d \in Cleaner PROVE CleanerOK(d)'
  <2>1. CASE d = c
    BY <1>1, <1>3, <2>1, CleanerStays DEF CleanerKeeps
  <2>2. CASE d # c
    BY <1>1, <1>4, <2>2, CleanerStays
  <2> QED BY <2>1, <2>2
<1> HIDE DEF CleanerOK
<1> QED BY <1>1, <1>2, <1>3, <1>4, <1>5, CleanersFrame

LEMMA ClusterStepKeeps ==
  ASSUME RunInv, NEW o \in Obj, ClusterStep(o), asked' = asked
  PROVE  RunInv'
<1>1. ClusterTypeOK /\ RunTypeOK
  BY DEF RunInv, SetupInv
<1>2. ClusterTypeOK' /\ cutMounted' \subseteq Obj /\ UNCHANGED <<crds, cl, classes, su, rn>>
  BY <1>1, ClusterSteps DEF setupVars
<1>3. cl' \in [Cleaner -> CleanerState] /\ \A c \in Cleaner : CleanerOK(c)'
  BY <1>2, CleanerStays DEF RunInv, CleanupTypeOK
<1> HIDE DEF CleanerOK
<1> QED BY <1>2, <1>3, CleanersFrame

LEMMA NextRunInv == RunInv /\ [Next]_vars => RunInv'
<1> SUFFICES ASSUME RunInv, [Next]_vars PROVE RunInv'
  OBVIOUS
<1>1. CASE Next
  <2>1. asked' = asked
    BY <1>1 DEF Next
  <2>2. CASE \E u \in Active : Launch(u) \/ RunNext(u)
    BY <2>1, <2>2, LaunchKeeps, RunKeeps
  <2>3. CASE \E c \in Cli : Invoke(c)
    BY <2>1, <2>3, InvokeKeeps
  <2>4. CASE \E c \in Cleaner : CleanerStep(c)
    BY <2>1, <2>4, CleanerStepKeeps
  <2>5. CASE \E o \in Obj : ClusterStep(o)
    BY <2>1, <2>5, ClusterStepKeeps
  <2> QED BY <1>1, <2>2, <2>3, <2>4, <2>5 DEF Next
<1>2. CASE UNCHANGED vars
  <2>1. UNCHANGED <<obj, crds, faults, cl, classes, su, rn, cutMounted, asked>>
    BY <1>2 DEF vars
  <2>2. ClusterTypeOK' /\ cutMounted' \subseteq Obj /\ cl' \in [Cleaner -> CleanerState]
    BY <2>1 DEF RunInv, SetupInv, RunTypeOK, CleanupTypeOK, ClusterTypeOK
  <2>3. \A c \in Cleaner : CleanerOK(c)'
    BY <2>1, CleanerStays
  <2> HIDE DEF CleanerOK
  <2> QED BY <2>1, <2>2, <2>3, CleanersFrame
<1> QED BY <1>1, <1>2

LEMMA InitRunInv == Init => RunInv
<1> SUFFICES ASSUME Init PROVE RunInv
  OBVIOUS
<1>1. ClusterTypeOK
  <2>1. /\ \A o \in Object : /\ [Newborn(o) EXCEPT !.ready = TRUE] \in ObjState
                             /\ Absent \in ObjState
    BY DEF Newborn, Absent, ObjState, Phase
  <2>2. obj \in [Object -> ObjState]
    BY <2>1 DEF Init
  <2>3. crds \subseteq Crd /\ faults \in 0..MaxFaults
    BY ClusterAssumption, PreflightAssumption DEF Init
  <2> QED BY <2>2, <2>3 DEF ClusterTypeOK
<1>2. SetupInv
  <2>1. \A u \in Run : su[u] = InitSetup(NoClass)
    BY DEF Init
  <2>2. \A u \in Run : su[u] \in SetupState /\ RunOK(u)
    BY <2>1, FreshRun
  <2>3. su \in [Run -> SetupState]
    BY <2>2 DEF Init
  <2>4. classes \subseteq Class /\ GeneratedOK
    BY ClassAssumption, PreflightAssumption DEF Init, Class, GeneratedOK
  <2> QED BY <1>1, <2>2, <2>3, <2>4 DEF SetupInv, SetupTypeOK
<1>3. CleanupTypeOK
  <2>1. IdleCleaner \in CleanerState
    BY ClusterAssumption DEF IdleCleaner, CleanerState, CleanerPc
  <2> QED BY <2>1 DEF Init, CleanupTypeOK
<1>4. IdleRun \in RunState
  <2>1. 0 \in 0..(NChecks + 3) /\ 0 \in 0..(MaxPolls - 1)
    BY ElevenChecks, RunAssumption
  <2> QED BY <2>1 DEF IdleRun, RunState
<1>5. RunTypeOK
  BY <1>4 DEF Init, RunTypeOK
<1>6. AskedOK
  <2>1. PICK run \in [Active -> RunInputs], cleanup \in [Cli -> CleanupInputs] :
          asked = [p \in Active \cup Cli |-> IF p \in Active THEN run[p] ELSE cleanup[p]]
    BY DEF Init
  <2>2. \A u \in Active : asked[u] = run[u]
    BY <2>1
  <2>3. \A c \in Cli : c \notin Active /\ asked[c] = cleanup[c]
    BY <2>1, PreflightAssumption
  <2> QED BY <2>2, <2>3 DEF AskedOK
<1>7. ASSUME NEW u \in Run PROVE Placed(rn[u]) /\ FlowOK(rn[u]) /\ PhaseOK(u)
  <2>1. rn[u] = IdleRun /\ su[u] = InitSetup(NoClass)
    BY DEF Init
  <2>2. /\ rn[u].outcome = [check \in Check |-> "todo"] /\ rn[u].k = 0 /\ rn[u].verdict = "none"
        /\ rn[u].status = TRUE /\ rn[u].storageOk = TRUE /\ rn[u].skipClass = FALSE
    BY <2>1 DEF IdleRun
  <2>3. "snapshotClass" \in Check
    BY ElevenChecks
  <2>4. PhaseOK(u)
    BY <2>1, <2>2, <2>3 DEF PhaseOK, InitSetup, CrdStep, ClassStep
  <2>5. rn[u] \in RunState /\ rn[u].k \notin 1..11 /\ rn[u].k \in {0, 1}
    BY <1>4, <2>1, <2>2
  <2>6. Placed(rn[u])
    BY <2>5 DEF Placed
  <2>7. FlowOK(rn[u])
    BY <2>2, <2>5, FreshFlow
  <2> QED BY <2>4, <2>6, <2>7
<1>8. ASSUME NEW u \in Active PROVE OptionsOK(u)
  <2>1. rn[u] = IdleRun
    BY PreflightAssumption DEF Init
  <2> QED BY <2>1 DEF OptionsOK, IdleRun
<1>9. ASSUME NEW c \in Cleaner PROVE CleanerOK(c)
  <2>1. cl[c] = IdleCleaner
    BY DEF Init
  <2> QED BY <2>1 DEF CleanerOK, IdleCleaner
<1> HIDE DEF CleanerOK
<1> QED BY <1>2, <1>3, <1>5, <1>6, <1>7, <1>8, <1>9 DEF RunInv
-----------------------------------------------------------------------------
(***************************************************************************)
(* The theorems.                                                            *)
(***************************************************************************)

(* The inductive invariant holds in every reachable state.                  *)
THEOREM RunInvHolds == Spec => []RunInv
<1> QED BY InitRunInv, NextRunInv, PTL DEF Spec

(* The cluster, the cleaners, the setup checks and the runs have their      *)
(* types, whatever the runs and the commands were asked for.                *)
THEOREM TypesHold == Spec => []TypeOK
<1>1. RunInv => TypeOK
  BY DEF RunInv, SetupInv, TypeOK
<1> QED BY <1>1, RunInvHolds, PTL

(* performPreflightChecks leaves the checks of the binaries out only if the *)
(* user has asked for it, where a flag counts before the input file.        *)
THEOREM BinariesSkippedOnlyIfAskedHolds == Spec => []BinariesSkippedOnlyIfAsked
<1>1. RunInv => BinariesSkippedOnlyIfAsked
  <2> SUFFICES ASSUME RunInv, NEW u \in Active,
                      "skipped" \in {rn[u].outcome["kubectl"], rn[u].outcome["helm"]}
               PROVE  Asked(u, "inCluster")
    BY DEF BinariesSkippedOnlyIfAsked
  <2>1. ToolsOK(rn[u]) /\ OptionsOK(u)
    BY PreflightAssumption DEF RunInv, FlowOK
  <2>2. FlagGiven(u)
    BY <2>1 DEF ToolsOK, OptionsOK
  <2> QED BY <2>2 DEF FlagGiven, Asked
<1> QED BY <1>1, RunInvHolds, PTL

(* A run that fails does not clean up unless its user asked for it.         *)
THEOREM FailedRunIsKeptHolds == Spec => []FailedRunIsKept
<1>1. RunInv => FailedRunIsKept
  <2> SUFFICES ASSUME RunInv, NEW u \in Active, rn[u].verdict = "failed", ~Asked(u, "cleanFail"),
                      cl[u].pc # "idle"
               PROVE  FALSE
    BY DEF FailedRunIsKept
  <2>1. u \in Cleaner /\ u \in Run /\ u \notin Cli
    BY PreflightAssumption, RunAssumption
  <2>2. rn[u].k >= 13 /\ (rn[u].status \/ rn[u].cleanFail)
    BY <2>1 DEF RunInv, CleanerOK
  <2>3. ~rn[u].status
    BY <2>1 DEF RunInv, FlowOK, VerdictOK
  <2>4. rn[u].k > 0 => (rn[u].cleanFail <=> Asked(u, "cleanFail"))
    BY DEF RunInv, OptionsOK
  <2>5. rn[u].k \in 0..14
    BY <2>1, InvFacts, ElevenChecks DEF RunState
  <2> QED BY <2>2, <2>3, <2>4, <2>5
<1> QED BY <1>1, RunInvHolds, PTL

(* Nothing but the step of a run changes what the contract is about, and a  *)
(* run that starts shows nothing of it.                                     *)
LEMMA StepKeepsContract ==
  ASSUME RunInv, [Next]_vars
  PROVE  Contract!Next \/ UNCHANGED <<Outcomes, Verdicts>>
<1>1. ASSUME rn' = rn PROVE UNCHANGED <<Outcomes, Verdicts>>
  BY <1>1 DEF Outcomes, Verdicts
<1>2. CASE UNCHANGED vars
  BY <1>1, <1>2 DEF vars
<1>3. ASSUME NEW u \in Active, RunNext(u)
      PROVE  Contract!Next \/ UNCHANGED <<Outcomes, Verdicts>>
  <2>1. u \in Run
    BY PreflightAssumption
  <2>2. /\ Placed(rn[u]) /\ FlowOK(rn[u]) /\ rn \in [Run -> RunState] /\ ClusterTypeOK
    BY <2>1, InvFacts
  <2>3. CourseStep(u)
    BY <1>3, <2>1, <2>2, RunSteps
  <2> QED BY <2>1, <2>2, <2>3, CourseKeeps
<1>4. ASSUME NEW u \in Active, Launch(u) PROVE UNCHANGED <<Outcomes, Verdicts>>
  <2>1. u \in Run
    BY PreflightAssumption
  <2>2. FlowOK(rn[u]) /\ rn[u] \in RunState
    BY <2>1, InvFacts
  <2>3. /\ rn[u].k = 0 /\ rn' = [rn EXCEPT ![u] = rn'[u]]
        /\ rn'[u].outcome = [check \in Check |-> "todo"] /\ rn'[u].verdict = "none"
    BY <1>4, LaunchFacts
  <2>4. \A check \in Check : rn[u].outcome[check] = "todo"
    <3>1. \A i \in 1..11 : rn[u].outcome[CheckOrder[i]] = "todo"
      BY <2>2, <2>3 DEF FlowOK, OrderlyOK
    <3> QED BY <3>1, ElevenChecks DEF Check
  <2>5. rn[u].outcome = [check \in Check |-> "todo"]
    BY <2>2, <2>4 DEF RunState
  <2>6. rn[u].verdict = "none"
    BY <2>2, <2>3 DEF FlowOK, VerdictOK
  <2>7. rn \in [Run -> RunState]
    BY DEF RunInv, RunTypeOK
  <2>8. \A v \in Run : rn'[v].outcome = rn[v].outcome /\ rn'[v].verdict = rn[v].verdict
    BY <2>3, <2>5, <2>6, <2>7
  <2> QED BY <2>8 DEF Outcomes, Verdicts
<1>5. CASE \E c \in Cli : Invoke(c)
  BY <1>1, <1>5 DEF Invoke, runVars
<1>6. CASE \E c \in Cleaner : CleanerStep(c)
  BY <1>1, <1>6 DEF CleanerStep, runVars
<1>7. CASE \E o \in Obj : ClusterStep(o)
  <2>1. rn' = rn
    BY <1>7, ClusterSteps DEF RunInv, SetupInv
  <2> QED BY <1>1, <2>1
<1> QED BY <1>2, <1>3, <1>4, <1>5, <1>6, <1>7 DEF Next

(* PerformPreflightChecks keeps the contract of PreflightContract: the      *)
(* specification of the whole system implements it.                         *)
THEOREM KeepsContractHolds == Spec => KeepsContract
<1>1. Init => Contract!Init
  <2> SUFFICES ASSUME Init PROVE Contract!Init
    OBVIOUS
  <2>1. \A u \in Run : rn[u].outcome = [check \in Check |-> "todo"] /\ rn[u].verdict = "none"
    BY DEF Init, IdleRun
  <2>2. /\ [u \in Run |-> rn[u].outcome] = [u \in Run |-> [check \in Check |-> "todo"]]
        /\ [u \in Run |-> rn[u].verdict] = [u \in Run |-> "none"]
    BY <2>1
  <2>3. [u \in Run |-> rn[u].outcome] = [u \in Run |-> [check \in Contract!Check |-> "todo"]]
    BY <2>2, SameChecks
  <2> QED BY <2>2, <2>3 DEF Contract!Init
<1>2. RunInv /\ [Next]_vars => [Contract!Next]_<<Outcomes, Verdicts>>
  BY StepKeepsContract
<1>3. RunInv /\ [Next]_vars
        => [Contract!Next]_<<[u \in Run |-> rn[u].outcome], [u \in Run |-> rn[u].verdict]>>
  BY <1>2 DEF Outcomes, Verdicts
<1> QED BY <1>1, <1>3, RunInvHolds, PTL DEF Spec, KeepsContract, Contract!Spec
=============================================================================
