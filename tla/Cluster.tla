------------------------------ MODULE Cluster ------------------------------
(***************************************************************************)
(* The Kubernetes cluster as the preflight plugin sees it: the objects the  *)
(* plugin creates, the labels by which it finds them again, the API calls   *)
(* it makes and the controllers that act behind its back.                   *)
(*                                                                         *)
(* Names and labels are translated from tools/preflight/helper.go.  The API *)
(* server, the kubelet, the snapshot controller and the PVC protection      *)
(* controller are external: they are modelled from how the plugin uses      *)
(* them.  Watches, resource versions and images are left out.               *)
(***************************************************************************)
EXTENDS Naturals, FiniteSets

CONSTANTS
  Run,          (* The UIDs of preflight runs (CreateResourceNameSuffix).    *)
  Foreign,      (* Pods of other programs in the default namespace.          *)
  Ns,           (* Namespaces.                                               *)
  DefaultNs,    (* internal.DefaultNs.                                       *)
  RunNs,        (* The namespace each run was told to use (o.Namespace).     *)
  AdmissionFin, (* Roles whose objects get a finalizer when they are created.*)
  Linger,       (* Bound: roles whose objects may stay on while being deleted.*)
  MaxFaults     (* Bound: how many API calls fail for reasons of their own.  *)

VARIABLES
  obj,          (* The phase, finalizer and readiness of every object name.  *)
  crds,         (* The VolumeSnapshot CRDs that are installed.               *)
  faults        (* API calls that have failed so far.                        *)

clusterVars == <<obj, crds, faults>>
-----------------------------------------------------------------------------
(***************************************************************************)
(* Objects.  A run names each object by a role prefix and its UID, so an    *)
(* object is identified by the run and the role it plays in it.             *)
(***************************************************************************)

CapRole  == {"cap0", "cap1", "cap2"}
PodRole  == CapRole \cup {"dns", "srcPod", "restorePod", "unmntPod"}
PvcRole  == {"srcPvc", "restorePvc", "unmntPvc"}
SnapRole == {"snap", "unmntSnap"}
Role     == PodRole \cup PvcRole \cup SnapRole

Obj    == [run : Run, role : Role]
Object == Obj \cup Foreign

Crd == {"classes", "contents", "snapshots"}

ASSUME ClusterAssumption ==
  /\ Foreign \cap Obj = {}
  /\ DefaultNs \in Ns
  /\ RunNs \in [Run -> Ns]
  /\ AdmissionFin \subseteq Role
  /\ Linger \subseteq Role
  /\ MaxFaults \in Nat

KindOf(o) == IF o \in Foreign          THEN "Pod"
             ELSE IF o.role \in PodRole THEN "Pod"
             ELSE IF o.role \in PvcRole THEN "PVC"
             ELSE "VolumeSnapshot"

NsOf(o) == IF o \in Foreign THEN DefaultNs ELSE RunNs[o.run]

(* The value of the label preflight-run.  A capability pod is labelled with *)
(* the suffix of its name, which has the index of the case before the UID.  *)
RunLabel(o) == [index |-> IF o.role \in CapRole THEN o.role ELSE "", uid |-> o.run]

(* Foreign objects carry none of getPreflightResourceLabels.                *)
HasTrilioLabel(o) == o \notin Foreign

(* The claim a pod of the volume snapshot check mounts.                     *)
ClaimOf(role) == CASE role = "srcPod"     -> "srcPvc"
                   [] role = "restorePod" -> "restorePvc"
                   [] role = "unmntPod"   -> "unmntPvc"
                   [] OTHER               -> "none"
-----------------------------------------------------------------------------
(***************************************************************************)
(* Object states.  A name never comes back: UIDs are random and a run       *)
(* creates each name once, so a deleted object is gone for good.            *)
(***************************************************************************)

Phase    == {"absent", "live", "dying", "gone"}
ObjState == [phase : Phase, fin : BOOLEAN, ready : BOOLEAN]

Absent == [phase |-> "absent", fin |-> FALSE, ready |-> FALSE]
Gone   == [phase |-> "gone",   fin |-> FALSE, ready |-> FALSE]

Newborn(o) == [phase |-> "live", ready |-> FALSE,
               fin   |-> o \notin Foreign /\ o.role \in AdmissionFin]

Present(o) == obj[o].phase \in {"live", "dying"}

(* DELETE marks an object with finalizers, and a pod with a grace period,   *)
(* for deletion; any other object is removed at once, and so is one that    *)
(* its kubelet or its controllers let go without delay.                     *)
Lingers(o) == o \in Foreign \/ o.role \in Linger

Deleted(o) == IF Lingers(o) /\ (obj[o].fin \/ KindOf(o) = "Pod")
              THEN [obj EXCEPT ![o].phase = "dying"]
              ELSE [obj EXCEPT ![o] = Gone]

(* Taking the last finalizer off an object marked for deletion removes it,  *)
(* except a pod, which stays until the kubelet has stopped it.              *)
Stripped(o) == IF obj[o].phase = "dying" /\ KindOf(o) # "Pod"
               THEN [obj EXCEPT ![o] = Gone]
               ELSE [obj EXCEPT ![o].fin = FALSE]

(* One more API call fails: a lost connection, a denied request, a conflict.*)
Fault == faults < MaxFaults /\ faults' = faults + 1
-----------------------------------------------------------------------------
(***************************************************************************)
(* What happens in the cluster while the plugin works.                      *)
(***************************************************************************)

ClaimPresent(o) ==
  LET claim == ClaimOf(o.role)
  IN  claim # "none" => Present([run |-> o.run, role |-> claim])

PodBecomesReady(o) ==
  /\ KindOf(o) = "Pod" /\ obj[o].phase = "live" /\ ~obj[o].ready
  /\ ClaimPresent(o)
  /\ obj' = [obj EXCEPT ![o].ready = TRUE]
  /\ UNCHANGED <<crds, faults>>

(* The snapshot controller protects a snapshot with finalizers of its own   *)
(* (seen only on one that lingers: another is let go at once anyway).       *)
ControllerGuards(o) ==
  /\ Lingers(o) /\ KindOf(o) = "VolumeSnapshot" /\ obj[o].phase = "live" /\ ~obj[o].fin
  /\ obj' = [obj EXCEPT ![o].fin = TRUE]
  /\ UNCHANGED <<crds, faults>>

(* No pod of the run that mounts the claim is left.                         *)
Unused(o) == \A r \in PodRole : ClaimOf(r) = o.role => ~Present([run |-> o.run, role |-> r])

(* The controller that owns a finalizer takes it off a dying object; the    *)
(* protection of a claim waits until no pod uses the claim.                 *)
ControllerReleases(o) ==
  /\ obj[o].phase = "dying" /\ obj[o].fin
  /\ KindOf(o) = "PVC" => Unused(o)
  /\ obj' = Stripped(o)
  /\ UNCHANGED <<crds, faults>>

(* A pod marked for deletion is stopped and, with no finalizer left, gone.  *)
KubeletStops(o) ==
  /\ KindOf(o) = "Pod" /\ obj[o].phase = "dying" /\ ~obj[o].fin
  /\ obj' = [obj EXCEPT ![o] = Gone]
  /\ UNCHANGED <<crds, faults>>

ClusterTypeOK ==
  /\ obj \in [Object -> ObjState]
  /\ crds \subseteq Crd
  /\ faults \in 0..MaxFaults
=============================================================================
