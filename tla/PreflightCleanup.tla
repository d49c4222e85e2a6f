-------------------------- MODULE PreflightCleanup --------------------------
(***************************************************************************)
(* Cleanup.CleanupPreflightResources of tools/preflight/cleanup.go, with    *)
(* deleteK8sResource and removeFinalizer of helper.go.                      *)
(*                                                                         *)
(* A cleaner is one call of it: `preflight cleanup`, or the call a          *)
(* preflight run makes at its end.  Every API call is a step of its own, so *)
(* that the controllers, the creators of objects and other cleaners act     *)
(* between the listing of a kind and the deletion of its objects, and       *)
(* between the three calls that delete one object.                          *)
(***************************************************************************)
EXTENDS Cluster

CONSTANTS
  Cleaner,      (* The calls of CleanupPreflightResources.                   *)
  NoUid,        (* The empty --uid.                                          *)
  NoNs,         (* The empty namespace.                                      *)
  NoObj,        (* No object is being deleted.                               *)
  NVersions     (* Versions in which the snapshot API group is served.       *)

ASSUME CleanupAssumption ==
  /\ NoUid \notin Run
  /\ NoNs \notin Ns
  /\ NoObj \notin Object
  /\ NVersions \in Nat \ {0}

VARIABLE
  cl            (* The local state of every cleaner.                         *)

CleanerPc == {"idle", "discover", "list", "items", "get", "patch", "done"}

Item == [o : Object, fin : BOOLEAN]

(***************************************************************************)
(* vers, idx: the served versions found and the position in the GVK list;   *)
(* items: the listed objects still to delete; ok: allSuccess.  target and   *)
(* strip only record history, for the properties: the selected objects that *)
(* were live when the cleaner started, and those it listed with finalizers. *)
(***************************************************************************)
CleanerState ==
  [pc     : CleanerPc,
   uid    : Run \cup {NoUid},
   ns     : Ns,
   vers   : Nat,
   idx    : Nat,
   items  : SUBSET Item,
   cur    : Object \cup {NoObj},
   ok     : BOOLEAN,
   result : {"none", "nil", "error"},
   target : SUBSET Object,
   strip  : SUBSET Object]

IdleCleaner ==
  [pc |-> "idle", uid |-> NoUid, ns |-> DefaultNs, vers |-> 0, idx |-> 1,
   items |-> {}, cur |-> NoObj, ok |-> TRUE, result |-> "none",
   target |-> {}, strip |-> {}]
-----------------------------------------------------------------------------
(* Mutant of Selected: the label preflight-run is left out of the selector. *)
SelectsAllRuns(uid, ns) == {o \in Object : HasTrilioLabel(o) /\ NsOf(o) = ns}

(* The objects that the labels and the namespace of a call select.          *)
Selected(uid, ns) ==
  {o \in Object : /\ HasTrilioLabel(o)
                  /\ NsOf(o) = ns
                  /\ uid = NoUid \/ RunLabel(o) = [index |-> "", uid |-> uid]}

Mine(c) == Selected(cl[c].uid, cl[c].ns)

(* Mutant of GvkList: the pods are left out.                                *)
GvkSkipsPods(vers) == [i \in 1..(vers + 2) |-> IF i <= vers THEN "VolumeSnapshot" ELSE "PVC"]

(* getCleanupResourceGVKList: snapshots once per served version, then the   *)
(* claims, then the pods.                                                   *)
GvkList(vers) == [i \in 1..(vers + 2) |-> IF i <= vers     THEN "VolumeSnapshot"
                                          ELSE IF i = vers + 1 THEN "PVC"
                                          ELSE "Pod"]

LastGvk(c) == cl[c].vers + 2

(* The group is discovered as soon as one of its CRDs is installed.         *)
ServedVersions == IF crds = {} THEN 0 ELSE NVersions

(* Listing a kind whose CRD is missing fails.                               *)
Listable(kind) == kind = "VolumeSnapshot" => "snapshots" \in crds

ListedItems(c) ==
  {[o |-> o, fin |-> obj[o].fin] :
     o \in {p \in Mine(c) : KindOf(p) = GvkList(cl[c].vers)[cl[c].idx] /\ Present(p)}}

(* The items are taken in the order of the list, which is some fixed order. *)
NextItem(c) == CHOOSE it \in cl[c].items : TRUE

AtItem(c) == cl[c].pc = "items" /\ cl[c].items # {}
-----------------------------------------------------------------------------
(* CleanupPreflightResources is called with a UID or none and a namespace   *)
(* or none; without a namespace it works in the default one.                *)
StartCleanup(c, uid, ns) ==
  LET deleteNs == IF ns = NoNs THEN DefaultNs ELSE ns
  IN  /\ cl[c].pc = "idle"
      /\ cl' = [cl EXCEPT ![c] =
                  [IdleCleaner EXCEPT
                     !.pc = "discover", !.uid = uid, !.ns = deleteNs,
                     !.target = {o \in Selected(uid, deleteNs) : obj[o].phase = "live"}]]

Discover(c) ==
  /\ cl[c].pc = "discover"
  /\ cl' = [cl EXCEPT ![c].pc = "list", ![c].vers = ServedVersions]
  /\ UNCHANGED clusterVars

(* Without the list of kinds the call returns the error at once.            *)
DiscoverFails(c) ==
  /\ cl[c].pc = "discover" /\ Fault
  /\ cl' = [cl EXCEPT ![c].pc = "done", ![c].result = "error"]
  /\ UNCHANGED <<obj, crds>>

List(c) ==
  /\ cl[c].pc = "list" /\ cl[c].idx <= LastGvk(c)
  /\ Listable(GvkList(cl[c].vers)[cl[c].idx])
  /\ cl' = [cl EXCEPT ![c].pc = "items",
                      ![c].items = ListedItems(c),
                      ![c].strip = @ \cup {it.o : it \in {i \in ListedItems(c) : i.fin}}]
  /\ UNCHANGED clusterVars

(* A kind that cannot be listed is skipped and the failure remembered.      *)
ListFails(c) ==
  /\ cl[c].pc = "list" /\ cl[c].idx <= LastGvk(c)
  /\ \/ Fault
     \/ ~Listable(GvkList(cl[c].vers)[cl[c].idx]) /\ UNCHANGED faults
  /\ cl' = [cl EXCEPT ![c].idx = @ + 1, ![c].ok = FALSE]
  /\ UNCHANGED <<obj, crds>>

(* Mutant of NextKind: the index moves on twice.                            *)
SkipsKind(c) ==
  /\ cl[c].pc = "items" /\ cl[c].items = {}
  /\ cl' = [cl EXCEPT ![c].pc = "list", ![c].idx = @ + 2]
  /\ UNCHANGED clusterVars

NextKind(c) ==
  /\ cl[c].pc = "items" /\ cl[c].items = {}
  /\ cl' = [cl EXCEPT ![c].pc = "list", ![c].idx = @ + 1]
  /\ UNCHANGED clusterVars

(* Mutant of DeleteThenStrip: the object is deleted and its finalizers kept.*)
NeverStrips(c, it) ==
  /\ obj' = Deleted(it.o)
  /\ cl' = [cl EXCEPT ![c].items = @ \ {it}]

(* DELETE, with the grace period, of a listed object.  The finalizers that  *)
(* decide what follows are those it had when it was listed.                 *)
DeleteThenStrip(c, it) ==
  /\ obj' = Deleted(it.o)
  /\ cl' = IF it.fin
           THEN [cl EXCEPT ![c].items = @ \ {it}, ![c].pc = "get", ![c].cur = it.o]
           ELSE [cl EXCEPT ![c].items = @ \ {it}]

DeleteItem(c) ==
  /\ AtItem(c) /\ Present(NextItem(c).o)
  /\ DeleteThenStrip(c, NextItem(c))
  /\ UNCHANGED <<crds, faults>>

(* Mutant of DeleteItemMissing: an object that is gone is tried again.      *)
RetriesMissing(c) ==
  /\ AtItem(c) /\ ~Present(NextItem(c).o)
  /\ UNCHANGED <<clusterVars, cl>>

(* An object that is gone by now counts as deleted.                         *)
DeleteItemMissing(c) ==
  /\ AtItem(c) /\ ~Present(NextItem(c).o)
  /\ cl' = [cl EXCEPT ![c].items = @ \ {NextItem(c)}]
  /\ UNCHANGED clusterVars

(* Mutant of RemembersFailure: allSuccess is not reset.                     *)
ForgetsFailure(c, it) == cl' = [cl EXCEPT ![c].items = @ \ {it}]

(* Any error but NotFound is remembered, and the loop goes on.              *)
RemembersFailure(c, it) == cl' = [cl EXCEPT ![c].items = @ \ {it}, ![c].ok = FALSE]

DeleteItemFails(c) ==
  /\ AtItem(c) /\ Fault
  /\ RemembersFailure(c, NextItem(c))
  /\ UNCHANGED <<obj, crds>>

(* The object is deleted, but the answer is lost: an error, all the same.   *)
DeleteAnswerLost(c) ==
  /\ AtItem(c) /\ Present(NextItem(c).o) /\ Fault
  /\ obj' = Deleted(NextItem(c).o)
  /\ RemembersFailure(c, NextItem(c))
  /\ UNCHANGED crds

(* deleteK8sResource has returned; failed says whether with an error other  *)
(* than NotFound.                                                           *)
ItemDone(c, failed) ==
  cl' = [cl EXCEPT ![c].pc = "items", ![c].cur = NoObj, ![c].ok = @ /\ ~failed]

(* removeFinalizer fetches the latest object...                             *)
GetLatest(c) ==
  /\ cl[c].pc = "get" /\ Present(cl[c].cur)
  /\ cl' = [cl EXCEPT ![c].pc = "patch"]
  /\ UNCHANGED clusterVars

(* ...and patches its finalizers away.                                      *)
PatchFinalizers(c) ==
  /\ cl[c].pc = "patch" /\ Present(cl[c].cur) /\ obj[cl[c].cur].fin
  /\ obj' = Stripped(cl[c].cur)
  /\ ItemDone(c, FALSE)
  /\ UNCHANGED <<crds, faults>>

StripMissing(c) ==
  /\ cl[c].pc \in {"get", "patch"} /\ ~Present(cl[c].cur)
  /\ ItemDone(c, FALSE)
  /\ UNCHANGED clusterVars

(* The patch removes a path: on an object whose finalizers a controller has *)
(* taken off in the meantime it is rejected as invalid.                     *)
PatchInvalid(c) ==
  /\ cl[c].pc = "patch" /\ Present(cl[c].cur) /\ ~obj[cl[c].cur].fin
  /\ ItemDone(c, TRUE)
  /\ UNCHANGED clusterVars

StripFails(c) ==
  /\ cl[c].pc \in {"get", "patch"} /\ Fault
  /\ ItemDone(c, TRUE)
  /\ UNCHANGED <<obj, crds>>

(* The finalizers are taken away, but the answer is lost.                   *)
PatchAnswerLost(c) ==
  /\ cl[c].pc = "patch" /\ Present(cl[c].cur) /\ obj[cl[c].cur].fin /\ Fault
  /\ obj' = Stripped(cl[c].cur)
  /\ ItemDone(c, TRUE)
  /\ UNCHANGED crds

Finish(c) ==
  /\ cl[c].pc = "list" /\ cl[c].idx > LastGvk(c)
  /\ cl' = [cl EXCEPT ![c].pc = "done",
                      ![c].result = IF cl[c].ok THEN "nil" ELSE "error"]
  /\ UNCHANGED clusterVars

CleanerNext(c) ==
  \/ Discover(c) \/ DiscoverFails(c)
  \/ List(c) \/ ListFails(c) \/ NextKind(c)
  \/ DeleteItem(c) \/ DeleteItemMissing(c) \/ DeleteItemFails(c) \/ DeleteAnswerLost(c)
  \/ GetLatest(c) \/ PatchFinalizers(c) \/ PatchInvalid(c)
  \/ PatchAnswerLost(c) \/ StripMissing(c) \/ StripFails(c)
  \/ Finish(c)

CleanupTypeOK == cl \in [Cleaner -> CleanerState]
=============================================================================
