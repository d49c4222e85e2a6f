---------------------------- MODULE CleanupProofs ----------------------------
(***************************************************************************)
(* Proofs about CleanupSystem, for any number of cleaners, runs, objects,   *)
(* namespaces, served versions and failures: the inductive invariant        *)
(* CleanupInv and the safety properties it implies.                         *)
(*                                                                         *)
(* A step of the system either is a step of one cleaner, or leaves every    *)
(* cleaner alone.  What the others may rely on is ObjStep, the only ways in *)
(* which an object changes; every step is first shown to be an ObjStep, and *)
(* the parts of the invariant about the cleaners that do not move follow    *)
(* from it once and for all (lemma Bystander).                              *)
(***************************************************************************)
EXTENDS CleanupSystem, TLAPS

(* What CleanupInv says of one cleaner.                                     *)
CleanerOK(c) == ControlOK(c) /\ ScopeOK(c) /\ TargetsOK(c) /\ StripsOK(c)

(* An object never returns to an earlier phase, and gets a finalizer only   *)
(* while it is live.                                                        *)
ObjStep ==
  \A o \in Object :
    /\ obj[o].phase # "absent" => obj'[o].phase # "absent"
    /\ obj[o].phase \in {"dying", "gone"} => obj'[o].phase \in {"dying", "gone"}
    /\ obj'[o].fin => obj[o].fin \/ obj'[o].phase = "live"
-----------------------------------------------------------------------------
(* The phase of an object is one of the four.                               *)
LEMMA PhaseCases ==
  ASSUME TypeOK, NEW o \in Object
  PROVE  /\ obj[o] \in ObjState
         /\ obj[o].phase \in {"absent", "live", "dying", "gone"}
         /\ obj[o].fin \in BOOLEAN
BY DEF TypeOK, ClusterTypeOK, ObjState, Phase

(* The next item of a list that is not empty is on the list.                *)
LEMMA NextItemListed ==
  ASSUME NEW c \in Cleaner, TypeOK, AtItem(c)
  PROVE  /\ NextItem(c) \in cl[c].items
         /\ NextItem(c).o \in Object
         /\ NextItem(c).fin \in BOOLEAN
<1>1. NextItem(c) \in cl[c].items
  BY DEF AtItem, NextItem
<1>2. cl[c].items \in SUBSET Item
  BY DEF TypeOK, CleanupTypeOK, CleanerState
<1> QED BY <1>1, <1>2 DEF Item

(* DELETE of a present object: it is dying or gone, and no other changes.   *)
LEMMA DeletedObjects ==
  ASSUME TypeOK, ObjectsOK, NEW x \in Object, Present(x),
         obj' = Deleted(x), crds' = crds
  PROVE  /\ obj' \in [Object -> ObjState]
         /\ ObjectsOK'
         /\ ObjStep
         /\ obj'[x].phase \in {"dying", "gone"}
         /\ \A o \in Object \ {x} : obj'[o] = obj[o]
<1>1. obj \in [Object -> ObjState]
  BY DEF TypeOK, ClusterTypeOK
<1>2. Gone \in ObjState
  BY DEF Gone, ObjState, Phase
<1>3. \/ obj' = [obj EXCEPT ![x].phase = "dying"]
      \/ obj' = [obj EXCEPT ![x] = Gone]
  BY DEF Deleted
<1>4. obj' \in [Object -> ObjState]
  BY <1>1, <1>2, <1>3 DEF ObjState, Phase
<1>5. /\ obj'[x].phase \in {"dying", "gone"}
      /\ obj'[x].phase = "gone" => ~obj'[x].fin
      /\ obj'[x].fin => obj[x].fin
  BY <1>1, <1>3 DEF Gone, ObjState, Present
<1>6. \A o \in Object \ {x} : obj'[o] = obj[o]
  BY <1>1, <1>3
<1>7. ObjectsOK'
  <2> SUFFICES ASSUME NEW o \in Object
               PROVE  /\ ~(Present(o)') => ~obj'[o].fin
                      /\ KindOf(o) = "VolumeSnapshot" /\ Present(o)' => "snapshots" \in crds
    BY DEF ObjectsOK, KindOf
  <2>1. CASE o = x
    BY <2>1, <1>5 DEF ObjectsOK, Present
  <2>2. CASE o # x
    BY <2>2, <1>6 DEF ObjectsOK, Present
  <2> QED BY <2>1, <2>2
<1>8. ObjStep
  BY <1>5, <1>6 DEF ObjStep, Present
<1> QED BY <1>4, <1>5, <1>6, <1>7, <1>8

(* Taking the finalizers of a dying object off: it has none any more, stays *)
(* on its way out, and no other changes.                                    *)
LEMMA StrippedObjects ==
  ASSUME TypeOK, ObjectsOK, NEW x \in Object, obj[x].phase \in {"dying", "gone"},
         obj' = Stripped(x), crds' = crds
  PROVE  /\ obj' \in [Object -> ObjState]
         /\ ObjectsOK'
         /\ ObjStep
         /\ ~obj'[x].fin
         /\ obj'[x].phase \in {"dying", "gone"}
         /\ \A o \in Object \ {x} : obj'[o] = obj[o]
<1>1. obj \in [Object -> ObjState]
  BY DEF TypeOK, ClusterTypeOK
<1>2. Gone \in ObjState
  BY DEF Gone, ObjState, Phase
<1>3. \/ obj' = [obj EXCEPT ![x].fin = FALSE]
      \/ obj' = [obj EXCEPT ![x] = Gone] /\ obj[x].phase = "dying"
  BY DEF Stripped
<1>4. obj' \in [Object -> ObjState]
  BY <1>1, <1>2, <1>3 DEF ObjState, Phase
<1>5. /\ obj'[x].phase \in {"dying", "gone"}
      /\ ~obj'[x].fin
      /\ Present(x)' => Present(x)
  BY <1>1, <1>3 DEF Gone, ObjState, Present
<1>6. \A o \in Object \ {x} : obj'[o] = obj[o]
  BY <1>1, <1>3
<1>7. ObjectsOK'
  <2> SUFFICES ASSUME NEW o \in Object
               PROVE  /\ ~(Present(o)') => ~obj'[o].fin
                      /\ KindOf(o) = "VolumeSnapshot" /\ Present(o)' => "snapshots" \in crds
    BY DEF ObjectsOK, KindOf
  <2>1. CASE o = x
    BY <2>1, <1>5 DEF ObjectsOK
  <2>2. CASE o # x
    BY <2>2, <1>6 DEF ObjectsOK, Present
  <2> QED BY <2>1, <2>2
<1>8. ObjStep
  BY <1>5, <1>6 DEF ObjStep
<1> QED BY <1>4, <1>5, <1>6, <1>7, <1>8

(* A cleaner that does not move keeps its part of the invariant, whatever   *)
(* an ObjStep does to the objects it works on.                              *)
LEMMA Bystander ==
  ASSUME TypeOK, TypeOK', ObjStep,
         NEW c \in Cleaner, CleanerOK(c), cl'[c] = cl[c]
  PROVE  CleanerOK(c)'
<1>1. /\ cl[c] \in CleanerState
      /\ cl[c].target \subseteq Object
      /\ cl[c].strip \subseteq Object
      /\ cl[c].items \subseteq Item
  BY DEF TypeOK, CleanupTypeOK, CleanerState
<1>2. \A o \in Object : /\ obj[o].phase  \in {"absent", "live", "dying", "gone"}
                        /\ obj'[o].phase \in {"absent", "live", "dying", "gone"}
  BY DEF TypeOK, ClusterTypeOK, ObjState, Phase
<1>3. ControlOK(c)'
  BY DEF CleanerOK, ControlOK, LastGvk, Working, ObjStep
<1>4. ScopeOK(c)'
  <2>1. Mine(c)' = Mine(c)
    BY DEF Mine, Selected
  <2>2. \A it \in cl[c].items : it.o \in Object
    BY <1>1 DEF Item
  <2> QED BY <1>1, <2>1, <2>2 DEF CleanerOK, ScopeOK, ObjStep
<1>5. TargetsOK(c)'
  <2> SUFFICES ASSUME cl[c].ok, NEW o \in cl[c].target, obj'[o].phase = "live"
               PROVE  \/ cl[c].pc = "discover"
                      \/ cl[c].pc = "done" /\ cl[c].result = "error"
                      \/ cl[c].pc = "list" /\ cl[c].idx <= LastPos(c, o)
                      \/ Working(c) /\ (cl[c].idx < LastPos(c, o) \/ StillListed(c, o))
    BY DEF TargetsOK, LastPos, Working, StillListed
  <2>1. o \in Object /\ obj[o].phase # "absent"
    BY <1>1 DEF CleanerOK, ScopeOK
  <2>2. obj[o].phase = "live"
    BY <2>1, <1>2 DEF ObjStep
  <2> QED BY <2>2 DEF CleanerOK, TargetsOK
<1>6. StripsOK(c)'
  <2> SUFFICES ASSUME cl[c].ok, NEW o \in cl[c].strip,
                      obj'[o].phase = "live" \/ obj'[o].fin
               PROVE  \/ cl[c].pc = "done" /\ cl[c].result = "error"
                      \/ \E it \in cl[c].items : it.o = o /\ it.fin
                      \/ cl[c].pc \in {"get", "patch"} /\ cl[c].cur = o
    BY DEF StripsOK
  <2>1. o \in Object /\ obj[o].phase # "absent"
    BY <1>1 DEF CleanerOK, ScopeOK
  <2>2. obj[o].phase = "live" \/ obj[o].fin
    BY <2>1, <1>2 DEF ObjStep
  <2> QED BY <2>2 DEF CleanerOK, StripsOK
<1> QED BY <1>3, <1>4, <1>5, <1>6 DEF CleanerOK

(* A step that moves no cleaner.                                            *)
LEMMA NoCleanerMoves ==
  ASSUME CleanupInv, TypeOK', ObjectsOK', ObjStep, cl' = cl
  PROVE  CleanupInv'
BY Bystander DEF CleanupInv, CleanerOK

(* A step of one cleaner.                                                   *)
LEMMA OneCleanerMoves ==
  ASSUME CleanupInv, TypeOK', ObjectsOK', ObjStep,
         NEW c \in Cleaner, \A d \in Cleaner \ {c} : cl'[d] = cl[d], CleanerOK(c)'
  PROVE  CleanupInv'
<1>1. \A d \in Cleaner \ {c} : CleanerOK(d)'
  BY Bystander DEF CleanupInv, CleanerOK
<1> QED BY <1>1 DEF CleanupInv, CleanerOK

(* A step that changes no object is an ObjStep.                             *)
LEMMA ObjectsUnchanged ==
  ASSUME CleanupInv, obj' = obj, crds \subseteq crds'
  PROVE  ObjectsOK' /\ ObjStep
BY DEF CleanupInv, ObjectsOK, ObjStep, Present, KindOf

(* What the invariant says, in the form the proofs below use it.            *)
LEMMA InvParts ==
  ASSUME CleanupInv, NEW c \in Cleaner
  PROVE  /\ TypeOK /\ ObjectsOK
         /\ ControlOK(c) /\ ScopeOK(c) /\ TargetsOK(c) /\ StripsOK(c)
         /\ cl \in [Cleaner -> CleanerState]
         /\ cl[c] \in CleanerState
         /\ cl[c].target \subseteq Object
         /\ cl[c].strip \subseteq Object
         /\ cl[c].items \subseteq Item
BY DEF CleanupInv, TypeOK, CleanupTypeOK, CleanerState

(* A failing call leaves the number of failures in its bound.               *)
LEMMA FaultBounded ==
  ASSUME faults \in 0..MaxFaults, Fault
  PROVE  faults' \in 0..MaxFaults
BY ClusterAssumption DEF Fault, ClusterAssumption
-----------------------------------------------------------------------------
(***************************************************************************)
(* The steps of a cleaner, one lemma each.                                  *)
(***************************************************************************)

(* A call of CleanupPreflightResources keeps CleanupInv: the cleaner owes   *)
(* every object it selects, and has listed none.                            *)
LEMMA InvokeInv ==
  ASSUME CleanupInv, NEW c \in Cleaner, Invoke(c)
  PROVE  CleanupInv'
<1> USE InvParts
<1>1. PICK uid \in Run \cup {NoUid}, ns \in Ns \cup {NoNs} : StartCleanup(c, uid, ns)
  BY DEF Invoke
<1> DEFINE deleteNs == IF ns = NoNs THEN DefaultNs ELSE ns
           targets  == {o \in Selected(uid, deleteNs) : obj[o].phase = "live"}
<1>2. cl' = [cl EXCEPT ![c] = [IdleCleaner EXCEPT !.pc = "discover", !.uid = uid,
                                 !.ns = deleteNs, !.target = targets]]
  BY <1>1 DEF StartCleanup
<1>3. deleteNs \in Ns
  BY ClusterAssumption DEF ClusterAssumption
<1>4. targets \subseteq Object
  BY DEF Selected
<1>5. cl'[c] = [pc |-> "discover", uid |-> uid, ns |-> deleteNs, vers |-> 0, idx |-> 1,
                items |-> {}, cur |-> NoObj, ok |-> TRUE, result |-> "none",
                target |-> targets, strip |-> {}]
  BY <1>2 DEF IdleCleaner
<1>6. \A d \in Cleaner \ {c} : cl'[d] = cl[d]
  BY <1>2
<1>7. cl'[c] \in CleanerState
  BY <1>3, <1>4, <1>5 DEF CleanerState, CleanerPc
<1>8. TypeOK'
  BY <1>2, <1>5, <1>7 DEF Invoke, clusterVars, TypeOK, ClusterTypeOK, CleanupTypeOK
<1>9. ObjectsOK' /\ ObjStep
  BY ObjectsUnchanged DEF Invoke, clusterVars
<1>10. ControlOK(c)'
  BY <1>5 DEF ControlOK, LastGvk, Working
<1>11. ScopeOK(c)'
  BY <1>5 DEF ScopeOK, Mine, Invoke, clusterVars
<1>12. TargetsOK(c)' /\ StripsOK(c)'
  BY <1>5 DEF TargetsOK, StripsOK
<1> QED BY <1>6, <1>8, <1>9, <1>10, <1>11, <1>12, OneCleanerMoves DEF CleanerOK

(* getVersionsOfGroup keeps CleanupInv: only the GVK list becomes known.    *)
LEMMA DiscoverInv ==
  ASSUME CleanupInv, NEW c \in Cleaner, Discover(c)
  PROVE  CleanupInv'
<1> USE InvParts
<1>1. /\ cl[c].pc = "discover"
      /\ cl' = [cl EXCEPT ![c].pc = "list", ![c].vers = ServedVersions]
      /\ UNCHANGED clusterVars
  BY DEF Discover
<1>2. cl'[c] = [cl[c] EXCEPT !.pc = "list", !.vers = ServedVersions]
  BY <1>1
<1>3. \A d \in Cleaner \ {c} : cl'[d] = cl[d]
  BY <1>1
<1>4. ServedVersions \in Nat /\ (crds # {} => ServedVersions >= 1)
  BY CleanupAssumption DEF CleanupAssumption, ServedVersions
<1>5. TypeOK'
  BY <1>1, <1>2, <1>4 DEF clusterVars, TypeOK, ClusterTypeOK, CleanupTypeOK, CleanerState, CleanerPc
<1>6. ObjectsOK' /\ ObjStep
  BY <1>1, ObjectsUnchanged DEF clusterVars
<1>7. ControlOK(c)'
  BY <1>1, <1>2, <1>4 DEF ControlOK, LastGvk, Working, CleanerState
<1>8. ScopeOK(c)'
  BY <1>1, <1>2 DEF ScopeOK, Mine, clusterVars, ControlOK, CleanerState
<1>9. TargetsOK(c)'
  <2> SUFFICES ASSUME NEW o \in cl[c].target, obj[o].phase = "live"
               PROVE  1 <= LastPos(c, o)'
    BY <1>1, <1>2 DEF TargetsOK, ControlOK, CleanerState, clusterVars
  <2>1. KindOf(o) = "VolumeSnapshot" => "snapshots" \in crds
    BY DEF ObjectsOK, Present
  <2>2. KindOf(o) = "VolumeSnapshot" => ServedVersions >= 1
    BY <2>1, <1>4
  <2> QED BY <2>2, <1>2, <1>4 DEF LastPos, CleanerState
<1>10. StripsOK(c)'
  BY <1>1, <1>2 DEF StripsOK, ControlOK, CleanerState
<1> QED BY <1>3, <1>5, <1>6, <1>7, <1>8, <1>9, <1>10, OneCleanerMoves DEF CleanerOK

(* A failed discovery keeps CleanupInv: the cleaner returns an error and    *)
(* owes nothing any more.                                                   *)
LEMMA DiscoverFailsInv ==
  ASSUME CleanupInv, NEW c \in Cleaner, DiscoverFails(c)
  PROVE  CleanupInv'
<1> USE InvParts
<1>1. /\ cl[c].pc = "discover"
      /\ cl' = [cl EXCEPT ![c].pc = "done", ![c].result = "error"]
      /\ UNCHANGED <<obj, crds>>
  BY DEF DiscoverFails
<1>2. cl'[c] = [cl[c] EXCEPT !.pc = "done", !.result = "error"]
  BY <1>1
<1>3. \A d \in Cleaner \ {c} : cl'[d] = cl[d]
  BY <1>1
<1>4. TypeOK'
  <2>1. ClusterTypeOK'
    BY <1>1, FaultBounded DEF DiscoverFails, TypeOK, ClusterTypeOK
  <2> QED BY <2>1, <1>1, <1>2 DEF TypeOK, CleanupTypeOK, CleanerState, CleanerPc
<1>5. ObjectsOK' /\ ObjStep
  BY <1>1, ObjectsUnchanged
<1>6. ControlOK(c)'
  BY <1>1, <1>2 DEF ControlOK, LastGvk, Working, CleanerState
<1>7. ScopeOK(c)'
  BY <1>1, <1>2 DEF ScopeOK, Mine, CleanerState
<1>8. TargetsOK(c)' /\ StripsOK(c)'
  BY <1>2 DEF TargetsOK, StripsOK, CleanerState
<1> QED BY <1>3, <1>4, <1>5, <1>6, <1>7, <1>8, OneCleanerMoves DEF CleanerOK

(* A LIST keeps CleanupInv: of the kind just listed the cleaner now owes    *)
(* its items only, for it has seen every live object it selects.            *)
LEMMA ListInv ==
  ASSUME CleanupInv, NEW c \in Cleaner, List(c)
  PROVE  CleanupInv'
<1> USE InvParts
<1> DEFINE kind  == GvkList(cl[c].vers)[cl[c].idx]
           strip == cl[c].strip \cup {it.o : it \in {i \in ListedItems(c) : i.fin}}
<1>1. /\ cl[c].pc = "list" /\ cl[c].idx <= LastGvk(c)
      /\ cl' = [cl EXCEPT ![c].pc = "items", ![c].items = ListedItems(c), ![c].strip = strip]
      /\ UNCHANGED clusterVars
  BY DEF List
<1>2. cl'[c] = [cl[c] EXCEPT !.pc = "items", !.items = ListedItems(c), !.strip = strip]
  BY <1>1
<1>3. \A d \in Cleaner \ {c} : cl'[d] = cl[d]
  BY <1>1
<1>4. \A it \in ListedItems(c) :
        /\ it.o \in Object /\ it.o \in Mine(c) /\ Present(it.o)
        /\ it.fin = obj[it.o].fin
        /\ it \in Item
  <2> SUFFICES ASSUME NEW o \in Mine(c), Present(o)
               PROVE  o \in Object /\ [o |-> o, fin |-> obj[o].fin] \in Item
    BY DEF ListedItems
  <2> QED BY PhaseCases DEF Mine, Selected, Item
<1>5. \A o \in Mine(c) : KindOf(o) = kind /\ Present(o) =>
        \E it \in ListedItems(c) : it.o = o
  <2> SUFFICES ASSUME NEW o \in Mine(c), KindOf(o) = kind, Present(o)
               PROVE  \E it \in ListedItems(c) : it.o = o
    OBVIOUS
  <2>1. [o |-> o, fin |-> obj[o].fin] \in ListedItems(c)
    BY DEF ListedItems
  <2> QED BY <2>1
<1>6. TypeOK'
  <2>1. ListedItems(c) \subseteq Item
    BY <1>4
  <2>2. strip \subseteq Object
    BY <1>4
  <2>3. cl[c] \in CleanerState
    BY DEF TypeOK, CleanupTypeOK
  <2>4. [cl[c] EXCEPT !.pc = "items", !.items = ListedItems(c), !.strip = strip]
          \in CleanerState
    <3> HIDE DEF kind, strip
    <3>1. ListedItems(c) \in SUBSET Item /\ strip \in SUBSET Object
      BY <2>1, <2>2
    <3> QED BY ONLY <2>3, <3>1 DEF CleanerState, CleanerPc
  <2>5. cl'[c] \in CleanerState
    <3> HIDE DEF kind, strip
    <3> QED BY ONLY <1>2, <2>4
  <2>6. CleanupTypeOK'
    <3> HIDE DEF kind, strip
    <3> QED BY <1>1, <2>5 DEF CleanupTypeOK
  <2> QED BY <1>1, <2>6 DEF clusterVars, TypeOK, ClusterTypeOK
<1>7. ObjectsOK' /\ ObjStep
  BY <1>1, ObjectsUnchanged DEF clusterVars
<1>8. ControlOK(c)'
  BY <1>1, <1>2 DEF ControlOK, LastGvk, Working, CleanerState, clusterVars
<1>9. ScopeOK(c)'
  <2>1. Mine(c)' = Mine(c)
    BY <1>2 DEF Mine, CleanerState
  <2> QED BY <1>1, <1>2, <1>4, <2>1 DEF ScopeOK, CleanerState, Present, clusterVars
<1>10. TargetsOK(c)'
  <2> SUFFICES ASSUME cl[c].ok, NEW o \in cl[c].target, obj[o].phase = "live",
                      ~(cl[c].idx < LastPos(c, o))
               PROVE  \E it \in ListedItems(c) : it.o = o
    BY <1>1, <1>2 DEF TargetsOK, Working, StillListed, LastPos, CleanerState, clusterVars
  <2>1. cl[c].idx <= LastPos(c, o)
    BY <1>1 DEF TargetsOK, Working
  <2>2. cl[c].idx = LastPos(c, o)
    BY <2>1 DEF LastPos, CleanerState
  <2>3. KindOf(o) \in {"Pod", "PVC", "VolumeSnapshot"}
    BY DEF KindOf
  <2>4. cl[c].idx \in 1..(cl[c].vers + 2) /\ cl[c].vers \in Nat
    BY <1>1 DEF ControlOK, LastGvk, CleanerState
  <2>5. KindOf(o) = kind
    BY <2>2, <2>3, <2>4 DEF LastPos, GvkList
  <2> QED BY <1>5, <2>5 DEF ScopeOK, Present
<1>11. StripsOK(c)'
  <2> SUFFICES ASSUME cl[c].ok, NEW o \in strip, obj[o].phase = "live" \/ obj[o].fin
               PROVE  \E it \in ListedItems(c) : it.o = o /\ it.fin
    BY <1>1, <1>2 DEF StripsOK, CleanerState, clusterVars
  <2>1. o \notin cl[c].strip
    BY <1>1 DEF StripsOK, ControlOK
  <2> QED BY <2>1
<1> QED BY <1>3, <1>6, <1>7, <1>8, <1>9, <1>10, <1>11, OneCleanerMoves DEF CleanerOK

(* A failed LIST keeps CleanupInv: the failure is remembered, and ends what *)
(* the cleaner owes.                                                        *)
LEMMA ListFailsInv ==
  ASSUME CleanupInv, NEW c \in Cleaner, ListFails(c)
  PROVE  CleanupInv'
<1> USE InvParts
<1>1. /\ cl[c].pc = "list" /\ cl[c].idx <= LastGvk(c)
      /\ cl' = [cl EXCEPT ![c].idx = @ + 1, ![c].ok = FALSE]
      /\ UNCHANGED <<obj, crds>>
  BY DEF ListFails
<1>2. cl'[c] = [cl[c] EXCEPT !.idx = @ + 1, !.ok = FALSE]
  BY <1>1
<1>3. \A d \in Cleaner \ {c} : cl'[d] = cl[d]
  BY <1>1
<1>4. TypeOK'
  <2>1. faults' \in 0..MaxFaults
    <3>1. CASE Fault
      BY <3>1, FaultBounded DEF TypeOK, ClusterTypeOK
    <3>2. CASE UNCHANGED faults
      BY <3>2 DEF TypeOK, ClusterTypeOK
    <3> QED BY <3>1, <3>2 DEF ListFails
  <2>2. cl'[c] \in CleanerState
    <3>1. cl[c] \in CleanerState /\ cl[c].idx + 1 \in Nat
      BY DEF CleanerState
    <3> QED BY <3>1, <1>2 DEF CleanerState
  <2>3. CleanupTypeOK'
    BY <1>1, <2>2 DEF CleanupTypeOK
  <2> QED BY <1>1, <2>1, <2>3 DEF TypeOK, ClusterTypeOK
<1>5. ObjectsOK' /\ ObjStep
  BY <1>1, ObjectsUnchanged
<1>6. ControlOK(c)'
  BY <1>1, <1>2 DEF ControlOK, LastGvk, Working, CleanerState
<1>7. ScopeOK(c)'
  BY <1>1, <1>2 DEF ScopeOK, Mine, CleanerState
<1>8. TargetsOK(c)' /\ StripsOK(c)'
  BY <1>2 DEF TargetsOK, StripsOK, CleanerState
<1> QED BY <1>3, <1>4, <1>5, <1>6, <1>7, <1>8, OneCleanerMoves DEF CleanerOK

(* The step to the next kind keeps CleanupInv: all the items of the last    *)
(* one have been dealt with.                                                *)
LEMMA NextKindInv ==
  ASSUME CleanupInv, NEW c \in Cleaner, NextKind(c)
  PROVE  CleanupInv'
<1> USE InvParts
<1>1. /\ cl[c].pc = "items" /\ cl[c].items = {}
      /\ cl' = [cl EXCEPT ![c].pc = "list", ![c].idx = @ + 1]
      /\ UNCHANGED clusterVars
  BY DEF NextKind
<1>2. cl'[c] = [cl[c] EXCEPT !.pc = "list", !.idx = @ + 1]
  BY <1>1
<1>3. \A d \in Cleaner \ {c} : cl'[d] = cl[d]
  BY <1>1
<1>4. TypeOK'
  BY <1>1, <1>2 DEF clusterVars, TypeOK, ClusterTypeOK, CleanupTypeOK, CleanerState, CleanerPc
<1>5. ObjectsOK' /\ ObjStep
  BY <1>1, ObjectsUnchanged DEF clusterVars
<1>6. ControlOK(c)'
  BY <1>1, <1>2 DEF ControlOK, LastGvk, Working, CleanerState, clusterVars
<1>7. ScopeOK(c)'
  BY <1>1, <1>2 DEF ScopeOK, Mine, CleanerState, clusterVars
<1>8. TargetsOK(c)'
  <2> SUFFICES ASSUME cl[c].ok, NEW o \in cl[c].target, obj[o].phase = "live"
               PROVE  cl[c].idx + 1 <= LastPos(c, o)
    BY <1>1, <1>2 DEF TargetsOK, LastPos, CleanerState, clusterVars
  <2>1. cl[c].idx < LastPos(c, o)
    BY <1>1 DEF TargetsOK, StillListed
  <2> QED BY <2>1 DEF LastPos, CleanerState
<1>9. StripsOK(c)'
  BY <1>1, <1>2 DEF StripsOK, CleanerState, clusterVars
<1> QED BY <1>3, <1>4, <1>5, <1>6, <1>7, <1>8, <1>9, OneCleanerMoves DEF CleanerOK

(* The return of a cleaner keeps CleanupInv: with no kind left, nothing is  *)
(* owed.                                                                    *)
LEMMA FinishInv ==
  ASSUME CleanupInv, NEW c \in Cleaner, Finish(c)
  PROVE  CleanupInv'
<1> USE InvParts
<1> DEFINE result == IF cl[c].ok THEN "nil" ELSE "error"
<1>1. /\ cl[c].pc = "list" /\ cl[c].idx > LastGvk(c)
      /\ cl' = [cl EXCEPT ![c].pc = "done", ![c].result = result]
      /\ UNCHANGED clusterVars
  BY DEF Finish
<1>2. cl'[c] = [cl[c] EXCEPT !.pc = "done", !.result = result]
  BY <1>1
<1>3. \A d \in Cleaner \ {c} : cl'[d] = cl[d]
  BY <1>1
<1>4. TypeOK'
  BY <1>1, <1>2 DEF clusterVars, TypeOK, ClusterTypeOK, CleanupTypeOK, CleanerState, CleanerPc
<1>5. ObjectsOK' /\ ObjStep
  BY <1>1, ObjectsUnchanged DEF clusterVars
<1>6. ControlOK(c)'
  BY <1>1, <1>2 DEF ControlOK, LastGvk, Working, CleanerState, clusterVars
<1>7. ScopeOK(c)'
  BY <1>1, <1>2 DEF ScopeOK, Mine, CleanerState, clusterVars
<1>8. TargetsOK(c)'
  <2> SUFFICES ASSUME cl[c].ok, NEW o \in cl[c].target, obj[o].phase = "live"
               PROVE  FALSE
    BY <1>1, <1>2 DEF TargetsOK, CleanerState, clusterVars
  <2>1. cl[c].idx <= LastPos(c, o)
    BY <1>1 DEF TargetsOK, Working
  <2> QED BY <1>1, <2>1 DEF LastPos, LastGvk, CleanerState
<1>9. StripsOK(c)'
  BY <1>1, <1>2 DEF StripsOK, ControlOK, CleanerState, clusterVars
<1> QED BY <1>3, <1>4, <1>5, <1>6, <1>7, <1>8, <1>9, OneCleanerMoves DEF CleanerOK

(* A DELETE keeps CleanupInv: the item is not live any more, and is kept as *)
(* the item to strip if it had finalizers when listed.                      *)
LEMMA DeleteItemInv ==
  ASSUME CleanupInv, NEW c \in Cleaner, DeleteItem(c)
  PROVE  CleanupInv'
<1> USE InvParts
<1> DEFINE it == NextItem(c)
           x  == it.o
<1>1. /\ cl[c].pc = "items" /\ Present(x)
      /\ obj' = Deleted(x)
      /\ UNCHANGED <<crds, faults>>
      /\ cl' = IF it.fin
               THEN [cl EXCEPT ![c].items = @ \ {it}, ![c].pc = "get", ![c].cur = x]
               ELSE [cl EXCEPT ![c].items = @ \ {it}]
  BY DEF DeleteItem, DeleteThenStrip, AtItem
<1>2. it \in cl[c].items /\ x \in Object /\ it.fin \in BOOLEAN
  BY NextItemListed DEF DeleteItem
<1>3. /\ obj' \in [Object -> ObjState]
      /\ ObjectsOK'
      /\ ObjStep
      /\ obj'[x].phase \in {"dying", "gone"}
      /\ \A o \in Object \ {x} : obj'[o] = obj[o]
  BY <1>1, <1>2, DeletedObjects
<1>4. cl'[c] = IF it.fin
               THEN [cl[c] EXCEPT !.items = @ \ {it}, !.pc = "get", !.cur = x]
               ELSE [cl[c] EXCEPT !.items = @ \ {it}]
  BY <1>1
<1>5. \A d \in Cleaner \ {c} : cl'[d] = cl[d]
  BY <1>1
<1>6. /\ cl'[c].items = cl[c].items \ {it}
      /\ cl'[c].ok = cl[c].ok         /\ cl'[c].idx = cl[c].idx
      /\ cl'[c].vers = cl[c].vers     /\ cl'[c].result = cl[c].result
      /\ cl'[c].uid = cl[c].uid       /\ cl'[c].ns = cl[c].ns
      /\ cl'[c].target = cl[c].target /\ cl'[c].strip = cl[c].strip
      /\ cl'[c].pc = IF it.fin THEN "get" ELSE "items"
      /\ it.fin => cl'[c].cur = x
  BY <1>1, <1>4 DEF CleanerState
<1>7. TypeOK'
  <2>1. cl'[c] \in CleanerState
    <3>1. cl[c] \in CleanerState /\ cl[c].items \ {it} \in SUBSET Item
      OBVIOUS
    <3>2. CASE it.fin
      <4>1. cl'[c] = [cl[c] EXCEPT !.items = @ \ {it}, !.pc = "get", !.cur = x]
        BY <1>4, <3>2
      <4> HIDE DEF it
      <4> QED BY <1>2, <3>1, <4>1 DEF CleanerState, CleanerPc
    <3>3. CASE ~it.fin
      BY <1>4, <3>1, <3>3 DEF CleanerState
    <3> QED BY <3>2, <3>3
  <2>2. CleanupTypeOK'
    BY <1>1, <2>1 DEF CleanupTypeOK
  <2> QED BY <1>1, <1>3, <2>2 DEF TypeOK, ClusterTypeOK
<1>8. ControlOK(c)'
  <2>1. /\ cl[c].idx \in 1..(LastGvk(c) + 1)
        /\ cl[c].idx <= LastGvk(c)
        /\ cl[c].result = "none"
    BY <1>1 DEF ControlOK, Working
  <2>2. LastGvk(c)' = LastGvk(c)
    BY <1>6 DEF LastGvk
  <2>3. cl'[c].pc \in {"get", "items"}
    BY <1>6
  <2>4. cl'[c].pc = "get" => /\ cl'[c].cur \in Object
                            /\ obj'[cl'[c].cur].phase \in {"dying", "gone"}
    BY <1>2, <1>3, <1>6
  <2>5. cl'[c].idx = cl[c].idx /\ cl'[c].result = cl[c].result
    BY <1>6
  <2> QED BY ONLY <2>1, <2>2, <2>3, <2>4, <2>5 DEF ControlOK, Working
<1>9. ScopeOK(c)'
  <2>1. Mine(c)' = Mine(c)
    BY <1>6 DEF Mine
  <2>2. \A i \in cl[c].items : i.o \in Object
    BY DEF Item
  <2> QED BY <1>3, <1>6, <2>1, <2>2 DEF ScopeOK, ObjStep
<1>10. TargetsOK(c)'
  <2> SUFFICES ASSUME cl[c].ok, NEW o \in cl[c].target, obj'[o].phase = "live"
               PROVE  cl[c].idx < LastPos(c, o) \/ StillListed(c, o)'
    BY <1>6 DEF TargetsOK, Working, LastPos
  <2>1. o # x /\ o \in Object /\ obj[o].phase = "live"
    BY <1>3
  <2>2. cl[c].idx < LastPos(c, o) \/ StillListed(c, o)
    BY <1>1, <2>1 DEF TargetsOK
  <2> QED BY <1>6, <2>1, <2>2 DEF StillListed
<1>11. StripsOK(c)'
  <2> SUFFICES ASSUME cl[c].ok, NEW o \in cl[c].strip, obj'[o].phase = "live" \/ obj'[o].fin
               PROVE  \/ \E i \in cl'[c].items : i.o = o /\ i.fin
                      \/ cl'[c].pc = "get" /\ cl'[c].cur = o
    BY <1>6 DEF StripsOK
  <2>1. obj[o].phase = "live" \/ obj[o].fin
    <3>1. o \in Object /\ obj[o].phase # "absent"
      BY DEF ScopeOK
    <3> QED BY <1>3, <3>1, PhaseCases DEF ObjStep
  <2>2. PICK i \in cl[c].items : i.o = o /\ i.fin
    BY <1>1, <2>1 DEF StripsOK, ControlOK
  <2>3. CASE i = it
    BY <1>6, <2>2, <2>3
  <2>4. CASE i # it
    BY <1>6, <2>2, <2>4
  <2> QED BY <2>3, <2>4
<1> QED BY <1>3, <1>5, <1>7, <1>8, <1>9, <1>10, <1>11, OneCleanerMoves DEF CleanerOK

(* A listed item is taken off the list: it is gone, or the failure has been *)
(* remembered, whatever the failed call has done to the object.             *)
LEMMA ItemDropped ==
  ASSUME CleanupInv, NEW c \in Cleaner, AtItem(c), NEW ok \in BOOLEAN,
         ok => cl[c].ok /\ ~Present(NextItem(c).o) /\ obj' = obj,
         cl' = [cl EXCEPT ![c].items = @ \ {NextItem(c)}, ![c].ok = ok],
         obj' \in [Object -> ObjState], ObjectsOK', ObjStep,
         crds' = crds, faults' \in 0..MaxFaults
  PROVE  CleanupInv'
<1> USE InvParts
<1> DEFINE it == NextItem(c)
           x  == it.o
<1>1. cl'[c] = [cl[c] EXCEPT !.items = @ \ {it}, !.ok = ok]
  OBVIOUS
<1>2. \A d \in Cleaner \ {c} : cl'[d] = cl[d]
  OBVIOUS
<1>3. it \in cl[c].items /\ x \in Object
  BY NextItemListed
<1>4. /\ cl'[c].items = cl[c].items \ {it}
      /\ cl'[c].ok = ok
      /\ cl'[c].pc = cl[c].pc         /\ cl'[c].idx = cl[c].idx
      /\ cl'[c].vers = cl[c].vers     /\ cl'[c].result = cl[c].result
      /\ cl'[c].uid = cl[c].uid       /\ cl'[c].ns = cl[c].ns
      /\ cl'[c].target = cl[c].target /\ cl'[c].strip = cl[c].strip
      /\ cl'[c].cur = cl[c].cur
  BY <1>1 DEF CleanerState
<1>5. cl[c].pc = "items"
  BY DEF AtItem
<1>6. TypeOK'
  <2>1. cl'[c] \in CleanerState
    BY <1>1 DEF CleanerState
  <2>2. CleanupTypeOK'
    BY <2>1 DEF CleanupTypeOK
  <2> QED BY <2>2 DEF TypeOK, ClusterTypeOK
<1>8. ControlOK(c)'
  BY <1>4, <1>5 DEF ControlOK, LastGvk, Working
<1>9. ScopeOK(c)'
  <2>1. Mine(c)' = Mine(c)
    BY <1>4 DEF Mine
  <2>2. \A i \in cl[c].items : i.o \in Object
    BY DEF Item
  <2> QED BY <1>4, <2>1, <2>2 DEF ScopeOK, ObjStep
<1>10. TargetsOK(c)'
  <2> SUFFICES ASSUME ok, NEW o \in cl[c].target, obj'[o].phase = "live"
               PROVE  cl[c].idx < LastPos(c, o) \/ StillListed(c, o)'
    BY <1>4, <1>5 DEF TargetsOK, Working, LastPos
  <2>1. o # x /\ obj' = obj
    BY DEF Present
  <2>2. cl[c].idx < LastPos(c, o) \/ StillListed(c, o)
    BY <1>5 DEF TargetsOK
  <2> QED BY <1>4, <2>1, <2>2 DEF StillListed
<1>11. StripsOK(c)'
  <2> SUFFICES ASSUME ok, NEW o \in cl[c].strip, obj'[o].phase = "live" \/ obj'[o].fin
               PROVE  \E i \in cl[c].items \ {it} : i.o = o /\ i.fin
    BY <1>4 DEF StripsOK
  <2>1. o # x /\ obj' = obj
    BY <1>3 DEF ObjectsOK, Present
  <2>2. \E i \in cl[c].items : i.o = o /\ i.fin
    BY <1>5 DEF StripsOK, ControlOK
  <2> QED BY <2>1, <2>2
<1> QED BY <1>2, <1>6, <1>8, <1>9, <1>10, <1>11, OneCleanerMoves DEF CleanerOK

(* A DELETE of an item that is gone keeps CleanupInv: somebody else has     *)
(* done what was owed.                                                      *)
LEMMA DeleteItemMissingInv ==
  ASSUME CleanupInv, NEW c \in Cleaner, DeleteItemMissing(c)
  PROVE  CleanupInv'
<1>1. cl' = [cl EXCEPT ![c].items = @ \ {NextItem(c)}, ![c].ok = cl[c].ok]
  BY InvParts DEF DeleteItemMissing, CleanerState
<1>2. /\ cl[c].ok \in BOOLEAN /\ faults \in 0..MaxFaults
      /\ obj \in [Object -> ObjState]
  BY InvParts DEF CleanerState, TypeOK, ClusterTypeOK
<1>3. ObjectsOK' /\ ObjStep
  BY ObjectsUnchanged, InvParts DEF DeleteItemMissing, clusterVars
<1> QED BY <1>1, <1>2, <1>3, ItemDropped DEF DeleteItemMissing, clusterVars

(* A failed DELETE keeps CleanupInv: the failure is remembered.             *)
LEMMA DeleteItemFailsInv ==
  ASSUME CleanupInv, NEW c \in Cleaner, DeleteItemFails(c)
  PROVE  CleanupInv'
<1>1. faults' \in 0..MaxFaults
  BY InvParts, FaultBounded DEF DeleteItemFails, TypeOK, ClusterTypeOK
<1>2. obj' \in [Object -> ObjState]
  BY InvParts DEF DeleteItemFails, TypeOK, ClusterTypeOK
<1>3. ObjectsOK' /\ ObjStep
  BY ObjectsUnchanged, InvParts DEF DeleteItemFails
<1> QED BY <1>1, <1>2, <1>3, ItemDropped DEF DeleteItemFails, RemembersFailure

(* A DELETE whose answer is lost keeps CleanupInv: the object is on its way *)
(* out, and the failure is remembered.                                      *)
LEMMA DeleteAnswerLostInv ==
  ASSUME CleanupInv, NEW c \in Cleaner, DeleteAnswerLost(c)
  PROVE  CleanupInv'
<1>1. faults' \in 0..MaxFaults
  BY InvParts, FaultBounded DEF DeleteAnswerLost, TypeOK, ClusterTypeOK
<1>2. NextItem(c).o \in Object
  BY InvParts, NextItemListed DEF DeleteAnswerLost
<1>3. obj' \in [Object -> ObjState] /\ ObjectsOK' /\ ObjStep
  BY <1>2, InvParts, DeletedObjects DEF DeleteAnswerLost
<1> QED BY <1>1, <1>3, ItemDropped DEF DeleteAnswerLost, RemembersFailure

(* The GET before the patch keeps CleanupInv: it only looks.                *)
LEMMA GetLatestInv ==
  ASSUME CleanupInv, NEW c \in Cleaner, GetLatest(c)
  PROVE  CleanupInv'
<1> USE InvParts
<1>1. /\ cl[c].pc = "get"
      /\ cl' = [cl EXCEPT ![c].pc = "patch"]
      /\ UNCHANGED clusterVars
  BY DEF GetLatest
<1>2. cl'[c] = [cl[c] EXCEPT !.pc = "patch"]
  BY <1>1
<1>3. \A d \in Cleaner \ {c} : cl'[d] = cl[d]
  BY <1>1
<1>4. TypeOK'
  BY <1>1, <1>2 DEF clusterVars, TypeOK, ClusterTypeOK, CleanupTypeOK, CleanerState, CleanerPc
<1>5. ObjectsOK' /\ ObjStep
  BY <1>1, ObjectsUnchanged DEF clusterVars
<1>6. ControlOK(c)'
  BY <1>1, <1>2 DEF ControlOK, LastGvk, Working, CleanerState, clusterVars
<1>7. ScopeOK(c)'
  BY <1>1, <1>2 DEF ScopeOK, Mine, CleanerState, clusterVars
<1>8. TargetsOK(c)'
  BY <1>1, <1>2 DEF TargetsOK, LastPos, StillListed, Working, CleanerState, clusterVars
<1>9. StripsOK(c)'
  BY <1>1, <1>2 DEF StripsOK, CleanerState, clusterVars
<1> QED BY <1>3, <1>4, <1>5, <1>6, <1>7, <1>8, <1>9, OneCleanerMoves DEF CleanerOK

(* deleteK8sResource returns from removeFinalizer: the object it worked on  *)
(* is not held any more, or the failure is remembered.                      *)
LEMMA StripEnds ==
  ASSUME CleanupInv, NEW c \in Cleaner, cl[c].pc \in {"get", "patch"},
         NEW failed \in BOOLEAN, ItemDone(c, failed),
         failed \/ ~obj'[cl[c].cur].fin,
         obj' \in [Object -> ObjState], ObjectsOK', ObjStep,
         crds' = crds, faults' \in 0..MaxFaults
  PROVE  CleanupInv'
<1> USE InvParts
<1> DEFINE x == cl[c].cur
<1>1. /\ cl' = [cl EXCEPT ![c].pc = "items", ![c].cur = NoObj, ![c].ok = @ /\ ~failed]
      /\ cl'[c] = [cl[c] EXCEPT !.pc = "items", !.cur = NoObj, !.ok = @ /\ ~failed]
  BY DEF ItemDone
<1>2. \A d \in Cleaner \ {c} : cl'[d] = cl[d]
  BY <1>1
<1>3. /\ cl'[c].pc = "items"
      /\ cl'[c].ok = (cl[c].ok /\ ~failed)
      /\ cl'[c].items = cl[c].items   /\ cl'[c].idx = cl[c].idx
      /\ cl'[c].vers = cl[c].vers     /\ cl'[c].result = cl[c].result
      /\ cl'[c].uid = cl[c].uid       /\ cl'[c].ns = cl[c].ns
      /\ cl'[c].target = cl[c].target /\ cl'[c].strip = cl[c].strip
  BY <1>1 DEF CleanerState
<1>4. x \in Object /\ obj[x].phase \in {"dying", "gone"}
  BY DEF ControlOK
<1>5. TypeOK'
  <2>1. cl[c] \in CleanerState /\ (cl[c].ok /\ ~failed) \in BOOLEAN
    BY DEF CleanerState
  <2>2. cl'[c] \in CleanerState
    BY <1>1, <2>1 DEF CleanerState, CleanerPc
  <2>3. CleanupTypeOK'
    BY <1>1, <2>2 DEF CleanupTypeOK
  <2> QED BY <2>3 DEF TypeOK, ClusterTypeOK
<1>6. ControlOK(c)'
  BY <1>3 DEF ControlOK, LastGvk, Working
<1>7. ScopeOK(c)'
  <2>1. Mine(c)' = Mine(c)
    BY <1>3 DEF Mine
  <2>2. \A i \in cl[c].items : i.o \in Object
    BY DEF Item
  <2> QED BY <1>3, <2>1, <2>2 DEF ScopeOK, ObjStep
<1>8. TargetsOK(c)'
  <2> SUFFICES ASSUME cl[c].ok, NEW o \in cl[c].target, obj'[o].phase = "live"
               PROVE  cl[c].idx < LastPos(c, o) \/ StillListed(c, o)'
    BY <1>3 DEF TargetsOK, Working, LastPos
  <2>1. o \in Object /\ obj[o].phase # "absent"
    BY DEF ScopeOK
  <2>2. obj[o].phase = "live"
    BY <2>1, PhaseCases DEF ObjStep
  <2>3. cl[c].idx < LastPos(c, o) \/ StillListed(c, o)
    BY <2>2 DEF TargetsOK
  <2> QED BY <1>3, <2>3 DEF StillListed
<1>9. StripsOK(c)'
  <2> SUFFICES ASSUME cl[c].ok, ~failed, NEW o \in cl[c].strip,
                      obj'[o].phase = "live" \/ obj'[o].fin
               PROVE  \E i \in cl[c].items : i.o = o /\ i.fin
    BY <1>3 DEF StripsOK
  <2>1. o \in Object /\ obj[o].phase # "absent"
    BY DEF ScopeOK
  <2>2. obj'[x].phase # "live" /\ (failed \/ ~obj'[x].fin)
    BY <1>4 DEF ObjStep
  <2>3. obj[o].phase = "live" \/ obj[o].fin
    BY <2>1, PhaseCases DEF ObjStep
  <2>4. o # x
    BY <2>2
  <2> QED BY <2>3, <2>4 DEF StripsOK
<1> QED BY <1>2, <1>5, <1>6, <1>7, <1>8, <1>9, OneCleanerMoves DEF CleanerOK

(* The PATCH keeps CleanupInv: the item it was owed to has no finalizers    *)
(* now.                                                                     *)
LEMMA PatchFinalizersInv ==
  ASSUME CleanupInv, NEW c \in Cleaner, PatchFinalizers(c)
  PROVE  CleanupInv'
<1> USE InvParts
<1>1. cl[c].cur \in Object /\ obj[cl[c].cur].phase \in {"dying", "gone"}
  BY DEF PatchFinalizers, ControlOK
<1>2. /\ obj' \in [Object -> ObjState]
      /\ ObjectsOK' /\ ObjStep
      /\ ~obj'[cl[c].cur].fin
  BY <1>1, StrippedObjects DEF PatchFinalizers
<1>3. faults' \in 0..MaxFaults
  BY DEF PatchFinalizers, TypeOK, ClusterTypeOK
<1> QED BY <1>2, <1>3, StripEnds DEF PatchFinalizers

(* A PATCH whose answer is lost keeps CleanupInv: the finalizers are off,   *)
(* and the failure is remembered.                                           *)
LEMMA PatchAnswerLostInv ==
  ASSUME CleanupInv, NEW c \in Cleaner, PatchAnswerLost(c)
  PROVE  CleanupInv'
<1> USE InvParts
<1>1. cl[c].cur \in Object /\ obj[cl[c].cur].phase \in {"dying", "gone"}
  BY DEF PatchAnswerLost, ControlOK
<1>2. obj' \in [Object -> ObjState] /\ ObjectsOK' /\ ObjStep
  BY <1>1, StrippedObjects DEF PatchAnswerLost
<1>3. faults' \in 0..MaxFaults
  BY FaultBounded DEF PatchAnswerLost, TypeOK, ClusterTypeOK
<1> QED BY <1>2, <1>3, StripEnds DEF PatchAnswerLost

(* A GET or PATCH of an item that is gone keeps CleanupInv: it has no       *)
(* finalizers.                                                              *)
LEMMA StripMissingInv ==
  ASSUME CleanupInv, NEW c \in Cleaner, StripMissing(c)
  PROVE  CleanupInv'
<1> USE InvParts
<1>1. cl[c].cur \in Object
  BY DEF StripMissing, ControlOK
<1>2. ~obj'[cl[c].cur].fin
  BY <1>1 DEF StripMissing, ObjectsOK, clusterVars
<1>3. ObjectsOK' /\ ObjStep
  BY ObjectsUnchanged DEF StripMissing, clusterVars
<1>4. obj' \in [Object -> ObjState] /\ crds' = crds /\ faults' \in 0..MaxFaults
  BY DEF StripMissing, clusterVars, TypeOK, ClusterTypeOK
<1> QED BY <1>2, <1>3, <1>4, StripEnds DEF StripMissing

(* A rejected PATCH keeps CleanupInv: the failure is remembered.            *)
LEMMA PatchInvalidInv ==
  ASSUME CleanupInv, NEW c \in Cleaner, PatchInvalid(c)
  PROVE  CleanupInv'
<1> USE InvParts
<1>1. ObjectsOK' /\ ObjStep
  BY ObjectsUnchanged DEF PatchInvalid, clusterVars
<1>2. obj' \in [Object -> ObjState] /\ crds' = crds /\ faults' \in 0..MaxFaults
  BY DEF PatchInvalid, clusterVars, TypeOK, ClusterTypeOK
<1> QED BY <1>1, <1>2, StripEnds DEF PatchInvalid

(* A failed GET or PATCH keeps CleanupInv: the failure is remembered.       *)
LEMMA StripFailsInv ==
  ASSUME CleanupInv, NEW c \in Cleaner, StripFails(c)
  PROVE  CleanupInv'
<1> USE InvParts
<1>1. ObjectsOK' /\ ObjStep
  BY ObjectsUnchanged DEF StripFails
<1>2. obj' \in [Object -> ObjState] /\ crds' = crds
  BY DEF StripFails, TypeOK, ClusterTypeOK
<1>3. faults' \in 0..MaxFaults
  BY FaultBounded DEF StripFails, TypeOK, ClusterTypeOK
<1> QED BY <1>1, <1>2, <1>3, StripEnds DEF StripFails

(* Every step of CleanupPreflightResources keeps CleanupInv.                *)
LEMMA CleanerNextInv ==
  ASSUME CleanupInv, NEW c \in Cleaner, CleanerNext(c)
  PROVE  CleanupInv'
BY DiscoverInv, DiscoverFailsInv, ListInv, ListFailsInv, NextKindInv,
   DeleteItemInv, DeleteItemMissingInv, DeleteItemFailsInv, DeleteAnswerLostInv,
   GetLatestInv, PatchFinalizersInv, PatchAnswerLostInv, PatchInvalidInv, StripMissingInv, StripFailsInv, FinishInv
DEF CleanerNext
-----------------------------------------------------------------------------
(***************************************************************************)
(* The steps of the cluster and of other runs, one lemma each.              *)
(***************************************************************************)

(* A controller that adds its finalizers keeps CleanupInv: it does so on    *)
(* live objects only.                                                       *)
LEMMA ControllerGuardsInv ==
  ASSUME CleanupInv, NEW x \in Object, ControllerGuards(x), cl' = cl
  PROVE  CleanupInv'
<1>1. TypeOK /\ ObjectsOK
  BY DEF CleanupInv
<1>2. obj \in [Object -> ObjState] /\ obj[x].phase = "live"
  BY <1>1 DEF ControllerGuards, TypeOK, ClusterTypeOK
<1>3. /\ obj' = [obj EXCEPT ![x].fin = TRUE]
      /\ \A o \in Object : obj'[o].phase = obj[o].phase
      /\ \A o \in Object : o # x => obj'[o].fin = obj[o].fin
  BY <1>2 DEF ControllerGuards, ObjState
<1>4. obj' \in [Object -> ObjState]
  BY <1>2, <1>3 DEF ObjState
<1>5. TypeOK'
  BY <1>1, <1>4 DEF ControllerGuards, TypeOK, ClusterTypeOK, CleanupTypeOK
<1>6. ObjectsOK'
  BY <1>1, <1>2, <1>3 DEF ControllerGuards, ObjectsOK, Present, KindOf
<1>7. ObjStep
  BY <1>2, <1>3 DEF ObjStep
<1> QED BY <1>5, <1>6, <1>7, NoCleanerMoves

(* A controller that removes its finalizers keeps CleanupInv: what was      *)
(* stripped or deleted stays so.                                            *)
LEMMA ControllerReleasesInv ==
  ASSUME CleanupInv, NEW x \in Object, ControllerReleases(x), cl' = cl
  PROVE  CleanupInv'
<1>1. TypeOK /\ ObjectsOK
  BY DEF CleanupInv
<1>2. obj' \in [Object -> ObjState] /\ ObjectsOK' /\ ObjStep
  BY <1>1, StrippedObjects DEF ControllerReleases
<1>3. TypeOK'
  BY <1>1, <1>2 DEF ControllerReleases, TypeOK, ClusterTypeOK, CleanupTypeOK
<1> QED BY <1>2, <1>3, NoCleanerMoves

(* A pod that has stopped keeps CleanupInv: it was in deletion before.      *)
LEMMA KubeletStopsInv ==
  ASSUME CleanupInv, NEW x \in Object, KubeletStops(x), cl' = cl
  PROVE  CleanupInv'
<1>1. TypeOK /\ ObjectsOK
  BY DEF CleanupInv
<1>2. /\ obj \in [Object -> ObjState] /\ obj[x].phase = "dying"
      /\ obj' = [obj EXCEPT ![x] = Gone]
  BY <1>1 DEF KubeletStops, TypeOK, ClusterTypeOK
<1>3. /\ obj'[x] = Gone
      /\ \A o \in Object \ {x} : obj'[o] = obj[o]
  BY <1>2
<1>4. TypeOK'
  <2>1. obj' \in [Object -> ObjState]
    BY <1>2 DEF Gone, ObjState, Phase
  <2> QED BY <1>1, <2>1 DEF KubeletStops, TypeOK, ClusterTypeOK, CleanupTypeOK
<1>5. ObjectsOK'
  BY <1>1, <1>3 DEF KubeletStops, Gone, ObjectsOK, Present, KindOf
<1>6. ObjStep
  BY <1>2, <1>3 DEF Gone, ObjStep
<1> QED BY <1>4, <1>5, <1>6, NoCleanerMoves

(* An object created by another run keeps CleanupInv: only objects that     *)
(* were live at the call are owed.                                          *)
LEMMA OtherRunCreatesInv ==
  ASSUME CleanupInv, NEW x \in Object, x \notin Foreign, OtherRunCreates(x)
  PROVE  CleanupInv'
<1>1. TypeOK /\ ObjectsOK
  BY DEF CleanupInv
<1>2. /\ obj \in [Object -> ObjState] /\ obj[x].phase = "absent"
      /\ obj' = [obj EXCEPT ![x] = Newborn(x)]
      /\ KindOf(x) = "VolumeSnapshot" => "snapshots" \in crds
      /\ UNCHANGED <<crds, faults, cl>>
  BY <1>1 DEF OtherRunCreates, Absent, TypeOK, ClusterTypeOK
<1>3. Newborn(x) \in ObjState /\ Newborn(x).phase = "live"
  BY DEF Newborn, ObjState, Phase
<1>4. /\ obj'[x] = Newborn(x)
      /\ \A o \in Object \ {x} : obj'[o] = obj[o]
  BY <1>2
<1>5. TypeOK'
  <2>1. obj' \in [Object -> ObjState]
    BY <1>2, <1>3
  <2> QED BY <1>1, <1>2, <2>1 DEF TypeOK, ClusterTypeOK, CleanupTypeOK
<1>6. ObjectsOK'
  <2> SUFFICES ASSUME NEW o \in Object
               PROVE  /\ ~(Present(o)') => ~obj'[o].fin
                      /\ KindOf(o) = "VolumeSnapshot" /\ Present(o)' => "snapshots" \in crds
    BY <1>2 DEF ObjectsOK, KindOf
  <2>1. CASE o = x
    BY <2>1, <1>2, <1>3, <1>4 DEF Present
  <2>2. CASE o # x
    BY <2>2, <1>1, <1>4 DEF ObjectsOK, Present
  <2> QED BY <2>1, <2>2
<1>7. ObjStep
  BY <1>2, <1>3, <1>4 DEF ObjStep
<1> QED BY <1>2, <1>5, <1>6, <1>7, NoCleanerMoves

(* A CRD installed by another run keeps CleanupInv: no CRD is taken away.   *)
LEMMA OtherRunInstallsCrdInv ==
  ASSUME CleanupInv, NEW crd \in Crd, OtherRunInstallsCrd(crd)
  PROVE  CleanupInv'
<1>1. TypeOK /\ ObjectsOK
  BY DEF CleanupInv
<1>2. TypeOK'
  BY <1>1 DEF OtherRunInstallsCrd, TypeOK, ClusterTypeOK, CleanupTypeOK
<1>3. ObjectsOK' /\ ObjStep
  BY ObjectsUnchanged DEF OtherRunInstallsCrd
<1> QED BY <1>2, <1>3, NoCleanerMoves DEF OtherRunInstallsCrd

(* Every step of the controllers and the other runs keeps CleanupInv.       *)
LEMMA EnvironmentInv ==
  ASSUME CleanupInv, Environment
  PROVE  CleanupInv'
<1>1. ASSUME NEW o \in Stale \cup Fresh,
             ControllerGuards(o) \/ ControllerReleases(o) \/ KubeletStops(o), cl' = cl
      PROVE  CleanupInv'
  <2>1. o \in Object
    BY SystemAssumption DEF SystemAssumption, Object
  <2> QED BY <1>1, <2>1, ControllerGuardsInv, ControllerReleasesInv, KubeletStopsInv
<1>2. ASSUME NEW o \in Fresh, OtherRunCreates(o)
      PROVE  CleanupInv'
  <2>1. o \in Obj
    BY SystemAssumption DEF SystemAssumption
  <2>2. o \in Object /\ o \notin Foreign
    BY <2>1, ClusterAssumption DEF ClusterAssumption, Object
  <2> QED BY <1>2, <2>2, OtherRunCreatesInv
<1>3. ASSUME NEW crd \in Crd, OtherRunInstallsCrd(crd)
      PROVE  CleanupInv'
  BY <1>3, OtherRunInstallsCrdInv
<1> QED BY <1>1, <1>2, <1>3 DEF Environment
-----------------------------------------------------------------------------
(***************************************************************************)
(* The invariant, and what it implies.                                      *)
(***************************************************************************)

(* CleanupInv holds at the start: no cleaner has been called.               *)
LEMMA InitInv ==
  ASSUME Init
  PROVE  CleanupInv
<1>1. PICK left \in SUBSET Stale :
        /\ (\E o \in left : KindOf(o) = "VolumeSnapshot") => "snapshots" \in crds
        /\ obj = [o \in Object |-> IF o \in left \cup Foreign THEN Leftover(o) ELSE Absent]
  BY DEF Init
<1>2. \A o \in Object : /\ Newborn(o) \in ObjState
                        /\ Leftover(o) = [Newborn(o) EXCEPT !.ready = TRUE]
                        /\ Leftover(o) \in ObjState
  BY DEF Newborn, Leftover, ObjState, Phase
<1>3. Absent \in ObjState /\ Absent.phase = "absent" /\ ~Absent.fin
  BY DEF Absent, ObjState, Phase
<1>4. TypeOK
  <2>1. obj \in [Object -> ObjState]
    BY <1>1, <1>2, <1>3
  <2>2. crds \subseteq Crd
    BY SystemAssumption DEF SystemAssumption, Init
  <2>3. faults \in 0..MaxFaults
    BY ClusterAssumption DEF ClusterAssumption, Init
  <2>4. IdleCleaner \in CleanerState
    BY ClusterAssumption DEF ClusterAssumption, IdleCleaner, CleanerState, CleanerPc
  <2>5. CleanupTypeOK
    BY <2>4 DEF Init, CleanupTypeOK
  <2> QED BY <2>1, <2>2, <2>3, <2>5 DEF TypeOK, ClusterTypeOK
<1>5. ObjectsOK
  <2> SUFFICES ASSUME NEW o \in Object
               PROVE  /\ ~Present(o) => ~obj[o].fin
                      /\ KindOf(o) = "VolumeSnapshot" /\ Present(o) => "snapshots" \in crds
    BY DEF ObjectsOK
  <2>1. CASE o \in left \cup Foreign
    <3>1. obj[o].phase = "live"
      BY <1>1, <2>1 DEF Newborn, Leftover
    <3>2. KindOf(o) = "VolumeSnapshot" => o \in left
      BY <2>1 DEF KindOf
    <3> QED BY <1>1, <3>1, <3>2 DEF Present
  <2>2. CASE o \notin left \cup Foreign
    BY <1>1, <1>3, <2>2 DEF Present
  <2> QED BY <2>1, <2>2
<1>6. ASSUME NEW c \in Cleaner
      PROVE  ControlOK(c) /\ ScopeOK(c) /\ TargetsOK(c) /\ StripsOK(c)
  <2>1. cl[c] = IdleCleaner
    BY DEF Init
  <2> QED BY <2>1 DEF IdleCleaner, ControlOK, ScopeOK, TargetsOK, StripsOK, LastGvk, Working
<1> QED BY <1>4, <1>5, <1>6 DEF CleanupInv

(* Every step of the system keeps CleanupInv.                               *)
LEMMA NextInv ==
  ASSUME CleanupInv, [Next]_vars
  PROVE  CleanupInv'
<1>1. CASE Next
  BY <1>1, InvokeInv, CleanerNextInv, EnvironmentInv DEF Next
<1>2. CASE UNCHANGED vars
  <2>1. TypeOK'
    BY <1>2 DEF vars, CleanupInv, TypeOK, ClusterTypeOK, CleanupTypeOK
  <2>2. ObjectsOK' /\ ObjStep
    BY <1>2, ObjectsUnchanged DEF vars
  <2> QED BY <1>2, <2>1, <2>2, NoCleanerMoves DEF vars
<1> QED BY <1>1, <1>2

(* The cleaners and the cluster keep the invariant: the types, the          *)
(* positions in the GVK list that a cleaner can be at, and the work that a  *)
(* cleaner without a failure still owes.                                    *)
THEOREM CleanupInvHolds == Spec => []CleanupInv
BY InitInv, NextInv, PTL DEF Spec

(* Type correctness, for all values of the constants.                       *)
THEOREM TypesHold == Spec => []TypeOK
<1>1. CleanupInv => TypeOK
  BY DEF CleanupInv
<1> QED BY <1>1, CleanupInvHolds, PTL

(* A call of CleanupPreflightResources that returns nil has deleted all it  *)
(* selected, whatever failed and whoever else was at work.                  *)
THEOREM CleanedOrReportedHolds == Spec => []CleanedOrReported
<1>1. CleanupInv => CleanedOrReported
  <2> SUFFICES ASSUME CleanupInv, NEW c \in Cleaner, cl[c].result = "nil",
                      NEW o \in cl[c].target
               PROVE  obj[o].phase # "live"
    BY DEF CleanedOrReported
  <2>1. cl[c].pc = "done" /\ cl[c].ok
    BY InvParts DEF ControlOK
  <2> QED BY <2>1, InvParts DEF TargetsOK, Working
<1> QED BY <1>1, CleanupInvHolds, PTL

(* And nothing it listed with finalizers is held by one any more.           *)
THEOREM StrippedOrReportedHolds == Spec => []StrippedOrReported
<1>1. CleanupInv => StrippedOrReported
  <2> SUFFICES ASSUME CleanupInv, NEW c \in Cleaner, cl[c].result = "nil",
                      NEW o \in cl[c].strip
               PROVE  ~obj[o].fin
    BY DEF StrippedOrReported
  <2>1. cl[c].pc = "done" /\ cl[c].ok /\ cl[c].items = {}
    BY InvParts DEF ControlOK
  <2> QED BY <2>1, InvParts DEF StripsOK
<1> QED BY <1>1, CleanupInvHolds, PTL

(* What a cleaner selects is in its scope.                                  *)
LEMMA SelectedInScope ==
  ASSUME NEW c \in Cleaner, NEW o \in Mine(c)
  PROVE  InScope(c, o)
BY DEF Mine, Selected, HasTrilioLabel, NsOf, RunLabel, InScope

(* A cleaner ends the life of no object but those it selects.               *)
LEMMA CleanerStaysInScope ==
  ASSUME CleanupInv, NEW c \in Cleaner, CleanerNext(c),
         NEW o \in Object, obj[o].phase = "live", obj'[o].phase # "live"
  PROVE  cl[c].pc = "items" /\ InScope(c, o)
<1> USE InvParts
<1>1. CASE DeleteItem(c) \/ DeleteAnswerLost(c)
  <2>1. NextItem(c) \in cl[c].items /\ NextItem(c).o \in Object
    BY <1>1, NextItemListed DEF DeleteItem, DeleteAnswerLost
  <2>2. \A p \in Object \ {NextItem(c).o} : obj'[p] = obj[p]
    BY <1>1, <2>1, DeletedObjects DEF DeleteItem, DeleteAnswerLost, DeleteThenStrip
  <2>3. o = NextItem(c).o
    BY <2>2
  <2>4. o \in Mine(c)
    BY <2>1, <2>3 DEF ScopeOK
  <2> QED BY <1>1, <2>4, SelectedInScope DEF DeleteItem, DeleteAnswerLost, AtItem
<1>2. CASE PatchFinalizers(c) \/ PatchAnswerLost(c)
  <2>1. cl[c].cur \in Object /\ obj[cl[c].cur].phase \in {"dying", "gone"}
    BY <1>2 DEF PatchFinalizers, PatchAnswerLost, ControlOK
  <2>2. \A p \in Object \ {cl[c].cur} : obj'[p] = obj[p]
    BY <1>2, <2>1, StrippedObjects DEF PatchFinalizers, PatchAnswerLost
  <2> QED BY <2>1, <2>2
<1>3. CASE /\ ~DeleteItem(c) /\ ~DeleteAnswerLost(c)
           /\ ~PatchFinalizers(c) /\ ~PatchAnswerLost(c)
  <2>1. obj' = obj
    BY <1>3 DEF CleanerNext, Discover, DiscoverFails, List, ListFails, NextKind,
                DeleteItemMissing, DeleteItemFails, GetLatest, PatchInvalid,
                StripMissing, StripFails, Finish, clusterVars
  <2> QED BY <2>1
<1> QED BY <1>1, <1>2, <1>3

(* The cluster and other runs end the life of no object.                    *)
LEMMA EnvironmentKills ==
  ASSUME CleanupInv, Environment, NEW o \in Object, obj[o].phase = "live"
  PROVE  obj'[o].phase = "live"
<1>1. TypeOK /\ ObjectsOK /\ obj \in [Object -> ObjState]
  BY DEF CleanupInv, TypeOK, ClusterTypeOK
<1>2. \A x \in Stale \cup Fresh : x \in Object
  BY SystemAssumption DEF SystemAssumption, Object
<1>3. ASSUME NEW x \in Stale \cup Fresh, ControllerGuards(x)
      PROVE  obj'[o].phase = "live"
  BY <1>1, <1>2, <1>3 DEF ControllerGuards, ObjState
<1>4. ASSUME NEW x \in Stale \cup Fresh, ControllerReleases(x)
      PROVE  obj'[o].phase = "live"
  <2>1. obj[x].phase = "dying" /\ \A p \in Object \ {x} : obj'[p] = obj[p]
    BY <1>1, <1>2, <1>4, StrippedObjects DEF ControllerReleases
  <2> QED BY <2>1
<1>5. ASSUME NEW x \in Stale \cup Fresh, KubeletStops(x)
      PROVE  obj'[o].phase = "live"
  BY <1>1, <1>2, <1>5 DEF KubeletStops
<1>6. ASSUME NEW x \in Fresh, OtherRunCreates(x)
      PROVE  obj'[o].phase = "live"
  BY <1>1, <1>2, <1>6 DEF OtherRunCreates, Absent
<1>7. ASSUME NEW crd \in Crd, OtherRunInstallsCrd(crd)
      PROVE  obj'[o].phase = "live"
  BY <1>7 DEF OtherRunInstallsCrd
<1> QED BY <1>3, <1>4, <1>5, <1>6, <1>7 DEF Environment

(* Cleanup of one UID leaves every other run, every other namespace and     *)
(* every unlabelled object alone.                                           *)
THEOREM OnlySelectedDeletedHolds == Spec => OnlySelectedDeleted
<1> DEFINE Kills == \A o \in Object : obj[o].phase = "live" /\ obj'[o].phase # "live" =>
                      \E c \in Cleaner : cl[c].pc = "items" /\ InScope(c, o)
<1>1. CleanupInv /\ [Next]_vars => [Kills]_vars
  <2> SUFFICES ASSUME CleanupInv, Next,
                      NEW o \in Object, obj[o].phase = "live", obj'[o].phase # "live"
               PROVE  \E c \in Cleaner : cl[c].pc = "items" /\ InScope(c, o)
    OBVIOUS
  <2>1. ASSUME NEW c \in Cleaner, Invoke(c)
        PROVE  FALSE
    BY <2>1 DEF Invoke, clusterVars
  <2> QED BY <2>1, CleanerStaysInScope, EnvironmentKills DEF Next
<1> QED BY <1>1, CleanupInvHolds, PTL DEF Spec, OnlySelectedDeleted
=============================================================================
