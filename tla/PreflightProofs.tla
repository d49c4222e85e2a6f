--------------------------- MODULE PreflightProofs ---------------------------
(***************************************************************************)
(* Proofs about the objects of the runs of PreflightSystem, for any number  *)
(* of runs and commands, any input and any number of failures: who takes an *)
(* object away, what the volume snapshot check may create and when, and     *)
(* what a cleanup at the end of a run leaves behind.                        *)
(*                                                                         *)
(* Each property has an inductive invariant of its own, on top of RunInv.   *)
(***************************************************************************)
EXTENDS RunProofs

-----------------------------------------------------------------------------
(***************************************************************************)
(* The inductive invariants.                                                *)
(***************************************************************************)

(* What the volume snapshot check has created shows that the class check of *)
(* the run has succeeded.                                                   *)
GatedOK ==
  \A o \in Obj : o.role \in PvcRole \cup SnapRole /\ obj[o].phase # "absent" /\ o \notin Stale =>
    rn[o.run].outcome["snapshotClass"] = "ok"

SrcPod(u)    == [run |-> u, role |-> "srcPod"]
UnmntSnap(u) == [run |-> u, role |-> "unmntSnap"]

(* The deletion of the source pod has been accepted.                        *)
Leaving(u) == obj[SrcPod(u)].phase \in {"dying", "gone"}

(* The fourteenth step of the volume snapshot check deletes the source pod: *)
(* a run that is past it, or in the middle of it, has had it accepted, and  *)
(* only such a run asks for the second snapshot.                            *)
PastDelete(u) == rn[u].k > 11 \/ (rn[u].k = 11 /\ rn[u].step > 14)

SourceOK(u) ==
  /\ rn[u].k = 11 /\ rn[u].step > 14 => Leaving(u)
  /\ rn[u].k = 11 /\ rn[u].step = 14 /\ rn[u].sub # "call" => Leaving(u)
  /\ obj[UnmntSnap(u)].phase # "absent" => Leaving(u) /\ PastDelete(u)

(* A snapshot was made in a cluster that has their CRD, and CRDs stay.      *)
SnapshotsServed(u) ==
  \A o \in Obj : o.run = u /\ KindOf(o) = "VolumeSnapshot" /\ obj[o].phase # "absent" =>
    "snapshots" \in crds

(* A cleaner with record r still has to come to object o: to its kind, or   *)
(* to it among the listed objects of its kind.                              *)
Awaits(r, o) ==
  \E i \in 1..(r.vers + 2) :
    /\ GvkList(r.vers)[i] = KindOf(o)
    /\ \/ i > r.idx
       \/ i = r.idx /\ r.pc = "list"
       \/ i = r.idx /\ \E it \in r.items : it.o = o

Sweeping == {"list", "items", "get", "patch"}

Left(u) == {o \in Live(u) : o.role \notin CapRole}

(* As long as nothing has failed, the cleanup of a run still has to come to *)
(* whatever is live, and when it returns without an error nothing is.       *)
SweepOK(u) ==
  /\ cl[u].pc \in {"idle", "discover"} => cl[u].idx = 1
  /\ cl[u].pc \in Sweeping /\ cl[u].ok => \A o \in Left(u) : Awaits(cl[u], o)
  /\ cl[u].result = "nil" => cl[u].pc = "done" /\ Left(u) = {}

SweepInv == RunInv /\ \A u \in Active : SnapshotsServed(u) /\ SweepOK(u)

GatedInv == RunInv /\ GatedOK

SourceInv == RunInv /\ \A u \in Active : SourceOK(u)
-----------------------------------------------------------------------------
(***************************************************************************)
(* What any step does to an object, to a run and to the cleaner of a run.   *)
(***************************************************************************)

(* The step of a run takes away nothing but the run's own objects.          *)
LEMMA RunWorld ==
  ASSUME RunInv, NEW u \in Active, RunNext(u)
  PROVE  /\ crds \subseteq crds' /\ Killed \subseteq Own(u) /\ (Ages \/ Creates(u))
         /\ cl' = cl \/ Decide(u)
         /\ \A v \in Run \ {u} : rn'[v] = rn[v]
<1>1. u \in Run /\ SetupInv
  BY PreflightAssumption DEF RunInv
<1>2. Placed(rn[u]) /\ ClusterTypeOK /\ rn \in [Run -> RunState]
  BY <1>1, InvFacts
<1>3. \A v \in Run \ {u} : rn'[v] = rn[v]
  BY <1>1, <1>2, RunSteps, CourseMoves
<1>4. CASE Plain(u)
  BY <1>1, <1>2, <1>3, <1>4, PlainWorld
<1>5. CASE Decide(u) \/ BeginSetup(u) \/ EndSetup(u)
  <2>1. obj' = obj /\ crds' = crds /\ (cl' = cl \/ Decide(u))
    BY <1>5 DEF Decide, BeginSetup, EndSetup, clusterVars
  <2> QED BY <1>3, <2>1, SameObjects
<1>6. CASE SetupNext(u) /\ UNCHANGED <<cl, runVars>>
  <2>1. obj' = obj /\ crds \subseteq crds'
    BY <1>1, <1>6, SetupStepKeeps, SetupCourse DEF WorldStep
  <2> QED BY <1>3, <1>6, <2>1, SameObjects
<1> QED BY <1>4, <1>5, <1>6 DEF RunNext, Plain

LEMMA LaunchWorld ==
  ASSUME RunInv, NEW u \in Active, Launch(u)
  PROVE  /\ UNCHANGED <<obj, crds, cl>> /\ rn[u].k = 0 /\ rn'[u].k = 1
         /\ \A v \in Run \ {u} : rn'[v] = rn[v]
<1>1. u \in Run /\ rn \in [Run -> RunState]
  BY PreflightAssumption DEF RunInv, RunTypeOK
<1>2. /\ rn[u].k = 0 /\ rn' = [rn EXCEPT ![u] = rn'[u]] /\ rn'[u].k = 1
      /\ UNCHANGED <<clusterVars, cl>>
  BY LaunchFacts
<1> QED BY <1>1, <1>2 DEF clusterVars

LEMMA CleanerWorld ==
  ASSUME RunInv, NEW c \in Cleaner, CleanerStep(c)
  PROVE  /\ crds' = crds /\ Ages /\ rn' = rn
         /\ \A o \in Killed : cl[c].pc = "items" /\ o \in Mine(c)
         /\ \A d \in Cleaner \ {c} : cl'[d] = cl[d]
<1>1. CleanerNext(c) /\ rn' = rn /\ ClusterTypeOK /\ CleanupTypeOK /\ CleanerOK(c)
  BY DEF CleanerStep, runVars, RunInv, SetupInv
<1>2. /\ CleanerKeeps(c) /\ crds' = crds /\ Ages
      /\ \A o \in Killed : cl[c].pc = "items" /\ \E it \in cl[c].items : it.o = o
  BY <1>1, CleanerSteps
<1>3. \A d \in Cleaner \ {c} : cl'[d] = cl[d]
  BY <1>1, <1>2 DEF CleanerKeeps, CleanupTypeOK
<1>4. \A it \in cl[c].items : it.o \in Mine(c)
  BY <1>1 DEF CleanerOK
<1> QED BY <1>1, <1>2, <1>3, <1>4

LEMMA InvokeWorld ==
  ASSUME RunInv, NEW c \in Cli, Invoke(c)
  PROVE  UNCHANGED <<obj, crds, rn>> /\ \A d \in Cleaner \ {c} : cl'[d] = cl[d]
<1>1. UNCHANGED <<obj, crds, rn>>
  BY DEF Invoke, clusterVars, runVars
<1>2. cl \in [Cleaner -> CleanerState]
  BY DEF RunInv, CleanupTypeOK
<1>3. \A d \in Cleaner \ {c} : cl'[d] = cl[d]
  BY <1>2 DEF Invoke, StartCleanup
<1> QED BY <1>1, <1>3

LEMMA ControllerWorld ==
  ASSUME RunInv, NEW o \in Obj, ClusterStep(o)
  PROVE  UNCHANGED <<crds, cl, rn>> /\ Ages /\ Killed = {}
<1>1. ClusterTypeOK /\ RunTypeOK
  BY DEF RunInv, SetupInv
<1> QED BY <1>1, ClusterSteps

(* The actor of a step.                                                     *)
LEMMA Actors ==
  ASSUME [Next]_vars
  PROVE  \/ \E u \in Active : RunNext(u)
         \/ \E u \in Active : Launch(u)
         \/ \E c \in Cleaner : CleanerStep(c)
         \/ \E c \in Cli : Invoke(c)
         \/ \E o \in Obj : ClusterStep(o)
         \/ UNCHANGED <<obj, crds, cl, rn, asked>>
BY DEF Next, vars

(* CRDs stay.  An object of a run only gets older, unless its run creates   *)
(* it.                                                                      *)
LEMMA ObjectMoves ==
  ASSUME RunInv, [Next]_vars, NEW o \in Obj
  PROVE  /\ crds \subseteq crds'
         /\ \/ /\ obj'[o].phase = "absent" <=> obj[o].phase = "absent"
               /\ obj[o].phase # "live" => obj'[o].phase # "live"
            \/ /\ o.run \in Active /\ RunNext(o.run)
               /\ Creates(o.run) /\ Target(o.run) = o /\ obj'[o].phase = "live"
<1>0. o \in Object /\ obj \in [Object -> ObjState]
  BY DEF Object, RunInv, SetupInv, ClusterTypeOK
<1>1. CASE Ages /\ crds \subseteq crds'
  BY <1>0, <1>1 DEF Ages
<1>2. ASSUME NEW u \in Active, RunNext(u), Creates(u), crds \subseteq crds', ~Ages
      PROVE  \/ obj'[o] = obj[o]
             \/ o.run = u /\ Target(u) = o /\ obj'[o].phase = "live"
  <2>1. Target(u).run = u
    BY DEF Target
  <2>2. Newborn(Target(u)).phase = "live"
    BY DEF Newborn
  <2> QED BY <1>0, <1>2, <2>1, <2>2 DEF Creates
<1>3. CASE \E u \in Active : RunNext(u)
  BY <1>1, <1>2, <1>3, RunWorld
<1>4. CASE UNCHANGED <<obj, crds>>
  BY <1>1, <1>4, SameObjects
<1> QED BY <1>1, <1>3, <1>4, Actors, LaunchWorld, CleanerWorld, InvokeWorld, ControllerWorld

(* A run is moved by nobody else.                                           *)
LEMMA RecordMoves ==
  ASSUME RunInv, [Next]_vars, NEW u \in Run
  PROVE  rn'[u] = rn[u] \/ (u \in Active /\ (RunNext(u) \/ Launch(u)))
<1>1. CASE \E v \in Active : RunNext(v)
  BY <1>1, RunWorld
<1>2. CASE \E v \in Active : Launch(v)
  BY <1>2, LaunchWorld
<1> QED BY <1>1, <1>2, Actors, CleanerWorld, InvokeWorld, ControllerWorld

(* Nor is the cleaner of a run, which its run starts.                       *)
LEMMA CleanerMoves ==
  ASSUME RunInv, [Next]_vars, NEW u \in Active
  PROVE  cl'[u] = cl[u] \/ CleanerStep(u) \/ Decide(u)
<1>0. u \in Cleaner /\ u \notin Cli /\ cl \in [Cleaner -> CleanerState]
  BY PreflightAssumption, RunAssumption DEF RunInv, CleanupTypeOK
<1>1. CASE \E v \in Active : RunNext(v)
  <2>1. ASSUME NEW v \in Active, Decide(v), v # u PROVE cl'[u] = cl[u]
    BY <1>0, <2>1 DEF Decide, StartCleanup
  <2> QED BY <1>1, <2>1, RunWorld
<1> QED BY <1>0, <1>1, Actors, LaunchWorld, CleanerWorld, InvokeWorld, ControllerWorld
-----------------------------------------------------------------------------
(***************************************************************************)
(* Who takes objects away.                                                  *)
(***************************************************************************)

(* The objects a cleaner selects were made by a run; the cleaner of a run   *)
(* selects only what that run has made.                                     *)
LEMMA MineFacts ==
  ASSUME RunInv, NEW c \in Cleaner, cl[c].pc = "items", NEW o \in Mine(c)
  PROVE  /\ o \in Obj /\ o \notin Foreign
         /\ \/ o.run \in Active
            \/ c \in Cli /\ Asked(c, "uid") \in {o.run, NoUid}
<1>1. o \in Object /\ o \notin Foreign /\ (cl[c].uid = NoUid \/ o.run = cl[c].uid)
  BY DEF Mine, Selected, HasTrilioLabel, RunLabel
<1>2. \/ c \in Active /\ cl[c].uid = c
      \/ c \in Cli /\ cl[c].uid = Asked(c, "uid")
  BY DEF RunInv, CleanerOK
<1>3. c \in Active => c \in Run /\ c # NoUid
  BY PreflightAssumption, CleanupAssumption
<1> QED BY <1>1, <1>2, <1>3 DEF Object

(* An object of another run, or of another program, is taken away only by a *)
(* cleanup command that was asked for that run, or for all.                 *)
LEMMA StepSpares ==
  ASSUME RunInv, [Next]_vars, NEW o \in Killed, o \in Foreign \/ o.run \notin Active
  PROVE  \E c \in Cli : /\ cl[c].pc = "items" /\ o \notin Foreign
                        /\ Asked(c, "uid") \in {o.run, NoUid}
<1>1. CASE \E u \in Active : RunNext(u)
  <2>1. PICK u \in Active : Killed \subseteq Own(u)
    BY <1>1, RunWorld
  <2>2. o \in Obj /\ o.run = u
    BY <2>1 DEF Own
  <2> QED BY <2>2, ClusterAssumption
<1>2. CASE UNCHANGED obj
  BY <1>2, SameObjects
<1>3. CASE \E c \in Cleaner : CleanerStep(c)
  <2>1. PICK c \in Cleaner : cl[c].pc = "items" /\ o \in Mine(c)
    BY <1>3, CleanerWorld
  <2> QED BY <2>1, MineFacts
<1>4. CASE \E p \in Obj : ClusterStep(p)
  BY <1>4, ControllerWorld
<1> QED BY <1>1, <1>2, <1>3, <1>4, Actors, LaunchWorld, InvokeWorld

(* Whatever the runs do, and their cleanups: the objects of the other runs  *)
(* and of other programs stay, but for the cleanup commands that are meant  *)
(* for them (CleanupPreflightResources and its label selector).             *)
THEOREM OthersAreSparedHolds == Spec => OthersAreSpared
<1> DEFINE Spares == \A o \in Object :
                       /\ obj[o].phase = "live" /\ obj'[o].phase # "live"
                       /\ o \in Foreign \/ o.run \notin Active
                       => \E c \in Cli : /\ cl[c].pc = "items"
                                         /\ o \notin Foreign
                                         /\ Asked(c, "uid") \in {o.run, NoUid}
<1>1. RunInv /\ [Next]_vars => Spares
  BY StepSpares DEF Killed
<1>2. RunInv /\ [Next]_vars => [Spares]_vars
  BY <1>1
<1> QED BY <1>2, RunInvHolds, PTL DEF Spec, OthersAreSpared
-----------------------------------------------------------------------------
(***************************************************************************)
(* What the volume snapshot check may create.                               *)
(***************************************************************************)

(* An outcome that is settled stays.                                        *)
LEMMA OutcomeStays ==
  ASSUME RunInv, [Next]_vars, NEW u \in Run, NEW check \in Check,
         rn[u].outcome[check] # "todo"
  PROVE  rn'[u].outcome[check] = rn[u].outcome[check]
<1>1. rn \in [Run -> RunState] /\ rn[u] \in RunState /\ Placed(rn[u]) /\ ClusterTypeOK /\ OrderlyOK(rn[u])
  BY InvFacts DEF FlowOK
<1>2. PICK i \in 1..11 : check = CheckOrder[i]
  BY ElevenChecks DEF Check
<1>3. i < rn[u].k
  <2>1. rn[u].k \in 0..14
    BY <1>1, ElevenChecks DEF RunState
  <2> QED BY <1>1, <1>2, <2>1 DEF OrderlyOK
<1>4. CASE u \in Active /\ RunNext(u)
  <2>1. CourseStep(u)
    BY <1>1, <1>4, RunSteps
  <2>2. CASE Stays(rn[u], rn'[u])
    BY <2>2 DEF Stays
  <2>3. ASSUME NEW res \in {"ok", "failed", "skipped"}, Checking(u), Settles(rn[u], rn'[u], res)
        PROVE  rn'[u].outcome[check] = rn[u].outcome[check]
    <3>1. /\ rn'[u].outcome = [rn[u].outcome EXCEPT ![CheckOrder[rn[u].k]] = res]
          /\ rn[u].k \in 1..11 /\ rn[u].outcome \in [Check -> {"todo", "ok", "failed", "skipped"}]
      BY <1>1, <2>3, CheckingFacts DEF Settles
    <3>2. rn[u].outcome[CheckOrder[rn[u].k]] = "todo"
      BY <1>1, <3>1 DEF OrderlyOK
    <3> QED BY <3>1, <3>2
  <2>4. CASE Decides(rn[u], rn'[u]) \/ Returns(rn[u], rn'[u])
    BY <1>1, <2>4, EndingFacts
  <2> QED BY <2>1, <2>2, <2>3, <2>4 DEF CourseStep
<1>5. CASE u \in Active /\ Launch(u)
  BY <1>3, <1>5, LaunchWorld
<1> QED BY <1>4, <1>5, RecordMoves

(* The volume snapshot check begins only after the class check succeeded.   *)
LEMMA CreatesGated ==
  ASSUME RunInv, NEW u \in Active, Creates(u), Target(u).role \in PvcRole \cup SnapRole
  PROVE  rn[u].outcome["snapshotClass"] = "ok"
<1>1. u \in Run /\ Checking(u) /\ ~Skips(u) /\ StepOf(u).op \in ObjectOp
  BY PreflightAssumption DEF Creates, At, ObjectOp
<1>2. rn[u] \in RunState /\ Placed(rn[u]) /\ OrderlyOK(rn[u]) /\ StorageOK(rn[u])
  BY <1>1, InvFacts DEF FlowOK
<1>3. rn[u].k = 11 /\ CheckOf(u) = CheckOrder[rn[u].k]
  BY <1>1, <1>2, AtObject, CheckingFacts
<1>4. CheckOf(u) = "volumeSnapshot"
  BY <1>3, Positions
<1>5. rn[u].storageOk
  BY <1>1, <1>4 DEF Skips
<1>6. rn[u].outcome["snapshotClass"] # "todo"
  BY <1>2, <1>3, NamedChecks
<1> QED BY <1>2, <1>5, <1>6 DEF StorageOK

LEMMA NextGated == GatedInv /\ [Next]_vars => GatedInv'
<1> SUFFICES ASSUME GatedInv, [Next]_vars PROVE GatedInv'
  OBVIOUS
<1>1. RunInv /\ RunInv'
  BY NextRunInv DEF GatedInv
<1>2. GatedOK'
  <2> SUFFICES ASSUME NEW o \in Obj, o.role \in PvcRole \cup SnapRole, obj'[o].phase # "absent",
                      o \notin Stale
               PROVE  rn'[o.run].outcome["snapshotClass"] = "ok"
    BY DEF GatedOK
  <2>1. o.run \in Run /\ "snapshotClass" \in Check
    BY ElevenChecks DEF Obj
  <2>2. rn[o.run].outcome["snapshotClass"] = "ok"
    BY <1>1, ObjectMoves, CreatesGated DEF GatedInv, GatedOK
  <2> QED BY <1>1, <2>1, <2>2, OutcomeStays
<1> QED BY <1>1, <1>2 DEF GatedInv

(* At first there is nothing of the runs that are performed.                *)
LEMMA NothingYet ==
  ASSUME Init, NEW o \in Obj, o \notin Stale
  PROVE  obj[o].phase = "absent"
<1>1. o \in Object /\ o \notin Foreign
  BY ClusterAssumption DEF Object
<1> QED BY <1>1 DEF Init, Absent

LEMMA InitGated == Init => GatedInv
BY InitRunInv, NothingYet DEF GatedInv, GatedOK

(* validateStorageSnapshotClass stands before the volume snapshot check: a  *)
(* claim or a snapshot of a run shows that the check has found or made a    *)
(* class, which is still there and fits the storage class.                  *)
THEOREM SnapshotCheckIsGatedHolds == Spec => []SnapshotCheckIsGated
<1>1. GatedInv => SnapshotCheckIsGated
  <2> SUFFICES ASSUME GatedInv, NEW o \in Obj, o.role \in PvcRole \cup SnapRole,
                      obj[o].phase # "absent", o \notin Stale
               PROVE  /\ rn[o.run].outcome["snapshotClass"] = "ok"
                      /\ su[o.run].chosen \in classes \cap (Matching \cup Generated)
    BY DEF SnapshotCheckIsGated
  <2>1. o.run \in Run /\ rn[o.run].outcome["snapshotClass"] = "ok"
    BY DEF GatedInv, GatedOK, Obj
  <2>2. PhaseOK(o.run) /\ PromiseOK(o.run)
    BY <2>1 DEF GatedInv, RunInv, SetupInv, RunOK
  <2> QED BY <2>1, <2>2 DEF PhaseOK, PromiseOK
<1> QED BY <1>1, InitGated, NextGated, PTL DEF Spec
-----------------------------------------------------------------------------
(***************************************************************************)
(* The second snapshot.                                                     *)
(***************************************************************************)

(* Where a run gets to from record r: the check ends, the step goes on, or  *)
(* the next one begins.                                                     *)
Ends(r, s)  == s.k = r.k + 1 /\ s.step = 1 /\ s.sub = "call"
Lasts(r, s) == s.k = r.k /\ s.step = r.step /\ s.sub = r.sub
Turns(r, s) == s.k = r.k /\ s.step = r.step + 1 /\ s.sub = "call"

(* A deletion goes on: it has been accepted, now or before, or the check is *)
(* one that does not mind.                                                  *)
Deletes(u) ==
  /\ StepOf(u).op = "delete"
  /\ rn'[u].k = rn[u].k
  /\ rn'[u].step = rn[u].step \/ Turns(rn[u], rn'[u])
  /\ \/ obj' = Deleted(Target(u)) /\ Present(Target(u))
     \/ rn[u].sub # "call"
     \/ CheckOf(u) # "volumeSnapshot"

LEMMA ProceedPlace ==
  ASSUME NEW u \in Run, Placed(rn[u]), Checking(u)
  PROVE  /\ Ends(rn[u], Proceed(u)) \/ Turns(rn[u], Proceed(u))
         /\ Proceed(u) \in RunState
<1>1. rn[u] \in RunState /\ rn[u].k \in 1..11 /\ Proceed(u) \in RunState
  BY CheckingFacts, ProceedFacts DEF Placed
<1>2. CASE rn[u].step < Len(StepsOf[CheckOf(u)])
  <2>1. Proceed(u) = [rn[u] EXCEPT !.step = @ + 1, !.sub = "call", !.polls = 0]
    BY <1>2 DEF Proceed
  <2> QED BY <1>1, <2>1 DEF RunState, Turns
<1>3. CASE ~(rn[u].step < Len(StepsOf[CheckOf(u)]))
  <2>1. Proceed(u) = Conclude(u, "ok")
    BY <1>3 DEF Proceed
  <2> QED BY <1>1, <2>1 DEF Conclude, RunState, Ends
<1> QED BY <1>1, <1>2, <1>3

LEMMA FailPlace ==
  ASSUME NEW u \in Run, Placed(rn[u]), rn \in [Run -> RunState], Checking(u), Fail(u)
  PROVE  Ends(rn[u], rn'[u])
<1> DEFINE c == Conclude(u, "failed")
<1>1. rn[u] \in RunState /\ rn[u].k \in 1..11 /\ c \in RunState
  BY CheckingFacts, ConcludeFacts DEF Placed
<1>2. c.k = rn[u].k + 1 /\ c.step = 1 /\ c.sub = "call"
  BY <1>1 DEF Conclude, RunState
<1>3. rn'[u] = [c EXCEPT !.status    = FALSE,
                         !.storageOk = @ /\ CheckOf(u) \notin {"storageClass", "snapshotClass"},
                         !.skipClass = @ \/ CheckOf(u) = "storageClass"]
  BY DEF Fail
<1> HIDE DEF c
<1> QED BY <1>1, <1>2, <1>3 DEF RunState, Ends

LEMMA Places ==
  ASSUME NEW u \in Run, Placed(rn[u]), rn \in [Run -> RunState], RunNext(u)
  PROVE  \/ rn[u].k >= 12 /\ rn'[u].k >= 12
         \/ Ends(rn[u], rn'[u]) \/ Lasts(rn[u], rn'[u])
         \/ Turns(rn[u], rn'[u]) /\ StepOf(u).op # "delete"
         \/ Deletes(u)
<1>0. rn[u] \in RunState /\ \A x : rn' = [rn EXCEPT ![u] = x] => rn'[u] = x
  OBVIOUS
<1>a. ASSUME Checking(u), Advance(u) PROVE Ends(rn[u], rn'[u]) \/ Turns(rn[u], rn'[u])
  <2>1. rn'[u] = Proceed(u)
    BY <1>0, <1>a DEF Advance
  <2> QED BY <1>a, <2>1, ProceedPlace
<1>1. CASE Decide(u) \/ Return(u)
  <2>1. rn[u].k \in {12, 13} /\ rn'[u].k \in {13, 14}
    BY <1>0, <1>1, ElevenChecks DEF Decide, Return, Deciding, Cleaning, Returned, RunState
  <2> QED BY <2>1
<1>2. CASE SkipCheck(u)
  <2>1. rn'[u] = Conclude(u, "skipped") /\ rn[u].k \in 1..11
    BY <1>0, <1>2, CheckingFacts DEF SkipCheck
  <2> QED BY <1>0, <2>1 DEF Conclude, RunState, Ends
<1>3. CASE CallFails(u) \/ CreateAnswerLost(u) \/ ObjectMissing(u)
  <2>1. Checking(u) /\ Fail(u)
    BY <1>3 DEF CallFails, CreateAnswerLost, ObjectMissing, At
  <2> QED BY <2>1, FailPlace
<1>4. CASE BeginSetup(u) \/ (SetupNext(u) /\ UNCHANGED <<cl, runVars>>)
  BY <1>4 DEF BeginSetup, runVars, Lasts
<1>5. CASE EndSetup(u) \/ ProbePasses(u) \/ Create(u) \/ PollReady(u) \/ Exec(u)
  <2>1. Checking(u) /\ (Advance(u) \/ Fail(u)) /\ StepOf(u).op # "delete"
    BY <1>5 DEF EndSetup, ProbePasses, Create, PollReady, Exec, At
  <2> QED BY <1>a, <2>1, FailPlace
<1>6. CASE PollAgain(u)
  <2>1. Checking(u)
    BY <1>6 DEF PollAgain, At
  <2>2. CASE rn' = [rn EXCEPT ![u].polls = @ + 1]
    BY <1>0, <2>2 DEF RunState, Lasts
  <2> QED BY <1>6, <2>1, <2>2, FailPlace DEF PollAgain
<1>7. CASE Fetch(u)
  <2>1. Checking(u) /\ rn'[u] = [Proceed(u) EXCEPT !.fin = obj[Target(u)].fin] /\ StepOf(u).op # "delete"
    BY <1>0, <1>7 DEF Fetch, At
  <2>2. Proceed(u) \in RunState /\ (Ends(rn[u], Proceed(u)) \/ Turns(rn[u], Proceed(u)))
    BY <2>1, ProceedPlace
  <2>3. /\ rn'[u].k = Proceed(u).k /\ rn'[u].step = Proceed(u).step
        /\ rn'[u].sub = Proceed(u).sub
    BY <2>1, <2>2 DEF RunState
  <2> QED BY <2>1, <2>2, <2>3 DEF Ends, Turns
<1>8. CASE Delete(u)
  <2>1. /\ Checking(u) /\ StepOf(u).op = "delete" /\ obj' = Deleted(Target(u)) /\ Present(Target(u))
        /\ rn' = [rn EXCEPT ![u].sub = "get"] \/ Advance(u)
    BY <1>8 DEF Delete, At
  <2>2. CASE rn' = [rn EXCEPT ![u].sub = "get"]
    <3>1. rn'[u].k = rn[u].k /\ rn'[u].step = rn[u].step
      BY <1>0, <2>2 DEF RunState
    <3> QED BY <2>1, <3>1 DEF Deletes
  <2>3. CASE Advance(u)
    BY <1>a, <2>1, <2>3 DEF Deletes, Turns
  <2> QED BY <2>1, <2>2, <2>3
<1>9. CASE DeleteGet(u)
  <2>1. StepOf(u).op = "delete" /\ rn[u].sub = "get" /\ rn' = [rn EXCEPT ![u].sub = "patch"]
    BY <1>9 DEF DeleteGet, At
  <2>2. rn'[u].k = rn[u].k /\ rn'[u].step = rn[u].step
    BY <1>0, <2>1 DEF RunState
  <2> QED BY <2>1, <2>2 DEF Deletes
<1>10. CASE DeletePatch(u)
  <2>1. Checking(u) /\ StepOf(u).op = "delete" /\ rn[u].sub = "patch" /\ Advance(u)
    BY <1>10 DEF DeletePatch, At
  <2> QED BY <1>a, <2>1 DEF Deletes, Turns
<1>11. CASE DeleteFails(u) \/ DeletionAnswerLost(u)
  <2>1. /\ Checking(u) /\ StepOf(u).op = "delete"
        /\ IF CheckOf(u) = "volumeSnapshot" THEN Fail(u) ELSE Advance(u)
    BY <1>11 DEF DeleteFails, DeletionAnswerLost, At
  <2> QED BY <1>a, <2>1, FailPlace DEF Deletes, Turns
<1> QED BY <1>1, <1>2, <1>3, <1>4, <1>5, <1>6, <1>7, <1>8, <1>9, <1>10, <1>11 DEF RunNext

LEMMA AtVolume ==
  ASSUME NEW u \in Run, Placed(rn[u]), rn[u].k = 11
  PROVE  /\ Checking(u) /\ CheckOf(u) = "volumeSnapshot" /\ rn[u].step \in 1..21
         /\ StepOf(u).role \in Mounted \cup {"none"} \/ rn[u].step > 14
         /\ StepOf(u).role \in Unmounted \cup {"none"} \/ rn[u].step <= 14
         /\ rn[u].step = 14 => StepOf(u) = S("delete", "srcPod")
<1>1. Checking(u)
  BY ElevenChecks DEF Checking
<1>2. CheckOf(u) = "volumeSnapshot" /\ rn[u].step \in 1..Len(StepsOf[CheckOf(u)])
  BY <1>1, CheckingFacts, Positions
<1>3. "volumeSnapshot" \in Check
  BY ElevenChecks
<1>4. StepsOf["volumeSnapshot"] = VolumeSteps
  BY <1>3 DEF StepsOf
<1>5. Len(VolumeSteps) = 21
  BY VolumeFit DEF Fits
<1>6. StepOf(u) = VolumeSteps[rn[u].step] /\ rn[u].step \in 1..21
  BY <1>2, <1>4, <1>5 DEF StepOf
<1>7. rn[u].step <= 14 => VolumeSteps[rn[u].step].role \in Mounted \cup {"none"}
  <2>1. rn[u].step <= 14 => rn[u].step \in 1..14
    BY <1>6
  <2> QED BY <2>1, VolumeFit
<1>8. rn[u].step > 14 => VolumeSteps[rn[u].step].role \in Unmounted \cup {"none"}
  <2>1. rn[u].step > 14 => rn[u].step \in 15..21
    BY <1>6
  <2> QED BY <2>1, VolumeFit
<1>9. VolumeSteps[14] = S("delete", "srcPod")
  BY VolumeFit
<1> QED BY <1>1, <1>2, <1>6, <1>7, <1>8, <1>9

(* The source pod is created before the step that deletes it, the second    *)
(* snapshot after it.                                                       *)
LEMMA CreationPlaces ==
  ASSUME RunInv, NEW u \in Active, Creates(u)
  PROVE  /\ Target(u) = SrcPod(u) => rn[u].k < 11 \/ (rn[u].k = 11 /\ rn[u].step < 14)
         /\ Target(u) = UnmntSnap(u) => rn[u].k = 11 /\ rn[u].step > 14
<1>1. u \in Run /\ Checking(u) /\ StepOf(u).op = "create" /\ StepOf(u).op \in ObjectOp
  BY PreflightAssumption DEF Creates, At, ObjectOp
<1>2. Placed(rn[u]) /\ rn[u].k \in 1..11
  BY <1>1, InvFacts, CheckingFacts
<1>3. Target(u).role = StepOf(u).role /\ (Target(u).role \in SnapRole => rn[u].k = 11)
  BY <1>1, <1>2, AtObject
<1>4. rn[u].k = 11 => rn[u].step \in 1..21 /\ rn[u].step # 14
  BY <1>1, <1>2, AtVolume DEF S
<1>5. ASSUME Target(u) = SrcPod(u), rn[u].k = 11 PROVE rn[u].step < 14
  <2>1. StepOf(u).role = "srcPod"
    BY <1>3, <1>5 DEF SrcPod
  <2>2. rn[u].step <= 14
    BY <1>1, <1>2, <1>5, <2>1, AtVolume DEF Unmounted
  <2> QED BY <1>4, <1>5, <2>2
<1>6. ASSUME Target(u) = UnmntSnap(u) PROVE rn[u].k = 11 /\ rn[u].step > 14
  <2>1. StepOf(u).role = "unmntSnap" /\ rn[u].k = 11
    BY <1>3, <1>6 DEF UnmntSnap, SnapRole
  <2> QED BY <1>1, <1>2, <2>1, AtVolume DEF Mounted
<1> QED BY <1>2, <1>5, <1>6

(* The source pod that is leaving does not come back, unless the run        *)
(* creates it.                                                              *)
LEMMA LeavingStays ==
  ASSUME RunInv, [Next]_vars, NEW u \in Active, Leaving(u)
  PROVE  Leaving(u)' \/ (RunNext(u) /\ Creates(u) /\ Target(u) = SrcPod(u))
<1>1. SrcPod(u) \in Obj /\ SrcPod(u).run = u /\ SrcPod(u) \in Object /\ SrcPod(u)' = SrcPod(u)
  BY PreflightAssumption DEF SrcPod, Obj, Role, PodRole, Object
<1>2. RunInv'
  BY NextRunInv
<1>3. obj'[SrcPod(u)].phase \in Phase
  BY <1>1, <1>2 DEF RunInv, SetupInv, ClusterTypeOK, ObjState
<1>4. obj[SrcPod(u)].phase \in {"dying", "gone"}
  BY DEF Leaving
<1>5. \/ obj'[SrcPod(u)].phase # "absent" /\ obj'[SrcPod(u)].phase # "live"
      \/ RunNext(u) /\ Creates(u) /\ Target(u) = SrcPod(u)
  BY <1>1, <1>4, ObjectMoves
<1> QED BY <1>1, <1>3, <1>5 DEF Leaving, Phase

LEMMA SnapshotComes ==
  ASSUME RunInv, [Next]_vars, NEW u \in Active, obj'[UnmntSnap(u)].phase # "absent"
  PROVE  \/ obj[UnmntSnap(u)].phase # "absent"
         \/ RunNext(u) /\ Creates(u) /\ Target(u) = UnmntSnap(u)
<1>1. UnmntSnap(u) \in Obj /\ UnmntSnap(u).run = u
  BY PreflightAssumption DEF UnmntSnap, Obj, Role, SnapRole
<1> QED BY <1>1, ObjectMoves

LEMMA StepSource ==
  ASSUME RunInv, [Next]_vars, NEW u \in Active, SourceOK(u)
  PROVE  SourceOK(u)'
<1>1. u \in Run /\ UnmntSnap(u)' = UnmntSnap(u)
  BY PreflightAssumption DEF UnmntSnap
<1>2. Placed(rn[u]) /\ rn \in [Run -> RunState] /\ rn[u] \in RunState /\ rn[u].k \in 0..14
      /\ rn[u].step \in Nat
  BY <1>1, InvFacts, ElevenChecks DEF RunState
<1>3. CASE RunNext(u)
  <2>1. \/ rn[u].k >= 12 /\ rn'[u].k >= 12
        \/ Ends(rn[u], rn'[u]) \/ Lasts(rn[u], rn'[u])
        \/ Turns(rn[u], rn'[u]) /\ StepOf(u).op # "delete"
        \/ Deletes(u)
    BY <1>1, <1>2, <1>3, Places
  <2>p. ASSUME PastDelete(u) PROVE PastDelete(u)'
    <3>1. \/ rn'[u].k >= 12
          \/ rn'[u].k = rn[u].k + 1
          \/ rn'[u].k = rn[u].k /\ rn'[u].step \in {rn[u].step, rn[u].step + 1}
      BY <2>1 DEF Ends, Lasts, Turns, Deletes
    <3>2. rn[u].k > 11 \/ (rn[u].k = 11 /\ rn[u].step > 14)
      BY <2>p DEF PastDelete
    <3>3. rn'[u].k >= 12 => PastDelete(u)'
      <4>1. rn'[u] \in RunState
        BY <1>1, NextRunInv DEF RunInv, RunTypeOK
      <4>2. rn'[u].k \in 0..14
        BY <4>1, ElevenChecks DEF RunState
      <4> QED BY <4>2 DEF PastDelete
    <3> QED BY <1>2, <3>1, <3>2, <3>3 DEF PastDelete
  <2>l. ASSUME Leaving(u), rn[u].k > 11 \/ (rn[u].k = 11 /\ rn[u].step >= 14) PROVE Leaving(u)'
    BY <1>2, <2>l, LeavingStays, CreationPlaces
  <2>2. ASSUME rn[u].k = 11, rn[u].step = 14, Deletes(u) PROVE Leaving(u)'
    <3>1. StepOf(u) = S("delete", "srcPod") /\ CheckOf(u) = "volumeSnapshot"
      BY <1>1, <1>2, <2>2, AtVolume
    <3>2. Target(u) = SrcPod(u) /\ Target(u) \in Object /\ SrcPod(u)' = SrcPod(u)
      BY <1>1, <3>1 DEF Target, SrcPod, S, Object, Obj, Role, PodRole
    <3>3. CASE obj' = Deleted(Target(u)) /\ Present(Target(u))
      <4>1. ClusterTypeOK
        BY <1>1, InvFacts
      <4>2. obj'[Target(u)].phase \in {"dying", "gone"}
        BY <3>2, <3>3, <4>1, DeletedFacts
      <4> QED BY <3>2, <4>2 DEF Leaving
    <3>4. CASE rn[u].sub # "call"
      BY <2>2, <2>l, <3>4 DEF SourceOK
    <3> QED BY <2>2, <3>1, <3>3, <3>4 DEF Deletes
  <2>3. ASSUME rn'[u].k = 11, rn'[u].step > 14 PROVE Leaving(u)'
    <3>1. rn[u].k = 11 /\ (rn[u].step > 14 \/ (rn[u].step = 14 /\ (Deletes(u) \/ StepOf(u).op # "delete")))
      BY <1>2, <2>1, <2>3 DEF Ends, Lasts, Turns, Deletes
    <3>2. CASE rn[u].step > 14
      BY <1>2, <2>l, <3>1, <3>2 DEF SourceOK
    <3>3. CASE rn[u].step = 14
      <4>1. StepOf(u).op = "delete"
        BY <1>1, <1>2, <3>1, <3>3, AtVolume DEF S
      <4> QED BY <2>2, <3>1, <3>3, <4>1
    <3> QED BY <3>1, <3>2, <3>3
  <2>4. ASSUME rn'[u].k = 11, rn'[u].step = 14, rn'[u].sub # "call" PROVE Leaving(u)'
    <3>1. rn[u].k = 11 /\ rn[u].step = 14 /\ (Deletes(u) \/ rn[u].sub # "call")
      BY <1>2, <2>1, <2>4 DEF Ends, Lasts, Turns, Deletes
    <3> QED BY <2>2, <2>l, <3>1 DEF SourceOK
  <2>5. ASSUME obj'[UnmntSnap(u)].phase # "absent" PROVE Leaving(u)' /\ PastDelete(u)'
    <3>1. PastDelete(u) /\ Leaving(u)
      BY <1>3, <2>5, SnapshotComes, CreationPlaces DEF SourceOK, PastDelete
    <3> QED BY <1>2, <2>p, <2>l, <3>1 DEF PastDelete
  <2> QED BY <1>1, <2>3, <2>4, <2>5 DEF SourceOK
<1>4. CASE ~RunNext(u)
  <2>1. Leaving(u) => Leaving(u)'
    BY <1>4, LeavingStays
  <2>2. obj'[UnmntSnap(u)].phase # "absent" => obj[UnmntSnap(u)].phase # "absent"
    BY <1>4, SnapshotComes
  <2>3. CASE rn'[u] = rn[u]
    BY <1>1, <2>1, <2>2, <2>3 DEF SourceOK, PastDelete
  <2>4. CASE Launch(u)
    <3>1. rn[u].k = 0 /\ rn'[u].k = 1
      BY <2>4, LaunchWorld
    <3> QED BY <1>1, <2>1, <2>2, <3>1 DEF SourceOK, PastDelete
  <2> QED BY <1>1, <1>4, <2>3, <2>4, RecordMoves
<1> QED BY <1>3, <1>4

LEMMA NextSource == SourceInv /\ [Next]_vars => SourceInv'
BY NextRunInv, StepSource DEF SourceInv

LEMMA InitSource == Init => SourceInv
<1> SUFFICES ASSUME Init, NEW u \in Active PROVE SourceOK(u)
  BY InitRunInv DEF SourceInv
<1>1. u \in Run /\ UnmntSnap(u) \in Obj /\ UnmntSnap(u) \notin Stale
  BY PreflightAssumption DEF UnmntSnap, Obj, Role, SnapRole
<1>2. rn[u].k = 0
  BY <1>1 DEF Init, IdleRun
<1> QED BY <1>1, <1>2, NothingYet DEF SourceOK

(* validateVolumeSnapshot asks for the snapshot of the unmounted claim only *)
(* after the deletion of the source pod has been accepted.                  *)
THEOREM SecondSnapshotAfterDeleteHolds == Spec => []SecondSnapshotAfterDelete
<1>1. SourceInv => SecondSnapshotAfterDelete
  BY DEF SourceInv, SourceOK, Leaving, SrcPod, UnmntSnap, SecondSnapshotAfterDelete
<1> QED BY <1>1, InitSource, NextSource, PTL DEF Spec
-----------------------------------------------------------------------------
(***************************************************************************)
(* What a cleanup at the end of a run leaves behind.                        *)
(***************************************************************************)

(* The list of kinds has every kind, the snapshots if their API is served.  *)
LEMMA EveryKindListed ==
  ASSUME NEW vers \in Nat, NEW o \in Obj, KindOf(o) = "VolumeSnapshot" => vers # 0
  PROVE  \E i \in 1..(vers + 2) : GvkList(vers)[i] = KindOf(o)
<1>1. KindOf(o) \in {"Pod", "PVC", "VolumeSnapshot"}
  BY DEF KindOf
<1>2. CASE KindOf(o) = "Pod"
  <2>1. vers + 2 \in 1..(vers + 2)
    OBVIOUS
  <2>2. GvkList(vers)[vers + 2] = "Pod"
    BY <2>1 DEF GvkList
  <2> QED BY <1>2, <2>1, <2>2
<1>3. CASE KindOf(o) = "PVC"
  <2>1. vers + 1 \in 1..(vers + 2)
    OBVIOUS
  <2>2. GvkList(vers)[vers + 1] = "PVC"
    BY <2>1 DEF GvkList
  <2> QED BY <1>3, <2>1, <2>2
<1>4. CASE KindOf(o) = "VolumeSnapshot"
  <2>1. 1 \in 1..(vers + 2) /\ 1 <= vers
    BY <1>4
  <2>2. GvkList(vers)[1] = "VolumeSnapshot"
    BY <2>1 DEF GvkList
  <2> QED BY <1>4, <2>1, <2>2
<1> QED BY <1>1, <1>2, <1>3, <1>4

(* The cleanup of a run begins when the run creates nothing any more.       *)
LEMMA CleanerOfRun ==
  ASSUME RunInv, NEW u \in Active, cl[u].pc # "idle"
  PROVE  cl[u].uid = u /\ cl[u].ns = RunNs[u] /\ rn[u].k >= 13 /\ ~Checking(u)
<1>1. u \in Cleaner /\ u \notin Cli /\ u \in Run
  BY PreflightAssumption, RunAssumption
<1>2. cl[u].uid = u /\ cl[u].ns = RunNs[u] /\ rn[u].k >= 13
  BY <1>1 DEF RunInv, CleanerOK
<1> QED BY <1>2, ElevenChecks DEF Checking

LEMMA LeftShrinks ==
  ASSUME RunInv, [Next]_vars, NEW u \in Active, cl[u].pc # "idle"
  PROVE  Left(u)' \subseteq Left(u)
<1>1. ~Creates(u)
  BY CleanerOfRun DEF Creates, At
<1> SUFFICES ASSUME NEW o \in Left(u)' PROVE o \in Left(u)
  OBVIOUS
<1>2. o \in Obj /\ o.run = u /\ obj'[o].phase = "live" /\ o.role \notin CapRole
  BY DEF Left, Live
<1>3. obj[o].phase = "live"
  BY <1>1, <1>2, ObjectMoves
<1> QED BY <1>2, <1>3 DEF Left, Live

(* Listing the kind of an object of the run finds it.                       *)
LEMMA ListFinds ==
  ASSUME RunInv, NEW u \in Active, cl[u].pc # "idle", NEW o \in Left(u),
         GvkList(cl[u].vers)[cl[u].idx] = KindOf(o)
  PROVE  \E it \in ListedItems(u) : it.o = o
<1>1. o \in Obj /\ o.run = u /\ obj[o].phase = "live" /\ o.role \notin CapRole
  BY DEF Left, Live
<1>2. o \in Object /\ o \notin Foreign
  BY <1>1, ClusterAssumption DEF Object
<1>3. cl[u].uid = u /\ cl[u].ns = RunNs[u]
  BY CleanerOfRun
<1>4. NsOf(o) = RunNs[u]
  BY <1>1, <1>2 DEF NsOf
<1>5. RunLabel(o) = [index |-> "", uid |-> u]
  BY <1>1 DEF RunLabel
<1>6. HasTrilioLabel(o) /\ Present(o)
  BY <1>1, <1>2 DEF HasTrilioLabel, Present
<1>7. o \in Mine(u)
  BY <1>2, <1>3, <1>4, <1>5, <1>6 DEF Mine, Selected
<1>8. [o |-> o, fin |-> obj[o].fin] \in ListedItems(u)
  BY <1>6, <1>7 DEF ListedItems
<1> QED BY <1>8

(* A call of the cleaner that adds no object, and takes none off the list   *)
(* but one that is not live any more.                                       *)
LEMMA StillAwaits ==
  ASSUME NEW r \in CleanerState, NEW s \in CleanerState, NEW o, Awaits(r, o),
         s.vers = r.vers, s.idx = r.idx, r.pc # "list",
         \A it \in r.items : it.o = o => it \in s.items
  PROVE  Awaits(s, o)
BY DEF Awaits

LEMMA SweepStep ==
  ASSUME RunInv, NEW u \in Active, CleanerNext(u), SnapshotsServed(u), SweepOK(u),
         Left(u)' \subseteq Left(u)
  PROVE  SweepOK(u)'
<1> DEFINE r == cl[u]  s == cl'[u]
<1>0. /\ u \in Cleaner /\ cl \in [Cleaner -> CleanerState] /\ r \in CleanerState
      /\ obj \in [Object -> ObjState] /\ ClusterTypeOK /\ CleanupTypeOK
  BY PreflightAssumption, RunAssumption DEF RunInv, CleanupTypeOK, SetupInv, ClusterTypeOK
<1>k. CleanerKeeps(u)
  BY <1>0, CleanerSteps
<1>t. s \in CleanerState /\ r.pc # "idle" /\ r.vers \in Nat /\ r.idx \in Nat
  BY <1>0, <1>k DEF CleanerKeeps, CleanerState
<1>n. r.pc # "done" /\ r.result # "nil"
  <2>1. r.pc # "done"
    BY DEF CleanerNext, Discover, DiscoverFails, List, ListFails, NextKind, AtItem,
           DeleteItem, DeleteItemMissing, DeleteItemFails, DeleteAnswerLost, GetLatest,
           PatchFinalizers, PatchAnswerLost, PatchInvalid, StripMissing, StripFails, Finish
  <2> QED BY <2>1 DEF SweepOK
<1>a. ASSUME r.pc \in Sweeping, r.ok, NEW o \in Left(u)' PROVE Awaits(r, o)
  BY <1>a DEF SweepOK
<1>q. ASSUME s.pc \notin {"idle", "discover"}, s.result # "nil",
             s.pc \in Sweeping /\ s.ok => \A o \in Left(u)' : Awaits(s, o)
      PROVE  SweepOK(u)'
  <2>1. \A o : Awaits(s, o) <=> Awaits(cl[u], o)'
    BY DEF Awaits
  <2> QED BY <1>q, <2>1 DEF SweepOK
<1>1. CASE Discover(u)
  <2>1. cl' = [cl EXCEPT ![u].pc = "list", ![u].vers = ServedVersions] /\ r.pc = "discover"
        /\ obj' = obj
    BY <1>1 DEF Discover, clusterVars
  <2>2. /\ s.pc = "list" /\ s.vers = ServedVersions /\ s.idx = r.idx /\ s.result = r.result
        /\ r.idx = 1
    BY <1>0, <2>1 DEF CleanerState, SweepOK
  <2>3. ASSUME NEW o \in Left(u)' PROVE Awaits(s, o)
    <3>1. o \in Obj /\ o.run = u /\ obj[o].phase = "live"
      BY <2>1, <2>3 DEF Left, Live
    <3>2. KindOf(o) = "VolumeSnapshot" => crds # {}
      BY <3>1 DEF SnapshotsServed
    <3>3. s.vers \in Nat /\ (KindOf(o) = "VolumeSnapshot" => s.vers # 0)
      BY <2>2, <3>2, CleanupAssumption DEF ServedVersions
    <3>4. PICK i \in 1..(s.vers + 2) : GvkList(s.vers)[i] = KindOf(o)
      BY <3>1, <3>3, EveryKindListed
    <3>5. i > s.idx \/ (i = s.idx /\ s.pc = "list")
      BY <2>2, <3>3
    <3> HIDE DEF s
    <3> QED BY <3>4, <3>5 DEF Awaits
  <2> QED BY <1>n, <1>q, <2>2, <2>3
<1>2. CASE DiscoverFails(u) \/ Finish(u)
  <2>1. CASE DiscoverFails(u)
    <3>1. cl' = [cl EXCEPT ![u].pc = "done", ![u].result = "error"]
      BY <2>1 DEF DiscoverFails
    <3>2. s.pc = "done" /\ s.result = "error"
      BY <1>0, <3>1 DEF CleanerState
    <3> QED BY <1>q, <3>2 DEF Sweeping
  <2>2. CASE Finish(u)
    <3>1. /\ cl' = [cl EXCEPT ![u].pc = "done", ![u].result = IF r.ok THEN "nil" ELSE "error"]
          /\ r.pc = "list" /\ r.idx > r.vers + 2
      BY <2>2 DEF Finish, LastGvk
    <3>2. s.pc = "done" /\ s.result = IF r.ok THEN "nil" ELSE "error"
      BY <1>0, <3>1 DEF CleanerState
    <3>3. \A o : ~Awaits(r, o)
      BY <1>t, <3>1 DEF Awaits
    <3>4. r.ok => Left(u)' = {}
      BY <1>a, <3>1, <3>3 DEF Sweeping
    <3> QED BY <3>2, <3>4 DEF SweepOK, Sweeping
  <2> QED BY <1>2, <2>1, <2>2
<1>3. CASE List(u)
  <2> DEFINE L == ListedItems(u)
             strip == r.strip \cup {it.o : it \in {i \in L : i.fin}}
  <2>1. /\ cl' = [cl EXCEPT ![u].pc = "items", ![u].items = L, ![u].strip = strip]
        /\ r.pc = "list"
    BY <1>3 DEF List
  <2> HIDE DEF strip, L
  <2>2. /\ s.pc = "items" /\ s.items = L /\ s.vers = r.vers /\ s.idx = r.idx /\ s.ok = r.ok
        /\ s.result = r.result
    BY <1>0, <2>1 DEF CleanerState
  <2>3. ASSUME r.ok, NEW o \in Left(u)' PROVE Awaits(s, o)
    <3>1. PICK i \in 1..(r.vers + 2) : GvkList(r.vers)[i] = KindOf(o) /\ (i > r.idx \/ i = r.idx)
      BY <1>a, <2>1, <2>3 DEF Awaits, Sweeping
    <3>2. i = r.idx => \E it \in L : it.o = o
      BY <1>t, <2>3, <3>1, ListFinds DEF L
    <3> HIDE DEF r, s
    <3> QED BY <2>2, <3>1, <3>2 DEF Awaits
  <2> QED BY <1>n, <1>q, <2>2, <2>3
<1>4. CASE \/ ListFails(u) \/ DeleteItemFails(u) \/ DeleteAnswerLost(u)
           \/ PatchInvalid(u) \/ StripFails(u) \/ PatchAnswerLost(u)
  <2>1. CASE ListFails(u)
    <3>1. cl' = [cl EXCEPT ![u].idx = @ + 1, ![u].ok = FALSE] /\ r.pc = "list"
      BY <2>1 DEF ListFails
    <3> QED BY <1>0, <1>n, <1>q, <3>1 DEF CleanerState
  <2>2. CASE DeleteItemFails(u) \/ DeleteAnswerLost(u)
    <3>1. cl' = [cl EXCEPT ![u].items = @ \ {NextItem(u)}, ![u].ok = FALSE] /\ r.pc = "items"
      BY <2>2 DEF DeleteItemFails, DeleteAnswerLost, RemembersFailure, AtItem
    <3> QED BY <1>0, <1>n, <1>q, <3>1 DEF CleanerState
  <2>3. CASE PatchInvalid(u) \/ StripFails(u) \/ PatchAnswerLost(u)
    <3>1. cl' = [cl EXCEPT ![u].pc = "items", ![u].cur = NoObj, ![u].ok = @ /\ ~TRUE]
      BY <2>3 DEF PatchInvalid, StripFails, PatchAnswerLost, ItemDone
    <3> QED BY <1>0, <1>n, <1>q, <3>1 DEF CleanerState
  <2> QED BY <1>4, <2>1, <2>2, <2>3
<1>5. CASE NextKind(u)
  <2>1. cl' = [cl EXCEPT ![u].pc = "list", ![u].idx = @ + 1] /\ r.pc = "items" /\ r.items = {}
    BY <1>5 DEF NextKind
  <2>2. /\ s.pc = "list" /\ s.vers = r.vers /\ s.idx = r.idx + 1 /\ s.ok = r.ok
        /\ s.result = r.result
    BY <1>0, <2>1 DEF CleanerState
  <2>3. ASSUME r.ok, NEW o \in Left(u)' PROVE Awaits(s, o)
    <3>1. PICK i \in 1..(r.vers + 2) : GvkList(r.vers)[i] = KindOf(o) /\ i > r.idx
      BY <1>a, <2>1, <2>3 DEF Awaits, Sweeping
    <3>2. i > r.idx + 1 \/ i = r.idx + 1
      BY <1>t, <3>1
    <3> HIDE DEF r, s
    <3> QED BY <2>2, <3>1, <3>2 DEF Awaits
  <2> QED BY <1>n, <1>q, <2>2, <2>3
<1>6. CASE DeleteItem(u) \/ DeleteItemMissing(u)
  <2> DEFINE it == NextItem(u)
  <2>1. it \in r.items /\ it.o \in Object /\ r.pc = "items"
    BY <1>0, <1>6, NextItemFacts DEF DeleteItem, DeleteItemMissing
  <2>2. /\ \/ cl' = [cl EXCEPT ![u].items = @ \ {it}, ![u].pc = "get", ![u].cur = it.o]
           \/ cl' = [cl EXCEPT ![u].items = @ \ {it}]
        /\ \/ obj' = Deleted(it.o) /\ Present(it.o)
           \/ obj' = obj /\ ~Present(it.o)
    BY <1>6 DEF DeleteItem, DeleteItemMissing, DeleteThenStrip, clusterVars
  <2> HIDE DEF it
  <2>3. /\ s.pc \in {"items", "get"} /\ s.vers = r.vers /\ s.idx = r.idx /\ s.ok = r.ok
        /\ s.result = r.result /\ s.items = r.items \ {it}
    BY <1>0, <2>1, <2>2 DEF CleanerState
  <2>4. obj'[it.o].phase # "live"
    BY <1>0, <2>1, <2>2, DeletedFacts DEF Present
  <2>5. ASSUME r.ok, NEW o \in Left(u)' PROVE Awaits(s, o)
    <3>1. Awaits(r, o)
      BY <1>a, <2>1, <2>5 DEF Sweeping
    <3>2. o # it.o
      BY <2>4 DEF Left, Live
    <3>3. \A x \in r.items : x.o = o => x \in s.items
      BY <2>3, <3>2
    <3> HIDE DEF r, s
    <3> QED BY <1>0, <1>t, <2>1, <2>3, <3>1, <3>3, StillAwaits
  <2> QED BY <1>n, <1>q, <2>3, <2>5
<1>7. CASE GetLatest(u) \/ PatchFinalizers(u) \/ StripMissing(u)
  <2>1. /\ r.pc \in {"get", "patch"}
        /\ \/ cl' = [cl EXCEPT ![u].pc = "patch"]
           \/ cl' = [cl EXCEPT ![u].pc = "items", ![u].cur = NoObj, ![u].ok = @ /\ ~FALSE]
    BY <1>7 DEF GetLatest, PatchFinalizers, StripMissing, ItemDone
  <2>2. /\ s.pc \in {"items", "patch"} /\ s.vers = r.vers /\ s.idx = r.idx /\ s.items = r.items
        /\ s.result = r.result /\ s.ok = r.ok
    BY <1>0, <2>1 DEF CleanerState
  <2>3. ASSUME r.ok, NEW o \in Left(u)' PROVE Awaits(s, o)
    <3>1. Awaits(r, o)
      BY <1>a, <2>1, <2>3 DEF Sweeping
    <3> HIDE DEF r, s
    <3> QED BY <1>0, <1>t, <2>1, <2>2, <3>1, StillAwaits
  <2> QED BY <1>n, <1>q, <2>2, <2>3
<1> QED BY <1>1, <1>2, <1>3, <1>4, <1>5, <1>6, <1>7 DEF CleanerNext

LEMMA StepServed ==
  ASSUME RunInv, [Next]_vars, NEW u \in Active, SnapshotsServed(u)
  PROVE  SnapshotsServed(u)'
<1> SUFFICES ASSUME NEW o \in Obj, o.run = u, KindOf(o) = "VolumeSnapshot", obj'[o].phase # "absent"
             PROVE  "snapshots" \in crds'
  BY DEF SnapshotsServed
<1>1. crds \subseteq crds'
  BY ObjectMoves
<1>2. CASE obj[o].phase # "absent"
  BY <1>1, <1>2 DEF SnapshotsServed
<1>3. CASE Creates(u) /\ Target(u) = o
  BY <1>1, <1>3 DEF Creates, Creatable
<1> QED BY <1>2, <1>3, ObjectMoves

LEMMA NextSweepOK ==
  ASSUME RunInv, [Next]_vars, NEW u \in Active, SnapshotsServed(u), SweepOK(u)
  PROVE  SweepOK(u)'
<1>1. CASE CleanerStep(u)
  <2>1. CleanerNext(u)
    BY <1>1 DEF CleanerStep
  <2>2. u \in Cleaner /\ ClusterTypeOK /\ CleanupTypeOK
    BY PreflightAssumption, RunAssumption DEF RunInv, SetupInv
  <2>3. cl[u].pc # "idle"
    BY <2>1, <2>2, CleanerSteps DEF CleanerKeeps
  <2> QED BY <2>1, <2>3, LeftShrinks, SweepStep
<1>2. CASE Decide(u)
  <2>1. /\ u \in Cleaner /\ u \in Run \cup {NoUid} /\ RunNs[u] \in Ns \cup {NoNs} /\ CleanupTypeOK
    BY PreflightAssumption, RunAssumption, ClusterAssumption DEF RunInv
  <2>2. CASE StartCleanup(u, u, RunNs[u])
    <3>1. cl'[u].pc = "discover" /\ cl'[u].idx = 1 /\ cl'[u].result = "none"
      BY <2>1, <2>2, StartFacts
    <3> QED BY <3>1 DEF SweepOK, Sweeping
  <2>3. CASE cl' = cl /\ obj' = obj
    BY <2>3 DEF SweepOK, Awaits, Left, Live
  <2> QED BY <1>2, <2>2, <2>3 DEF Decide, clusterVars
<1>3. CASE cl'[u] = cl[u]
  <2>1. CASE cl[u].pc = "idle"
    BY <1>3, <2>1 DEF SweepOK, Sweeping
  <2>2. CASE cl[u].pc # "idle"
    <3>1. Left(u)' \subseteq Left(u)
      BY <2>2, LeftShrinks
    <3>2. \A o : Awaits(cl[u], o)' <=> Awaits(cl[u], o)
      BY <1>3 DEF Awaits
    <3> QED BY <1>3, <3>1, <3>2 DEF SweepOK
  <2> QED BY <2>1, <2>2
<1> QED BY <1>1, <1>2, <1>3, CleanerMoves

LEMMA NextSweep == SweepInv /\ [Next]_vars => SweepInv'
BY NextRunInv, StepServed, NextSweepOK DEF SweepInv

LEMMA InitSweep == Init => SweepInv
<1> SUFFICES ASSUME Init, NEW u \in Active PROVE SnapshotsServed(u) /\ SweepOK(u)
  BY InitRunInv DEF SweepInv
<1>1. u \in Run /\ u \in Cleaner
  BY PreflightAssumption, RunAssumption
<1>2. \A o \in Obj : o.run = u => obj[o].phase = "absent"
  BY NothingYet, PreflightAssumption
<1>3. SnapshotsServed(u)
  BY <1>2 DEF SnapshotsServed
<1>4. cl[u] = IdleCleaner
  BY <1>1 DEF Init
<1> QED BY <1>3, <1>4 DEF SweepOK, IdleCleaner, Sweeping

(* When CleanupPreflightResources returns nil at the end of a run, the      *)
(* capability pods, whose label has another value, are all that is left     *)
(* live of what the run has created; objects whose creation was reported as *)
(* failed are no exception.                                                 *)
THEOREM CleanRunLeavesCapabilityPodsOnlyHolds == Spec => []CleanRunLeavesCapabilityPodsOnly
<1>1. SweepInv => CleanRunLeavesCapabilityPodsOnly
  BY DEF SweepInv, SweepOK, Left, CleanRunLeavesCapabilityPodsOnly
<1> QED BY <1>1, InitSweep, NextSweep, PTL DEF Spec
=============================================================================
