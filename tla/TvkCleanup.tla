------------------------------ MODULE TvkCleanup ------------------------------
(***************************************************************************)
(* kubectl tvk-cleanup, the script tools/cleanup/cleanup.sh.  It reads the  *)
(* arguments, asks for consent, and removes custom resources, the operator  *)
(* and the manager, and the CRDs, in this order, with kubectl and helm.     *)
(* Every call of kubectl and helm is a step of its own; controllers and     *)
(* users go on changing the cluster meanwhile.                              *)
(***************************************************************************)
EXTENDS Integers, FiniteSets, SequencesExt

CONSTANTS
  Object,       (* Objects and helm releases: [kind, ns, name, mark].        *)
  ClusterKind,  (* The kinds of custom resources without a namespace.        *)
  Worlds,       (* The clusters to begin with: [there, held, ocp].           *)
  Fresh,        (* What may be created during the cleanup.                   *)
  Guarded,      (* What controllers may put a finalizer on.                  *)
  Inputs,       (* The arguments of the command, sequences of words.         *)
  MaxFaults     (* Bound: calls of kubectl and helm that fail.               *)

ASSUME TvkCleanupAssumption ==
  /\ MaxFaults \in Nat /\ IsFiniteSet(Object)
  /\ Fresh \subseteq Object /\ Guarded \subseteq Object
  /\ \A w \in Worlds : /\ w.held \subseteq w.there /\ w.there \subseteq Object
                       /\ w.there # {} /\ w.ocp \in BOOLEAN

(* A CRD defines a kind of custom resources.  Releases are helm's: no       *)
(* controller holds them.                                                   *)
ASSUME KindAssumption ==
  /\ \A o \in Object : o.kind = "CRD" => o.name \notin {"CRD", "Release"}
  /\ \A o \in Guarded \cup UNION {w.held : w \in Worlds} : o.kind # "Release"

VARIABLES
  phase,        (* What has become of each object.                           *)
  held,         (* The objects with a finalizer.                             *)
  faults,
  ocp,          (* The server has API groups of OpenShift.                   *)
  sc,           (* The script.                                               *)
  start,        (* History: the objects there when the work began.           *)
  blind         (* History: a call that only looks has failed.               *)

clusterVars == <<phase, held, faults, ocp>>
vars == <<clusterVars, sc, start, blind>>

Marks == {"manager", "operator", "tvk", "other"}

OcpNs == "openshift-operators"

(* The resources of -r when none are named.                                 *)
AllResources == <<"ClusterRestore", "ClusterBackup", "ClusterBackupPlan", "Restore",
                  "Backup", "Backupplan", "Hook", "Target", "Policy", "License">>

CustomKind == ToSet(AllResources) \cup {"TriliovaultManager"}

(* The words of a command line: an option, or a list of resources.          *)
Option(name)  == [option |-> name, list |-> <<>>]
List(list)    == [option |-> "", list |-> list]

ASSUME InputsAssumption == Inputs \subseteq Seq([option : STRING, list : Seq(STRING)])

(* There are custom resources only of a kind that has its CRD; and the      *)
(* lists of -r name custom resources.                                       *)
ASSUME CustomAssumption ==
  /\ \A w \in Worlds : \A o \in w.there :
       o.kind \in CustomKind => \E crd \in w.there : crd.kind = "CRD" /\ crd.name = o.kind
  /\ \A in \in Inputs : \A i \in DOMAIN in : \A j \in DOMAIN in[i].list :
       in[i].list[j] \notin {"CRD", "Release"}
-----------------------------------------------------------------------------
(***************************************************************************)
(* The script: opt is what the options have set, args the words to come;    *)
(* stage says which loop of which function it is in and sub which call is   *)
(* next; parts, res and spaces are what the loops have left, with the       *)
(* present one in front; todo are the names still to delete and cur the     *)
(* one being deleted.  A name is the set of objects that were listed into   *)
(* it: the code puts all lines of some listings into one argument.          *)
(***************************************************************************)
Stages == {"options", "consent", "probe", "spaces", "names", "ocp", "subscription", "csv",
           "charts", "tvm", "manager", "operator", "cron", "crd", "end"}

Loops == {"names", "subscription", "csv", "tvm", "cron", "crd"}

NoOptions == [ask |-> TRUE, res |-> <<>>, op |-> FALSE, crd |-> FALSE]

InitScript(args) ==
  [opt |-> NoOptions, args |-> args, stage |-> "options", sub |-> "read",
   parts |-> <<>>, res |-> <<>>, spaces |-> <<>>, todo |-> <<>>, cur |-> {},
   status |-> FALSE, failed |-> FALSE, result |-> "none"]

Exit(s, result) == [s EXCEPT !.stage = "end", !.result = result, !.parts = <<>>]

Enter(s, stage) == [s EXCEPT !.stage = stage, !.sub = "read", !.cur = {}]

(* The next of the selected parts, or the verdict.                          *)
BeginPart(s) ==
  IF s.parts # <<>> THEN [Enter(s, Head(s.parts)) EXCEPT !.parts = Tail(@), !.status = FALSE]
  ELSE Exit(Enter(s, "end"), IF s.failed THEN "failed" ELSE "success")

EndPart(s) == BeginPart([s EXCEPT !.failed = @ \/ s.status])

(* Mutant of NextResource: the loop goes on after its last resource.        *)
NextResourceAlways(s) == [Enter(s, "probe") EXCEPT !.res = Tail(@)]

NextResource(s) ==
  IF Len(s.res) > 1 THEN [Enter(s, "probe") EXCEPT !.res = Tail(@)] ELSE EndPart(s)

(* On to the next namespace, or out of the loop over them.                  *)
Visit(s, spaces, stage, after) ==
  [IF spaces # <<>> THEN Enter(s, stage) ELSE after EXCEPT !.spaces = spaces]

(* What comes after a stage has nothing more to delete.                     *)
After == [subscription |-> "csv", csv |-> "charts",
          tvm |-> "manager", manager |-> "operator", operator |-> "cron"]

Leave(s) ==
  CASE s.stage = "names" -> Visit(s, Tail(s.spaces), "names", NextResource(s))
    [] s.stage = "cron"  -> Visit(s, Tail(s.spaces), "tvm", EndPart(s))
    [] s.stage = "crd"   -> EndPart(s)
    [] OTHER             -> Enter(s, After[s.stage])

Proceed(s) ==
  IF s.todo # <<>>
  THEN [s EXCEPT !.cur = Head(s.todo), !.todo = Tail(@),
                 !.sub = IF s.stage \in Loops THEN "delete" ELSE "uninstall"]
  ELSE Leave([s EXCEPT !.cur = {}])
-----------------------------------------------------------------------------
(***************************************************************************)
(* The cluster.                                                             *)
(***************************************************************************)
Visible(o) == phase[o] \in {"live", "dying"}

HasKind(kind) ==
  kind \in CustomKind => \E o \in Object : o.kind = "CRD" /\ o.name = kind /\ Visible(o)

Instances(crd) == {o \in Object : crd.kind = "CRD" /\ o.kind = crd.name /\ Visible(o)}

(* o is removed from the store; the objects of a kind whose CRD goes stay   *)
(* in the store, out of everybody's reach.                                  *)
Vanishes(o) ==
  /\ phase' = [p \in Object |-> IF p = o THEN "gone"
                                ELSE IF p \in Instances(o) THEN "orphan" ELSE phase[p]]
  /\ held' = held \ ({o} \cup Instances(o))

(* A DELETE is accepted: an object with a finalizer is only marked; a CRD   *)
(* gets the finalizer of the collection of its objects.                     *)
Deleted(o) ==
  IF o \in held \/ Instances(o) # {}
  THEN /\ phase' = [phase EXCEPT ![o] = "dying"]
       /\ held' = held \cup {o}
  ELSE Vanishes(o)

Fault == faults < MaxFaults /\ faults' = faults + 1

(* The API server deletes the objects of a dying CRD, and then the CRD.     *)
CrdIsCleared(crd) ==
  /\ phase[crd] = "dying" /\ crd.kind = "CRD"
  /\ \/ \E o \in Instances(crd) : phase[o] = "live" /\ Deleted(o)
     \/ Instances(crd) = {} /\ Vanishes(crd)
  /\ UNCHANGED <<faults, ocp, sc, start, blind>>

ControllerReleases(o) ==
  /\ phase[o] = "dying" /\ o.kind # "CRD"
  /\ Vanishes(o)
  /\ UNCHANGED <<faults, ocp, sc, start, blind>>

ControllerGuards(o) ==
  /\ o \in Guarded \ held /\ phase[o] = "live"
  /\ held' = held \cup {o}
  /\ UNCHANGED <<phase, faults, ocp, sc, start, blind>>

(* A user or the operator creates an object.                                *)
Creates(o) ==
  /\ o \in Fresh /\ phase[o] = "none" /\ HasKind(o.kind)
  /\ phase' = [phase EXCEPT ![o] = "live"]
  /\ UNCHANGED <<held, faults, ocp, sc, start, blind>>
-----------------------------------------------------------------------------
(***************************************************************************)
(* The arguments and the consent.                                           *)
(***************************************************************************)
Init ==
  /\ \E w \in Worlds :
       /\ phase = [o \in Object |-> IF o \in w.there THEN "live" ELSE "none"]
       /\ held = w.held /\ ocp = w.ocp
  /\ \E args \in Inputs :
       sc = IF args = <<>> THEN Exit(InitScript(args), "usage") ELSE InitScript(args)
  /\ faults = 0 /\ start = {} /\ blind = FALSE

(* One round of the loop over the words.  -r takes the next word along,     *)
(* unless there is none or it is an option.                                 *)
ReadOption ==
  /\ sc.stage = "options" /\ sc.args # <<>>
  /\ LET word == Head(sc.args)
         rest == Tail(sc.args)
         Sets(opt, left) == sc' = [sc EXCEPT !.opt = opt, !.args = left]
     IN  \/ word.option = "-h" /\ sc' = Exit(sc, "help")
         \/ word.option = "-n" /\ Sets([sc.opt EXCEPT !.ask = FALSE], rest)
         \/ word.option = "-c" /\ Sets([sc.opt EXCEPT !.crd = TRUE], rest)
         \/ word.option = "-t" /\ Sets([sc.opt EXCEPT !.op = TRUE], rest)
         \/ /\ word.option = "-r"
            /\ IF rest = <<>> \/ Head(rest).option # ""
               THEN Sets([sc.opt EXCEPT !.res = AllResources], rest)
               ELSE Sets([sc.opt EXCEPT !.res = Head(rest).list], Tail(rest))
         \/ word.option \notin {"-h", "-n", "-c", "-t", "-r"} /\ sc' = Exit(sc, "usage")
  /\ UNCHANGED <<clusterVars, start, blind>>

OptionsRead ==
  /\ sc.stage = "options" /\ sc.args = <<>>
  /\ sc' = [sc EXCEPT !.stage = "consent"]
  /\ UNCHANGED <<clusterVars, start, blind>>

Part(chosen, stage) == IF chosen THEN <<stage>> ELSE <<>>

(* Mutant of PartsOf: the CRDs go first.                                    *)
PartsCrdFirst(opt) == Part(opt.crd, "crd") \o Part(opt.res # <<>>, "probe") \o Part(opt.op, "ocp")

(* The first stages of the parts that were selected, in their order.        *)
PartsOf(opt) == Part(opt.res # <<>>, "probe") \o Part(opt.op, "ocp") \o Part(opt.crd, "crd")

(* The user agrees, or need not be asked, and the work begins.              *)
Consents ==
  /\ sc.stage = "consent" /\ PartsOf(sc.opt) # <<>>
  /\ sc' = BeginPart([sc EXCEPT !.parts = PartsOf(sc.opt), !.res = sc.opt.res])
  /\ start' = {o \in Object : Visible(o)}
  /\ UNCHANGED <<clusterVars, blind>>

NothingSelected ==
  /\ sc.stage = "consent" /\ PartsOf(sc.opt) = <<>>
  /\ sc' = Exit(sc, "nothing")
  /\ UNCHANGED <<clusterVars, start, blind>>

Declines ==
  /\ sc.stage = "consent" /\ sc.opt.ask
  /\ sc' = Exit(sc, "declined")
  /\ UNCHANGED <<clusterVars, start, blind>>
-----------------------------------------------------------------------------
(***************************************************************************)
(* Looking.  A call that fails is taken for one that finds nothing.         *)
(***************************************************************************)
Kind  == Head(sc.res)
Space == Head(sc.spaces)

(* The first column of `kubectl get <kind> -A`: the namespace, or for want  *)
(* of one the name.                                                         *)
FirstColumn(o) == IF o.kind \in ClusterKind THEN o.name ELSE o.ns

(* Mutant of TvkCron: every cronjob of the namespace is taken.              *)
AnyCron(o) == o.kind = "CronJob" /\ o.ns = Space

TvkCron(o) == o.kind = "CronJob" /\ o.ns = Space /\ o.mark = "tvk"

(* What the listing of a stage finds.  The greps go over whole lines, and   *)
(* what they match is taken as one mark of the object: that one of them     *)
(* matches a line for its namespace column, or for another name that        *)
(* contains the pattern, is within the mark and not told apart from it.     *)
Listed(stage) ==
  {o \in Object : Visible(o) /\
     CASE stage = "names"        -> o.kind = Kind /\ (o.kind \in ClusterKind \/ o.ns = Space)
       [] stage = "subscription" -> o.kind = "Subscription" /\ o.ns = OcpNs /\ o.mark = "tvk"
       [] stage = "csv"          -> o.kind = "CSV" /\ o.ns = OcpNs /\ o.mark = "tvk"
       [] stage = "tvm"          -> o.kind = "TriliovaultManager" /\ o.ns = Space
       [] stage = "cron"         -> TvkCron(o)
       [] stage = "crd"          -> o.kind = "CRD" /\ o.mark = "tvk"
       [] OTHER                  -> o.kind = "Release" /\ o.ns = Space /\ o.mark = stage}

(* Names of their own in the loops over names; else one argument, which is  *)
(* used for managers even if it is empty.                                   *)
Queue(stage, S) ==
  IF stage \in {"names", "crd"} THEN SetToSeq({{o} : o \in S})
  ELSE IF S = {} /\ stage # "tvm" THEN <<>> ELSE <<S>>

(* The namespaces of the TVK releases, in whatever order helm lists these;  *)
(* `uniq` leaves a line out only if it repeats the one before.              *)
ChartSpaces ==
  LET releases == {r \in Object : r.kind = "Release" /\ Visible(r) /\ r.mark # "other"}
      spaces   == {r.ns : r \in releases}
  IN  {list \in BoundedSeq(spaces, Cardinality(releases)) :
         ToSet(list) = spaces /\ \A i \in 2..Len(list) : list[i] # list[i - 1]}

At(stage, sub) == sc.stage = stage /\ sc.sub = sub

(* Is there the resource; in which namespaces; is this OpenShift; where are *)
(* the charts; and the listings of names.                                   *)
Look ==
  /\ \/ /\ At("probe", "read")
        /\ sc' = IF HasKind(Kind) THEN Enter(sc, "spaces") ELSE NextResource(sc)
     \/ /\ At("spaces", "read")
        /\ sc' = Visit(sc, SetToSeq({FirstColumn(o) : o \in {p \in Object : Visible(p) /\ p.kind = Kind}}),
                       "names", NextResource(sc))
     \/ At("ocp", "read") /\ sc' = Enter(sc, IF ocp THEN "subscription" ELSE "charts")
     \/ At("charts", "read") /\ \E list \in ChartSpaces : sc' = Visit(sc, list, "tvm", EndPart(sc))
     \/ \E stage \in Loops \cup {"manager", "operator"} :
          At(stage, "read") /\ sc' = Proceed([sc EXCEPT !.todo = Queue(stage, Listed(stage))])
  /\ UNCHANGED <<clusterVars, start, blind>>

LookFails ==
  /\ Fault
  /\ blind' = TRUE
  /\ \/ \E stage \in {"probe", "spaces"} : At(stage, "read") /\ sc' = NextResource(sc)
     \/ At("ocp", "read") /\ sc' = Enter(sc, "charts")
     \/ At("charts", "read") /\ sc' = EndPart(sc)
     \/ \E stage \in Loops \cup {"manager", "operator"} :
          At(stage, "read") /\ sc' = Proceed([sc EXCEPT !.todo = Queue(stage, {})])
  /\ UNCHANGED <<phase, held, ocp, start>>
-----------------------------------------------------------------------------
(***************************************************************************)
(* Deleting: `kubectl delete --timeout=5s`; if it fails a patch that takes  *)
(* the finalizers off, and a look whether the object is still there.        *)
(***************************************************************************)

(* The one object the argument is the name of; many names are no name.      *)
Named(o) == sc.cur = {o} /\ Visible(o)

Sub(sub) == sc' = [sc EXCEPT !.sub = sub]

(* There is no such object, or the call fails, before or after it is done.  *)
CallFails ==
  \/ ~(\E o \in Object : Named(o)) /\ UNCHANGED <<phase, held, faults>>
  \/ Fault /\ UNCHANGED <<phase, held>>
  \/ Fault /\ \E o \in Object : Named(o) /\ Deleted(o)

DeleteAccepted ==
  /\ sc.sub = "delete"
  /\ \E o \in Object : Named(o) /\ Deleted(o)
  /\ Sub("wait")
  /\ UNCHANGED <<faults, ocp, start, blind>>

DeleteFails ==
  /\ sc.sub = "delete" /\ CallFails
  /\ Sub("patch")
  /\ UNCHANGED <<ocp, start, blind>>

(* The object is gone within five seconds, or not.                          *)
WaitEnds ==
  /\ sc.sub = "wait"
  /\ ~(\E o \in Object : Named(o))
  /\ sc' = Proceed(sc)
  /\ UNCHANGED <<clusterVars, start, blind>>

(* Mutant of WaitTimesOut: the deletion has no timeout.                     *)
WaitForever ==
  /\ sc.sub = "wait"
  /\ \E o \in Object : Named(o)
  /\ UNCHANGED vars

WaitTimesOut ==
  /\ sc.sub = "wait"
  /\ \E o \in Object : Named(o)
  /\ Sub("patch")
  /\ UNCHANGED <<clusterVars, start, blind>>

(* Mutant of Patch: nothing is taken off.                                   *)
PatchOfNothing ==
  /\ sc.sub = "patch"
  /\ Sub("get")
  /\ UNCHANGED <<clusterVars, start, blind>>

(* What the patch says of its own success is not looked at.                 *)
Patch ==
  /\ sc.sub = "patch"
  /\ \/ \E o \in Object : /\ Named(o)
                          /\ IF phase[o] = "dying" THEN Vanishes(o)
                             ELSE held' = held \ {o} /\ UNCHANGED phase
     \/ ~(\E o \in Object : Named(o)) /\ UNCHANGED <<phase, held>>
  /\ Sub("get")
  /\ UNCHANGED <<faults, ocp, start, blind>>

PatchFails ==
  /\ sc.sub = "patch" /\ Fault
  /\ Sub("get")
  /\ UNCHANGED <<phase, held, ocp, start, blind>>

GetFinds ==
  /\ sc.sub = "get"
  /\ \E o \in Object : Named(o)
  /\ sc' = Proceed([sc EXCEPT !.status = TRUE])
  /\ UNCHANGED <<clusterVars, start, blind>>

(* The object is gone, or cannot be seen: that counts as deleted.           *)
GetFindsNothing ==
  /\ sc.sub = "get"
  /\ \/ ~(\E o \in Object : Named(o)) /\ UNCHANGED <<faults, blind>>
     \/ Fault /\ blind' = TRUE
  /\ sc' = Proceed(sc)
  /\ UNCHANGED <<phase, held, ocp, start>>

Uninstall ==
  /\ sc.sub = "uninstall"
  /\ \E r \in Object : Named(r) /\ Deleted(r)
  /\ sc' = Proceed(sc)
  /\ UNCHANGED <<faults, ocp, start, blind>>

(* Two releases in one argument are not found, either; there is no retry.   *)
UninstallFails ==
  /\ sc.sub = "uninstall" /\ CallFails
  /\ sc' = Proceed([sc EXCEPT !.status = TRUE])
  /\ UNCHANGED <<ocp, start, blind>>

Script ==
  \/ ReadOption \/ OptionsRead
  \/ Look \/ LookFails
  \/ DeleteAccepted \/ DeleteFails \/ WaitEnds \/ WaitTimesOut
  \/ Patch \/ PatchFails \/ GetFinds \/ GetFindsNothing
  \/ Uninstall \/ UninstallFails

Environment ==
  \E o \in Object : CrdIsCleared(o) \/ ControllerReleases(o) \/ ControllerGuards(o) \/ Creates(o)

User == Consents \/ Declines \/ NothingSelected

Next == Script \/ User \/ Environment

(* The script goes on by itself: every call returns, and the wait of the    *)
(* deletion has its timeout.  Nobody is sure to answer the question.        *)
Spec == Init /\ [][Next]_vars /\ WF_vars(Script)
-----------------------------------------------------------------------------
(* The script and the cluster are well formed: what is being deleted comes  *)
(* from one listing, and the loops are inside a part that was selected.     *)
ScriptTypeOK ==
  /\ phase \in [Object -> {"none", "live", "dying", "orphan", "gone"}]
  /\ held \subseteq {o \in Object : Visible(o)}
  /\ faults \in 0..MaxFaults /\ ocp \in BOOLEAN /\ blind \in BOOLEAN
  /\ start \subseteq Object
  /\ sc.stage \in Stages
  /\ sc.sub \in {"read", "delete", "wait", "patch", "get", "uninstall"}
  /\ sc.cur \subseteq Object
  /\ sc.sub # "read" => sc.stage \in Loops \cup {"manager", "operator"}
  /\ sc.stage \in {"probe", "spaces", "names"} => sc.res # <<>>
  /\ sc.stage \in {"names", "tvm", "manager", "operator", "cron"} => sc.spaces # <<>>
  /\ sc.result \in {"none", "usage", "help", "declined", "nothing", "failed", "success"}

Ever(o) == phase[o] # "none"

(* What the user has selected for deletion of a cluster with these objects. *)
SelectedAmong(o, objects) ==
  \/ o.kind \in ToSet(sc.opt.res)
  \/ /\ sc.opt.op /\ ocp
     /\ o.kind \in {"Subscription", "CSV"} /\ o.ns = OcpNs /\ o.mark = "tvk"
  \/ /\ sc.opt.op
     /\ \E r \in objects : r.kind = "Release" /\ r.mark # "other" /\ r.ns = o.ns
     /\ \/ o.kind = "TriliovaultManager"
        \/ o.kind = "Release" /\ o.mark \in {"manager", "operator"}
        \/ o.kind = "CronJob" /\ o.mark = "tvk"
  \/ sc.opt.crd /\ o.kind = "CRD" /\ o.mark = "tvk"

Selected(o) == SelectedAmong(o, {p \in Object : Ever(p)})

(* No second one of its kind is listed with it into one argument: managers  *)
(* are listed by their namespace alone.                                     *)
Alone(o) ==
  o.kind \in {"Subscription", "CSV", "TriliovaultManager", "CronJob"} =>
    \A p \in Object : /\ Ever(p) /\ p.kind = o.kind /\ p.ns = o.ns
                      /\ p.mark = o.mark \/ o.kind = "TriliovaultManager"
                      => p = o

(* "Cleanup completed successfully!!" is true: unless a call that only      *)
(* looks has failed, all that was selected and there is removed, by an      *)
(* orderly deletion and not by taking its CRD away, whatever deletions and  *)
(* patches have failed and controllers have done in between.                *)
SuccessMeansGone ==
  sc.result = "success" /\ ~blind =>
    \A o \in start : SelectedAmong(o, start) /\ Alone(o) => phase[o] = "gone"

(* Only what was selected, after consent, is deleted or loses a finalizer;  *)
(* or what is an instance of a CRD that is.                                 *)
OnlySelectedGoes ==
  [][\A o \in Object :
       phase[o] = "live" /\ (phase'[o] # "live" \/ o \in held \ held') =>
         /\ start # {}
         /\ Selected(o) \/ \E crd \in Object : Visible(crd) /\ o \in Instances(crd) /\ Selected(crd)]_vars

(* When no call fails, the cleanup does not fail either: the patch gets     *)
(* every object away that its finalizers hold.  Two releases of one chart   *)
(* in a namespace are the exception.                                        *)
HealthyCleanupSucceeds ==
  sc.result = "failed" /\ faults = 0 =>
    \E r, p \in Object : /\ r # p /\ Ever(r) /\ Ever(p) /\ r.kind = "Release" /\ p.kind = "Release"
                         /\ r.ns = p.ns /\ r.mark = p.mark

(* Once it has consent the script comes to an end.                          *)
ScriptEnds == start # {} ~> sc.stage = "end"
=============================================================================
