---------------------------- MODULE LogCollector ----------------------------
(***************************************************************************)
(* kubectl tvk-log-collector: preRun of cmd/log-collector and               *)
(* CollectLogsAndDump of tools/log-collector.  The collector lists every    *)
(* resource the server offers, group by group in any order, writes the      *)
(* objects it wants, their logs and their events below one folder, zips the *)
(* folder and removes it, while the cluster goes on changing.               *)
(***************************************************************************)
EXTENDS LogCollectorInputs, FiniteSets, Functions

CONSTANTS
  Object,       (* Objects: [res, ns, name, mark], ns = "" if they have none. *)
  Event,        (* Events: [o, n], the n-th event about object o.             *)
  Api,          (* The listable resources of each API group, in order.        *)
  InitServed,   (* The sets of API groups the server may offer.               *)
  InitLive,     (* The objects there may be at the start.                     *)
  Status,       (* Of each pod the last state and the state of its containers.*)
  Trimmed,      (* Each namespace name without the blanks around it.          *)
  Inputs,       (* The config files and flags: [file, flags].                 *)
  TvkGroup, OcpGroup, OcpConfigGroup, OcpOperatorGroup, OcpNs,
  MaxMishaps    (* Bound: calls and file operations that fail, kills, and    *)
                (* objects made or deleted during a collection.              *)

ASSUME CollectorAssumption ==
  /\ MaxMishaps \in Nat
  /\ InitServed \subseteq SUBSET DOMAIN Api
  /\ InitLive \subseteq SUBSET Object

(* The flags of an input have values; no namespace is named "".             *)
ASSUME InputsAssumption ==
  \A in \in Inputs :
    LET opt == Resolved(in.file, in.flags)
    IN  /\ Merged(in.file, in.flags).keep \in BOOLEAN
        /\ opt.namespaces \in Seq(Range(opt.namespaces) \ {""})

Resources(g) == [group : {g}, kind : STRING, namespaced : BOOLEAN]

ASSUME ServerAssumption ==
  /\ \A g \in DOMAIN Api : Api[g] \in Seq(Resources(g))
  /\ OcpNs # "" /\ OcpOperatorGroup # TvkGroup

(* An object is of a resource that can be listed, and is known by it, the   *)
(* namespace, if the resource has namespaces, and the name.  No event is    *)
(* among the objects.                                                       *)
ASSUME ObjectAssumption ==
  /\ \A o \in Object :
       /\ o.res.namespaced <=> o.ns # ""
       /\ o.res.group \in DOMAIN Api /\ o.res \in Range(Api[o.res.group])
  /\ \A o, p \in Object : o.res = p.res /\ o.ns = p.ns /\ o.name = p.name => o = p
  /\ Object \cap Event = {} /\ \A e \in Event : e.o \in Object

VARIABLES
  live,         (* The objects there are.                                    *)
  stayed,       (* History: those that have been there all the time.         *)
  served,       (* The API groups the server offers.                         *)
  changes, faults,
  asked,        (* The config file and the flags.                            *)
  l,            (* The options of the LogCollector.                          *)
  pc,
  known,        (* The API groups discovery has answered with.               *)
  groups,       (* Those that are still to be visited.                       *)
  queue,        (* The resources of the present group, its first the present.*)
  reads,        (* The GETs still to make for it: <<why, namespace>>.        *)
  found,        (* The objects they have returned and the collector wants.   *)
  toWrite,      (* Those that are not written yet.                           *)
  logs,         (* The logs of the present pod still to write.               *)
  kept,         (* resourceMapList: of each kind the objects it has noted.   *)
  events,       (* The events to write.                                      *)
  files,        (* What has been written: from paths to objects and events.  *)
  folder,       (* The folder is there.                                      *)
  zip,          (* The zip file and its entries.                             *)
  result

clusterVars == <<live, stayed, served, changes>>
readVars    == <<known, groups, queue, reads, found, toWrite>>
diskVars    == <<files, folder, zip>>
vars == <<clusterVars, faults, asked, l, pc, readVars, logs, kept, events, diskVars, result>>

Kinds == UNION {{Api[g][i].kind : i \in DOMAIN Api[g]} : g \in DOMAIN Api}

Init ==
  /\ live \in InitLive /\ stayed = live
  /\ served \in InitServed
  /\ changes = 0 /\ faults = 0
  /\ asked \in Inputs /\ l = NoInputs
  /\ pc = "preRun"
  /\ known = {} /\ groups = {} /\ queue = <<>> /\ reads = <<>> /\ found = {} /\ toWrite = {}
  /\ logs = {} /\ kept = [k \in Kinds |-> {}] /\ events = {}
  /\ files = <<>> /\ folder = FALSE
  /\ zip = [state |-> "none", entries |-> {}]
  /\ result = "none"
-----------------------------------------------------------------------------
(* What the collector wants of a resource.                                  *)

NonLabeled == {"ResourceQuota", "LimitRange", "VolumeSnapshot", "Node", "StorageClass",
               "VolumeSnapshotClass"}
Excluded == {"Secret", "PackageManifest"}

(* Triliovault has kinds of its own; what is excluded is of one resource    *)
(* each; and no kind is named like the folder of the events.                *)
ASSUME KindAssumption ==
  /\ \A o \in Object : o.res.group = TvkGroup => o.res.kind \notin Excluded \cup {"Pod"}
  /\ \A o, p \in Object : o.res.kind \in Excluded /\ p.res.kind = o.res.kind => p.res = o.res
  /\ "Events" \notin Kinds

(* A mark says what makes an object TrilioVault's: the part-of label, the   *)
(* name of a CSV or the group of a CRD ("tvk"), an owner that is its CSV    *)
(* ("owned") or the labels of a webhook ("webhook"); any other is a label   *)
(* of the user's.                                                           *)
Labelled(o, opt) == o.mark = "tvk" \/ o.mark \in opt.labels

(* The resources filterResourceObjects makes a GET for at all.              *)
ReadForFilter(r, opt) ==
  \/ r.kind \in NonLabeled \cup {"CustomResourceDefinition", "Namespace", "ClusterServiceVersion"}
  \/ (r.namespaced \/ opt.clustered) /\ r.kind \notin Excluded

Filtered(r, o, opt) ==
  \/ r.kind \in NonLabeled
  \/ r.kind \in {"CustomResourceDefinition", "ClusterServiceVersion"} /\ o.mark = "tvk"
  \/ r.kind = "Namespace" /\ (opt.clustered \/ o.name \in Range(opt.namespaces))
  \/ /\ r.kind \notin NonLabeled
     /\ r.kind \notin {"CustomResourceDefinition", "ClusterServiceVersion", "Namespace"}
     /\ Labelled(o, opt)

(* The user has asked for the kind: checkIfMatchesInputGVKs.                *)
GvkAsked(r, opt) ==
  [group |-> r.group, version |-> Preferred[r.group], kind |-> r.kind] \in opt.gvks

(* Mutant of OcpRelated: an owned object is taken whatever its kind.        *)
OcpRelatedOfAnyKind(r, o) == o.mark \in {"owned", "webhook"} \/ r.kind = "IngressController"

OcpRelated(r, o) ==
  \/ r.kind = "Subscription" /\ o.mark = "tvk"
  \/ o.mark = "owned" /\ r.kind \notin Excluded
  \/ o.mark = "webhook"
  \/ r.group = OcpConfigGroup /\ r.kind = "Ingress" /\ o.name = "cluster"
  \/ r.group = OcpOperatorGroup /\ r.kind = "IngressController" /\ o.name = "default"

Wanted(why, r, o, opt) ==
  CASE why = "filter" -> Filtered(r, o, opt)
    [] why = "ocp"    -> OcpRelated(r, o)
    [] OTHER          -> TRUE

(* Mutant of Gets: only the first of the namespaces is read.                *)
GetsOfFirst(why, r, opt) ==
  <<<<why, IF r.namespaced /\ ~opt.clustered THEN Head(opt.namespaces) ELSE "">>>>

(* getResourceObjects makes one GET for each namespace, or one for all.     *)
Gets(why, r, opt) ==
  IF r.namespaced /\ ~opt.clustered
  THEN [i \in DOMAIN opt.namespaces |-> <<why, opt.namespaces[i]>>]
  ELSE <<<<why, "">>>>

(* What a GET answers.                                                      *)
Answered(r, ns) == {o \in live : o.res = r /\ (ns = "" \/ o.ns = ns)}

Path(o, part) == [dir |-> o.res.kind, ns |-> o.ns, name |-> o.name, part |-> part]
YamlPath(o)   == Path(o, <<"yaml">>)

(* The events of an object without a namespace are in the default one.  The *)
(* path names the object and not the event: a later event of the same       *)
(* object is written over an earlier one.                                   *)
InvolvedNs(e) == IF e.o.ns = "" THEN DefaultNs ELSE e.o.ns
EventPath(e) ==
  [dir |-> "Events", ns |-> InvolvedNs(e), name |-> e.o.name, part |-> <<e.o.res.kind>>]

(* The object that a file is about.                                         *)
About(content) == IF content \in Event THEN content.o ELSE content

(* The logs a container has: of what runs or has ended, now and before.     *)
Ran == {"running", "terminated"}
LogsOf(o) ==
  {<<c, "current">> : c \in {d \in DOMAIN Status[o] : Status[o][d].state \in Ran}} \cup
  {<<c, "previous">> : c \in {d \in DOMAIN Status[o] : Status[o][d].last \in Ran}}

Current  == Head(queue)
IsTvk(r) == r.group = TvkGroup
EventResource == [group |-> "", kind |-> "Event", namespaced |-> TRUE]

(* The next object to write, and the next event, in some fixed order.       *)
NextObject == CHOOSE o \in toWrite : TRUE
NextEvent  == CHOOSE e \in events : TRUE
-----------------------------------------------------------------------------
(* Faults.  An error that is returned ends the program.                     *)

Fault   == faults + changes < MaxMishaps /\ faults' = faults + 1
NoFault == faults' = faults
Fail    == pc' = "done" /\ result' = "error"
Goto(p) == pc' = p /\ result' = result

(* A file is written, over the one of that path if there is one.            *)
Write(path, content) ==
  /\ files' = [p \in DOMAIN files \cup {path} |-> IF p = path THEN content ELSE files[p]]
  /\ folder' = TRUE
  /\ zip' = zip
-----------------------------------------------------------------------------
(* The start of the program.                                                *)

PreRun ==
  /\ pc = "preRun"
  /\ \/ Fault /\ Fail /\ UNCHANGED l
     \/ NoFault /\ Refused(asked.file, asked.flags) /\ Fail /\ UNCHANGED l
     \/ /\ NoFault /\ ~Refused(asked.file, asked.flags)
        /\ l' = Resolved(asked.file, asked.flags)
        /\ Goto("check")
  /\ UNCHANGED <<clusterVars, asked, readVars, logs, kept, events, diskVars>>

CheckIfNamespacesExist ==
  /\ pc = "check"
  /\ LET existing == {o.name : o \in {x \in live : x.res.kind = "Namespace"}}
         missing  == {ns \in Range(l.namespaces) : Trimmed[ns] \notin existing}
     IN  \/ Fault /\ Fail
         \/ NoFault /\ missing # {} /\ Fail
         \/ NoFault /\ missing = {} /\ Goto("discover")
  /\ UNCHANGED <<clusterVars, asked, l, readVars, logs, kept, events, diskVars>>

(* Discovery may leave out groups whose API service does not answer.        *)
GetAPIResourceList ==
  /\ pc = "discover"
  /\ \/ Fault /\ Fail /\ known' = {}
     \/ Fault /\ Goto("resource") /\ \E g \in served : known' = served \ {g}
     \/ NoFault /\ Goto("resource") /\ known' = served
  /\ groups' = known'
  /\ UNCHANGED <<clusterVars, asked, l, queue, reads, found, toWrite, logs, kept, events, diskVars>>
-----------------------------------------------------------------------------
(* The collection.                                                          *)

(* Mutant of NextGroup: a group that is visited stays on the list.          *)
NextGroupAgain ==
  /\ pc = "resource" /\ queue = <<>>
  /\ \E g \in groups : queue' = Api[g]
  /\ UNCHANGED <<clusterVars, faults, asked, l, pc, known, groups, reads, found, toWrite, logs,
                 kept, events, diskVars, result>>

NextGroup ==
  /\ pc = "resource" /\ queue = <<>>
  /\ \E g \in groups : groups' = groups \ {g} /\ queue' = Api[g]
  /\ UNCHANGED <<clusterVars, faults, asked, l, pc, known, reads, found, toWrite, logs, kept,
                 events, diskVars, result>>

SkipEvents ==
  /\ pc = "resource" /\ queue # <<>> /\ Current.kind = "Event"
  /\ queue' = Tail(queue)
  /\ UNCHANGED <<clusterVars, faults, asked, l, pc, known, groups, reads, found, toWrite, logs,
                 kept, events, diskVars, result>>

StartResource ==
  /\ pc = "resource" /\ queue # <<>> /\ Current.kind # "Event"
  /\ reads' = IF IsTvk(Current) THEN Gets("tvk", Current, l)
              ELSE (IF ReadForFilter(Current, l) THEN Gets("filter", Current, l) ELSE <<>>) \o
                   (IF GvkAsked(Current, l) THEN Gets("gvk", Current, l) ELSE <<>>)
  /\ found' = {}
  /\ Goto("read") /\ NoFault
  /\ UNCHANGED <<clusterVars, asked, l, known, groups, queue, toWrite, logs, kept, events, diskVars>>

(* A GET of a namespace or of all; one that fails is passed over.           *)
GetResourceObjects ==
  /\ pc \in {"read", "ocpRead"} /\ reads # <<>>
  /\ LET why == Head(reads)[1]
         ns  == Head(reads)[2]
     IN  \/ /\ NoFault
            /\ found' = found \cup {o \in Answered(Current, ns) : Wanted(why, Current, o, l)}
         \/ Fault /\ UNCHANGED found
  /\ reads' = Tail(reads)
  /\ Goto(pc)
  /\ UNCHANGED <<clusterVars, asked, l, known, groups, queue, toWrite, logs, kept, events, diskVars>>

ToWriting ==
  /\ toWrite' = found
  /\ Goto("write")
  /\ UNCHANGED <<l, reads>>

(* An error other than NotFound makes the cluster one of OpenShift.  The    *)
(* namespace of the ingress operator joins those of the user for good.      *)
CheckIsOpenshift ==
  /\ pc = "read" /\ reads = <<>> /\ ~IsTvk(Current)
  /\ \/ /\ OcpGroup \in served \/ Fault
        /\ OcpGroup \in served => NoFault
        /\ l' = IF Current.kind = "IngressController" /\ Current.group = OcpOperatorGroup
                THEN [l EXCEPT !.namespaces = Append(@, OcpNs)] ELSE l
        /\ reads' = Gets("ocp", Current, l')
        /\ Goto("ocpRead")
        /\ UNCHANGED toWrite
     \/ OcpGroup \notin served /\ NoFault /\ ToWriting
  /\ UNCHANGED <<clusterVars, asked, known, groups, queue, found, logs, kept, events, diskVars>>

EndReads ==
  /\ \/ pc = "ocpRead"
     \/ pc = "read" /\ IsTvk(Current)
  /\ reads = <<>>
  /\ ToWriting /\ NoFault
  /\ UNCHANGED <<clusterVars, asked, known, groups, queue, found, logs, kept, events, diskVars>>

(* writeLogs reads the pod again; one that has gone has no logs to write.   *)
StartPod ==
  /\ pc = "write" /\ toWrite # {} /\ ~IsTvk(Current) /\ Current.kind = "Pod"
  /\ folder' = TRUE
  /\ \/ NoFault /\ Goto("logs") /\ logs' = IF NextObject \in live THEN LogsOf(NextObject) ELSE {}
     \/ Fault /\ Fail /\ logs' = {}
  /\ UNCHANGED <<clusterVars, asked, l, readVars, kept, events, files, zip>>

(* A log that cannot be had is passed over, but not one that breaks off or  *)
(* cannot be written.                                                       *)
WriteLog ==
  /\ pc = "logs"
  /\ \E lg \in logs :
       /\ logs' = logs \ {lg}
       /\ \/ /\ NextObject \in live /\ NoFault /\ Goto("logs")
             /\ Write(Path(NextObject, lg), NextObject)
          \/ NextObject \notin live /\ NoFault /\ Goto("logs") /\ UNCHANGED diskVars
          \/ NextObject \in live /\ Fault /\ Goto("logs") /\ UNCHANGED diskVars
          \/ NextObject \in live /\ Fault /\ Fail /\ UNCHANGED diskVars
  /\ UNCHANGED <<clusterVars, asked, l, readVars, kept, events>>

WriteYaml ==
  /\ \/ pc = "write" /\ toWrite # {} /\ (IsTvk(Current) \/ Current.kind # "Pod")
     \/ pc = "logs" /\ logs = {}
  /\ \/ NoFault /\ Goto("write") /\ Write(YamlPath(NextObject), NextObject)
     \/ Fault /\ Fail /\ UNCHANGED diskVars
  /\ toWrite' = toWrite \ {NextObject}
  /\ UNCHANGED <<clusterVars, asked, l, known, groups, queue, reads, found, logs, kept, events>>

(* Mutant of FinishResource: only the last resource is noted.               *)
FinishResourceAnew ==
  /\ pc = "write" /\ toWrite = {}
  /\ kept' = [k \in Kinds |-> IF k # Current.kind THEN {} ELSE {<<o.ns, o.name>> : o \in found}]
  /\ queue' = Tail(queue)
  /\ Goto("resource") /\ NoFault
  /\ UNCHANGED <<clusterVars, asked, l, known, groups, reads, found, toWrite, logs, events, diskVars>>

(* What has been written of a kind is noted in place of what another group  *)
(* has had of that kind.                                                    *)
FinishResource ==
  /\ pc = "write" /\ toWrite = {}
  /\ kept' = IF IsTvk(Current) \/ found = {} THEN kept
             ELSE [kept EXCEPT ![Current.kind] = {<<o.ns, o.name>> : o \in found}]
  /\ queue' = Tail(queue)
  /\ Goto("resource") /\ NoFault
  /\ UNCHANGED <<clusterVars, asked, l, known, groups, reads, found, toWrite, logs, events, diskVars>>
-----------------------------------------------------------------------------
(* The events of TrilioVault's objects and of the objects that are noted.   *)

StartEvents ==
  /\ pc = "resource" /\ queue = <<>> /\ groups = {}
  /\ reads' = IF "" \in known THEN Gets("event", EventResource, l) ELSE <<>>
  /\ Goto("events") /\ NoFault
  /\ UNCHANGED <<clusterVars, asked, l, known, groups, queue, found, toWrite, logs, kept, events,
                 diskVars>>

Noted(e) ==
  \/ IsTvk(e.o.res)
  \/ <<InvolvedNs(e), e.o.name>> \in kept[e.o.res.kind]

GetEvents ==
  /\ pc = "events" /\ reads # <<>>
  /\ LET ns == Head(reads)[2]
     IN  \/ NoFault /\ events' = events \cup {e \in Event : ns \in {"", InvolvedNs(e)} /\ Noted(e)}
         \/ Fault /\ UNCHANGED events
  /\ reads' = Tail(reads)
  /\ Goto(pc)
  /\ UNCHANGED <<clusterVars, asked, l, known, groups, queue, found, toWrite, logs, kept, diskVars>>

WriteEvent ==
  /\ pc = "events" /\ reads = <<>> /\ events # {}
  /\ events' = events \ {NextEvent}
  /\ \/ NoFault /\ Goto("events") /\ Write(EventPath(NextEvent), NextEvent)
     \/ Fault /\ Fail /\ UNCHANGED diskVars
  /\ UNCHANGED <<clusterVars, asked, l, readVars, logs, kept>>
-----------------------------------------------------------------------------
(* zipDir.                                                                  *)

(* Mutant of CreateZip: an error of the walk is not returned.               *)
CreateZipOfNothing ==
  /\ pc = "events" /\ reads = <<>> /\ events = {}
  /\ NoFault /\ zip' = [zip EXCEPT !.state = "open"] /\ Goto("add")
  /\ UNCHANGED <<clusterVars, asked, l, readVars, logs, kept, events, files, folder>>

(* Without a folder, for nothing has been written, the walk fails.          *)
CreateZip ==
  /\ pc = "events" /\ reads = <<>> /\ events = {}
  /\ \/ Fault /\ Fail /\ UNCHANGED zip
     \/ /\ NoFault /\ zip' = [zip EXCEPT !.state = "open"]
        /\ IF folder THEN Goto("add") ELSE pc' = "close" /\ result' = "error"
  /\ UNCHANGED <<clusterVars, asked, l, readVars, logs, kept, events, files, folder>>

(* Mutant of AddEntry: the folders that are walked get entries too.         *)
AddFolderEntry ==
  /\ pc = "add" /\ zip.entries # DOMAIN files
  /\ NoFault /\ Goto("add")
  /\ zip' = [zip EXCEPT !.entries = {[p EXCEPT !.name = ""] : p \in DOMAIN files}]
  /\ UNCHANGED <<clusterVars, asked, l, readVars, logs, kept, events, files, folder>>

AddEntry ==
  /\ pc = "add" /\ zip.entries # DOMAIN files
  /\ \/ /\ NoFault /\ Goto("add")
        /\ zip' = [zip EXCEPT !.entries = @ \cup {CHOOSE p \in DOMAIN files \ @ : TRUE}]
     \/ Fault /\ pc' = "close" /\ result' = "error" /\ UNCHANGED zip
  /\ UNCHANGED <<clusterVars, asked, l, readVars, logs, kept, events, files, folder>>

(* Mutant of RemoveFolder: the folder is removed before it is zipped.       *)
RemoveFolderEarly ==
  /\ pc = "add"
  /\ NoFault /\ Goto("close") /\ folder' = l.keep
  /\ UNCHANGED <<clusterVars, asked, l, readVars, logs, kept, events, files, zip>>

(* The files are removed while the zip file is still open.                  *)
RemoveFolder ==
  /\ pc = "add" /\ zip.entries = DOMAIN files
  /\ \/ l.keep /\ NoFault /\ Goto("close") /\ UNCHANGED folder
     \/ ~l.keep /\ NoFault /\ Goto("close") /\ folder' = FALSE
     \/ ~l.keep /\ Fault /\ pc' = "close" /\ result' = "error" /\ folder' \in BOOLEAN
  /\ UNCHANGED <<clusterVars, asked, l, readVars, logs, kept, events, files, zip>>

(* The deferred Close calls, whose errors are dropped: without its directory*)
(* the zip file is broken, and the result is still nil.  CollectLogsAndDump *)
(* then removes the folder again, which does nothing.                       *)
CloseZip ==
  /\ pc = "close"
  /\ \/ NoFault /\ zip' = [zip EXCEPT !.state = "closed"]
     \/ Fault /\ zip' = [zip EXCEPT !.state = "broken"]
  /\ pc' = "done"
  /\ result' = IF result = "error" THEN "error" ELSE "nil"
  /\ UNCHANGED <<clusterVars, asked, l, readVars, logs, kept, events, files, folder>>
-----------------------------------------------------------------------------
(* The program is interrupted.                                              *)
Kill ==
  /\ pc # "done" /\ Fault
  /\ pc' = "done" /\ result' = "killed"
  /\ UNCHANGED <<clusterVars, asked, l, readVars, logs, kept, events, diskVars>>

(* The cluster changes; after the last GET that cannot be seen.             *)
Change ==
  /\ pc \in {"check", "discover", "resource", "read", "ocpRead", "write", "logs"}
  /\ faults + changes < MaxMishaps /\ changes' = changes + 1
  /\ \E o \in {x \in Object : x.res.kind # "Namespace"} :
       \/ o \in live /\ live' = live \ {o} /\ stayed' = stayed \ {o}
       \/ o \notin live /\ live' = live \cup {o} /\ stayed' = stayed
  /\ UNCHANGED <<served, faults, asked, l, pc, readVars, logs, kept, events, diskVars, result>>

CollectorNext ==
  \/ PreRun \/ CheckIfNamespacesExist \/ GetAPIResourceList
  \/ NextGroup \/ SkipEvents \/ StartResource \/ GetResourceObjects \/ CheckIsOpenshift
  \/ EndReads \/ StartPod \/ WriteLog \/ WriteYaml \/ FinishResource
  \/ StartEvents \/ GetEvents \/ WriteEvent
  \/ CreateZip \/ AddEntry \/ RemoveFolder \/ CloseZip

Next == CollectorNext \/ Kill \/ Change

Spec == Init /\ [][Next]_vars

(* The program goes on; none of its calls hangs for ever.                   *)
FairSpec == Spec /\ WF_vars(CollectorNext)
-----------------------------------------------------------------------------
(* Types: the files hold objects and events, and the options and the disk   *)
(* are in their states.                                                     *)
CollectorTypeOK ==
  /\ live \subseteq Object /\ stayed \subseteq live
  /\ known \subseteq served /\ groups \subseteq known
  /\ toWrite \subseteq found /\ found \subseteq Object
  /\ Range(files) \subseteq Object \cup Event
  /\ folder \in BOOLEAN
  /\ zip.state \in {"none", "open", "closed", "broken"} /\ zip.entries \subseteq DOMAIN files
  /\ result \in {"none", "nil", "error", "killed"}
  /\ result # "none" <=> pc = "done" \/ (pc = "close" /\ result = "error")
  /\ faults \in Nat /\ changes \in Nat /\ faults + changes <= MaxMishaps

(* The options the user has asked for, and the objects these promise; the   *)
(* events are collected for the sake of the objects they are about.         *)
Opt == Resolved(asked.file, asked.flags)

InScope(o) == Opt.clustered \/ o.ns = "" \/ o.ns \in Range(Opt.namespaces)

Promised(o) ==
  /\ o.res.group \in served /\ o.res.kind # "Event"
  /\ \/ /\ InScope(o)
        /\ \/ IsTvk(o.res) \/ GvkAsked(o.res, Opt)
           \/ ReadForFilter(o.res, Opt) /\ Filtered(o.res, o, Opt)
           \/ OcpGroup \in served /\ OcpRelated(o.res, o)
     \/ /\ OcpGroup \in served /\ o.ns = OcpNs
        /\ o.res.group = OcpOperatorGroup /\ o.res.kind = "IngressController"
        /\ OcpRelated(o.res, o)

(* Only one of the resources has the kind of this object.                   *)
SoleKind(o) ==
  \A g \in DOMAIN Api : \A i \in DOMAIN Api[g] : Api[g][i].kind = o.res.kind => Api[g][i] = o.res

(* An object that the options promise and that is there all the time is in  *)
(* the zip file with its logs when the collection succeeds without a fault, *)
(* whatever happens to other objects and in whatever order the groups are   *)
(* visited.  (Two resources of one kind may share a path.)                  *)
CollectsWhatStays ==
  result = "nil" /\ faults = 0 =>
    \A o \in stayed :
      Promised(o) /\ SoleKind(o) =>
        /\ YamlPath(o) \in zip.entries /\ files[YamlPath(o)] = o
        /\ o.res.kind = "Pod" => \A lg \in LogsOf(o) : Path(o, lg) \in zip.entries

(* Nothing is collected from a namespace the user has not named, but for    *)
(* the one of OpenShift's ingress operator.  Of that one anything the       *)
(* filters let through may be collected; how much depends on the order in   *)
(* which the groups are visited.                                            *)
Allowed(o) == InScope(o) \/ (o.ns = OcpNs /\ OcpOperatorGroup \in known)

NamespacesRespected == \A p \in DOMAIN files : Allowed(About(files[p]))

(* And a secret or a package manifest is collected only if its kind was     *)
(* asked for; on OpenShift also if it has the labels that an OLM webhook    *)
(* has, for those are looked for in every kind.                             *)
CollectsNothingElse ==
  /\ NamespacesRespected
  /\ \A c \in Range(files) :
       About(c).res.kind \in Excluded => GvkAsked(About(c).res, Opt) \/ About(c).mark = "webhook"

SoleEvent(e) == \A d \in Event : d.o = e.o => d = e

(* If an object that is collected has events, one of them is in the zip     *)
(* file, under the name of the object.  It is one only: the others are      *)
(* overwritten, and an event is sure to be there only if its object has no  *)
(* other.  (Of objects whose namespace the user has named and whose kind no *)
(* other resource has.)                                                     *)
EventsFollowObjects ==
  result = "nil" /\ faults = 0 /\ "" \in served =>
    \A e \in Event :
      e.o \in stayed /\ Promised(e.o) /\ SoleKind(e.o) /\ e.o.ns # "" /\ InScope(e.o) =>
        /\ EventPath(e) \in zip.entries
        /\ files[EventPath(e)] \in {d \in Event : d.o = e.o}
        /\ SoleEvent(e) => files[EventPath(e)] = e

(* A zip file can be read once it has been closed: the directory is written *)
(* last.  A kill before, and a failing Close, leave one without it.         *)
CloseFailed == zip.state = "broken"

(* The folder is removed only when every file has been copied into the zip  *)
(* file, and once it is gone the program ends with a zip file that can be   *)
(* read, whatever else fails, but for two cases in which everything is      *)
(* lost: it is killed before the zip file is closed, or the Close fails.    *)
RemovedOnceCopied ==
  files # <<>> /\ ~folder =>
    /\ zip.entries = DOMAIN files
    /\ pc = "done" => zip.state = "closed" \/ CloseFailed \/ result = "killed"

(* A success stands for a zip file that can be read and has everything that *)
(* was written, which is not nothing, and for a folder that is there only   *)
(* if it was asked for.  The exception is a failing Close, whose error the  *)
(* program drops: it reports success, and there may be no archive at all.   *)
Archived == files # <<>> /\ zip.entries = DOMAIN files /\ folder = l.keep

SuccessMeansArchived == result = "nil" /\ ~CloseFailed => Archived /\ zip.state = "closed"

(* Every collection ends, whatever fails and however the cluster changes.   *)
CollectorReturns == <>(pc = "done")
-----------------------------------------------------------------------------
(* docs/log-collector/README.md: the namespaces can be given in the config  *)
(* file, beside clustered: false.                                           *)
FileNamespacesCount ==
  pc = "check" /\ ~l.clustered /\ asked.file.namespaces # <<>> /\ "namespaces" \notin DOMAIN asked.flags
    => l.namespaces = asked.file.namespaces
=============================================================================
