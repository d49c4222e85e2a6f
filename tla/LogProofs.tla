------------------------------ MODULE LogProofs ------------------------------
(***************************************************************************)
(* Proofs about LogCollector, for every cluster, every input, any number of *)
(* mishaps and any order of the groups: the disk, what may be read, what is *)
(* collected and what may not be missed.                                    *)
(*                                                                         *)
(* Each part has its inductive invariant, the later ones on top of the      *)
(* earlier: DiskInv, ScopeInv, ContentInv, CoverInv.                        *)
(***************************************************************************)
EXTENDS LogCollector, TLAPS

-----------------------------------------------------------------------------
(***************************************************************************)
(* The disk: the zip file and the folder it is made from.                   *)
(***************************************************************************)

Collecting == {"preRun", "check", "discover", "resource", "read", "ocpRead", "write", "logs", "events"}

(* --keep-source-folder has a value from the start.                         *)
KeepOK == asked \in Inputs /\ "keep" \in DOMAIN l /\ l.keep \in BOOLEAN

DiskOK ==
  /\ folder \in BOOLEAN
  /\ zip \in [state : {"none", "open", "closed", "broken"}, entries : SUBSET DOMAIN files]

(* While the collection goes on nothing is zipped, and the folder is there  *)
(* as soon as there is a file; only between the start of a pod and its      *)
(* first file is it empty.                                                  *)
CollectingOK ==
  pc \in Collecting =>
    /\ result = "none" /\ zip.state = "none" /\ zip.entries = {}
    /\ files # <<>> => folder
    /\ pc # "logs" /\ folder => files # <<>>

(* While it is zipped, the folder is there, and there are files in it; when *)
(* the zip file is closed without an error, it is complete.                 *)
ZippingOK ==
  /\ pc = "add" => result = "none" /\ folder /\ files # <<>> /\ zip.state = "open"
  /\ pc = "close" => /\ result \in {"none", "error"} /\ zip.state = "open"
                     /\ result = "none" => Archived
                     /\ files # <<>> => folder \/ zip.entries = DOMAIN files
  /\ result = "nil" => Archived

DiskInv ==
  /\ pc \in Collecting \cup {"add", "close", "done"}
  /\ KeepOK /\ DiskOK /\ CollectingOK /\ ZippingOK
  /\ RemovedOnceCopied /\ SuccessMeansArchived
-----------------------------------------------------------------------------
(* Whatever is written, there is a file then.                               *)
LEMMA WriteLeavesAFile ==
  ASSUME NEW path, NEW content, Write(path, content)
  PROVE  files' # <<>> /\ folder' /\ DOMAIN files \subseteq DOMAIN files' /\ zip' = zip
<1>1. DOMAIN files' = DOMAIN files \cup {path}
  BY DEF Write
<1>2. DOMAIN <<>> = {}
  OBVIOUS
<1> QED BY <1>1, <1>2 DEF Write

LEMMA InitDisk == Init => DiskInv
<1> SUFFICES ASSUME Init PROVE DiskInv
  OBVIOUS
<1>1. KeepOK
  BY DEF Init, KeepOK, NoInputs
<1>2. DiskOK /\ CollectingOK /\ ZippingOK /\ RemovedOnceCopied /\ SuccessMeansArchived
  BY DEF Init, DiskOK, CollectingOK, ZippingOK, Collecting, RemovedOnceCopied, SuccessMeansArchived, CloseFailed
<1> QED BY <1>1, <1>2 DEF Init, DiskInv, Collecting

(* Every step leaves --keep-source-folder as it is, once it has been read.  *)
LEMMA KeepStays == KeepOK /\ [Next]_vars => KeepOK'
<1> SUFFICES ASSUME KeepOK, [Next]_vars PROVE KeepOK'
  OBVIOUS
<1> USE DEF KeepOK
<1>1. CASE PreRun
  <2>1. CASE UNCHANGED l
    BY <1>1, <2>1 DEF PreRun
  <2>2. CASE l' = Resolved(asked.file, asked.flags)
    <3>1. Merged(asked.file, asked.flags).keep \in BOOLEAN
      BY InputsAssumption
    <3>2. "keep" \in DOMAIN l' /\ l'.keep = Merged(asked.file, asked.flags).keep
      BY <2>2 DEF Resolved, Merged
    <3> QED BY <1>1, <3>1, <3>2 DEF PreRun
  <2> QED BY <1>1, <2>1, <2>2 DEF PreRun
<1>2. CASE CheckIsOpenshift
  BY <1>2 DEF CheckIsOpenshift, ToWriting
<1>3. CASE UNCHANGED <<asked, l>>
  BY <1>3
<1>4. [Next]_vars => PreRun \/ CheckIsOpenshift \/ UNCHANGED <<asked, l>>
  BY DEF Next, CollectorNext, vars, Kill, Change, CheckIfNamespacesExist, GetAPIResourceList, NextGroup,
         SkipEvents, StartResource, GetResourceObjects, EndReads, ToWriting, StartPod, WriteLog,
         WriteYaml, FinishResource, StartEvents, GetEvents, WriteEvent, CreateZip, AddEntry,
         RemoveFolder, CloseZip
<1> QED BY <1>1, <1>2, <1>3, <1>4

(* A step of the collection that leaves the disk alone, whatever its end.   *)
LEMMA CollectingStays ==
  ASSUME DiskInv, pc \in Collecting, KeepOK', UNCHANGED diskVars,
         \/ pc' \in Collecting \ {"logs"} /\ (pc # "logs" \/ files # <<>>) /\ result' = result
         \/ pc' = "logs" /\ result' = result
         \/ pc' = "done" /\ result' \in {"error", "killed"}
  PROVE  DiskInv'
  BY DEF DiskInv, DiskOK, CollectingOK, ZippingOK, Collecting, RemovedOnceCopied, SuccessMeansArchived, CloseFailed,
         Archived, diskVars

(* A file is written, on the way to the next one.                           *)
LEMMA WriteKeepsDisk ==
  ASSUME DiskInv, pc \in Collecting, KeepOK', pc' \in Collecting, result' = result,
         NEW path, NEW content, Write(path, content)
  PROVE  DiskInv'
<1>1. /\ files' # <<>> /\ folder' = TRUE /\ zip' = zip
      /\ DOMAIN files \subseteq DOMAIN files'
  BY WriteLeavesAFile DEF Write
<1>2. DiskOK'
  BY <1>1 DEF DiskInv, DiskOK
<1> QED
  BY <1>1, <1>2 DEF DiskInv, CollectingOK, ZippingOK, Collecting, RemovedOnceCopied, SuccessMeansArchived, CloseFailed, Archived

(* The steps up to the zip file.                                            *)
LEMMA CollectingKeepsDisk ==
  ASSUME DiskInv, KeepOK',
         \/ PreRun \/ CheckIfNamespacesExist \/ GetAPIResourceList \/ NextGroup \/ SkipEvents
         \/ StartResource \/ GetResourceObjects \/ CheckIsOpenshift \/ EndReads \/ FinishResource
         \/ StartEvents \/ GetEvents
  PROVE  DiskInv'
<1>1. pc \in Collecting \ {"logs"} /\ UNCHANGED diskVars
  BY DEF Collecting, diskVars, PreRun, CheckIfNamespacesExist, GetAPIResourceList, NextGroup, SkipEvents,
         StartResource, GetResourceObjects, CheckIsOpenshift, EndReads, FinishResource, StartEvents, GetEvents
<1>2. \/ pc' \in Collecting \ {"logs"} /\ result' = result
      \/ pc' = "done" /\ result' = "error"
  BY DEF Collecting, Fail, Goto, ToWriting, PreRun, CheckIfNamespacesExist, GetAPIResourceList, NextGroup,
         SkipEvents, StartResource, GetResourceObjects, CheckIsOpenshift, EndReads, FinishResource,
         StartEvents, GetEvents
<1> QED BY <1>1, <1>2, CollectingStays

(* The steps that write.                                                    *)
LEMMA WritingKeepsDisk ==
  ASSUME DiskInv, KeepOK', StartPod \/ WriteLog \/ WriteYaml \/ WriteEvent
  PROVE  DiskInv'
<1>1. CASE StartPod
  <2>1. pc = "write" /\ folder' = TRUE /\ files' = files /\ zip' = zip
    BY <1>1 DEF StartPod
  <2>2. (pc' = "logs" /\ result' = result) \/ (pc' = "done" /\ result' = "error")
    BY <1>1 DEF StartPod, Goto, Fail
  <2> QED
    BY <2>1, <2>2 DEF DiskInv, DiskOK, CollectingOK, ZippingOK, Collecting, RemovedOnceCopied,
                      SuccessMeansArchived, CloseFailed, CloseFailed
<1>2. CASE WriteLog
  <2>1. pc = "logs"
    BY <1>2 DEF WriteLog
  <2>2. CASE UNCHANGED diskVars
    <3>1. (pc' = "logs" /\ result' = result) \/ (pc' = "done" /\ result' = "error")
      BY <1>2 DEF WriteLog, Goto, Fail
    <3> QED BY <2>1, <2>2, <3>1, CollectingStays DEF Collecting
  <2>3. CASE pc' = "logs" /\ result' = result /\ \E path, content : Write(path, content)
    BY <2>1, <2>3, WriteKeepsDisk DEF Collecting
  <2> QED BY <1>2, <2>2, <2>3 DEF WriteLog, Goto
<1>3. CASE WriteYaml
  <2>1. pc \in {"write", "logs"}
    BY <1>3 DEF WriteYaml
  <2>2. CASE UNCHANGED diskVars /\ Fail
    BY <2>1, <2>2, CollectingStays DEF Collecting, Fail
  <2>3. CASE Goto("write") /\ Write(YamlPath(NextObject), NextObject)
    BY <2>1, <2>3, WriteKeepsDisk DEF Collecting, Goto
  <2> QED BY <1>3, <2>2, <2>3 DEF WriteYaml
<1>4. CASE WriteEvent
  <2>1. pc = "events"
    BY <1>4 DEF WriteEvent
  <2>2. CASE UNCHANGED diskVars /\ Fail
    BY <2>1, <2>2, CollectingStays DEF Collecting, Fail
  <2>3. CASE Goto("events") /\ Write(EventPath(NextEvent), NextEvent)
    BY <2>1, <2>3, WriteKeepsDisk DEF Collecting, Goto
  <2> QED BY <1>4, <2>2, <2>3 DEF WriteEvent
<1> QED BY <1>1, <1>2, <1>3, <1>4

(* The steps of zipDir.                                                     *)
LEMMA ZippingKeepsDisk ==
  ASSUME DiskInv, KeepOK', CreateZip \/ AddEntry \/ RemoveFolder \/ CloseZip
  PROVE  DiskInv'
<1> USE DEF DiskInv, DiskOK
<1>1. CASE CreateZip
  <2>1. pc = "events" /\ files' = files /\ folder' = folder /\ l' = l
    BY <1>1 DEF CreateZip
  <2>2. CASE Fail /\ UNCHANGED zip
    BY <2>1, <2>2, CollectingStays DEF Collecting, Fail, diskVars
  <2>3. CASE zip' = [zip EXCEPT !.state = "open"]
    <3>1. zip'.state = "open" /\ zip'.entries = zip.entries
      BY <2>3
    <3>2. zip' \in [state : {"none", "open", "closed", "broken"}, entries : SUBSET DOMAIN files']
      BY <2>1, <2>3
    <3>3. \/ folder /\ pc' = "add" /\ result' = result
          \/ ~folder /\ pc' = "close" /\ result' = "error"
      BY <1>1, <2>1, <2>3, <3>1 DEF CreateZip, Goto, Fail, CollectingOK, Collecting
    <3> QED
      BY <2>1, <3>1, <3>2, <3>3 DEF CollectingOK, ZippingOK, Collecting, RemovedOnceCopied, SuccessMeansArchived, CloseFailed
  <2> QED BY <1>1, <2>2, <2>3 DEF CreateZip
<1>2. CASE AddEntry
  <2>1. pc = "add" /\ files' = files /\ folder' = folder /\ zip.entries # DOMAIN files
    BY <1>2 DEF AddEntry
  <2>2. /\ zip' \in [state : {"none", "open", "closed", "broken"}, entries : SUBSET DOMAIN files']
        /\ zip'.state = zip.state
    <3>1. CASE zip' = zip
      BY <2>1, <3>1
    <3>2. CASE zip' = [zip EXCEPT !.entries = @ \cup {CHOOSE p \in DOMAIN files \ @ : TRUE}]
      <4>1. (CHOOSE p \in DOMAIN files \ zip.entries : TRUE) \in DOMAIN files
        BY <2>1
      <4> QED BY <2>1, <3>2, <4>1
    <3> QED BY <1>2, <3>1, <3>2 DEF AddEntry
  <2>3. (pc' = "add" /\ result' = result) \/ (pc' = "close" /\ result' = "error")
    BY <1>2 DEF AddEntry, Goto
  <2> QED
    BY <2>1, <2>2, <2>3 DEF CollectingOK, ZippingOK, Collecting, RemovedOnceCopied, SuccessMeansArchived, CloseFailed
<1>3. CASE RemoveFolder
  <2>1. /\ pc = "add" /\ pc' = "close" /\ files' = files /\ zip' = zip /\ l' = l
        /\ zip.entries = DOMAIN files
    BY <1>3 DEF RemoveFolder, Goto
  <2>2. folder' \in BOOLEAN /\ ((result' = "none" /\ folder' = l.keep) \/ result' = "error")
    BY <1>3, <2>1 DEF RemoveFolder, Goto, KeepOK, ZippingOK
  <2> QED
    BY <2>1, <2>2 DEF CollectingOK, ZippingOK, Collecting, RemovedOnceCopied, SuccessMeansArchived, CloseFailed, Archived
<1>4. CASE CloseZip
  <2>1. /\ pc = "close" /\ pc' = "done" /\ files' = files /\ folder' = folder /\ l' = l
        /\ result' = IF result = "error" THEN "error" ELSE "nil"
    BY <1>4 DEF CloseZip
  <2>2. /\ zip' \in [state : {"none", "open", "closed", "broken"}, entries : SUBSET DOMAIN files']
        /\ zip'.state \in {"closed", "broken"} /\ zip'.entries = zip.entries
    BY <1>4, <2>1 DEF CloseZip
  <2> QED
    BY <2>1, <2>2 DEF CollectingOK, ZippingOK, Collecting, RemovedOnceCopied, SuccessMeansArchived, CloseFailed, Archived
<1> QED BY <1>1, <1>2, <1>3, <1>4

LEMMA StepKeepsDisk == DiskInv /\ [Next]_vars => DiskInv'
<1> SUFFICES ASSUME DiskInv, [Next]_vars PROVE DiskInv'
  OBVIOUS
<1>1. KeepOK'
  BY KeepStays DEF DiskInv
<1>2. CASE CollectorNext
  BY <1>1, <1>2, CollectingKeepsDisk, WritingKeepsDisk, ZippingKeepsDisk DEF CollectorNext
<1>3. CASE Kill
  <2>1. pc' = "done" /\ result' = "killed" /\ UNCHANGED diskVars
    BY <1>3 DEF Kill
  <2> QED
    BY <1>1, <2>1 DEF DiskInv, DiskOK, CollectingOK, ZippingOK, Collecting, RemovedOnceCopied,
                      SuccessMeansArchived, CloseFailed, diskVars
<1>4. CASE Change \/ UNCHANGED vars
  <2>1. UNCHANGED <<pc, l, result, diskVars>>
    BY <1>4 DEF Change, vars
  <2> QED
    BY <1>1, <2>1 DEF DiskInv, DiskOK, CollectingOK, ZippingOK, RemovedOnceCopied, SuccessMeansArchived, CloseFailed,
                      Archived, diskVars
<1> QED BY <1>2, <1>3, <1>4 DEF Next
-----------------------------------------------------------------------------
(* The folder goes only when everything in it has been copied into the zip  *)
(* file, which is closed at the end; everything is lost only when the       *)
(* program is killed between the two or the Close fails.                    *)
THEOREM RemovedOnceCopiedHolds == Spec => []RemovedOnceCopied
<1>1. DiskInv => RemovedOnceCopied
  BY DEF DiskInv
<1> QED BY InitDisk, StepKeepsDisk, <1>1, PTL DEF Spec

(* A collection that returns nil has put everything it has written into a   *)
(* zip file and closed it, unless the Close failed: that error is dropped.  *)
THEOREM SuccessIsArchived == Spec => []SuccessMeansArchived
<1>1. DiskInv => SuccessMeansArchived
  BY DEF DiskInv
<1> QED BY InitDisk, StepKeepsDisk, <1>1, PTL DEF Spec
-----------------------------------------------------------------------------
(***************************************************************************)
(* What is read: the files come from the namespaces the user has named.     *)
(***************************************************************************)

(* The namespaces that may be read.                                         *)
AllowedNs(ns) ==
  ns # "" /\ (ns \in Range(Opt.namespaces) \/ (ns = OcpNs /\ OcpOperatorGroup \in known))

(* The groups are the server's, and discovery has not begun at first.       *)
GroupsOK ==
  /\ asked \in Inputs
  /\ known \subseteq DOMAIN Api /\ groups \subseteq known /\ served \subseteq DOMAIN Api
  /\ live \subseteq Object
  /\ pc \in {"preRun", "check", "discover"} => known = {}

NsName == {"", OcpNs} \cup UNION {Range(Resolved(in.file, in.flags).namespaces) : in \in Inputs}

(* The options are those asked for; only OcpNs may have been added.         *)
Working == {"check", "discover", "resource", "read", "ocpRead", "write", "logs", "events"}

OptionNames == {"clustered", "namespaces", "gvks", "labels"}

OptionsOK ==
  pc \in Working =>
    /\ l.clustered = Opt.clustered /\ l.gvks = Opt.gvks /\ l.labels = Opt.labels
    /\ l.namespaces \in Seq(NsName) /\ Range(Opt.namespaces) \subseteq Range(l.namespaces)
    /\ OptionNames \subseteq DOMAIN l
    /\ \A i \in DOMAIN l.namespaces : AllowedNs(l.namespaces[i])

AllResources == UNION {Range(Api[g]) : g \in known}

QueueOK == queue \in Seq(AllResources)

Why == {"tvk", "filter", "gvk", "ocp", "event"}

(* The GETs still to make are for what may be read.                         *)
Permits(read, namespaced) ==
  /\ read \in Why \X NsName
  /\ AllowedNs(read[2]) \/ (read[2] = "" /\ (Opt.clustered \/ ~namespaced))

ReadsOK ==
  /\ pc \in {"read", "ocpRead"} =>
       /\ queue # <<>> /\ reads \in Seq(Why \X NsName)
       /\ \A i \in DOMAIN reads : Permits(reads[i], Current.namespaced)
  /\ pc \in {"write", "logs"} => queue # <<>>
  /\ pc = "events" => /\ reads \in Seq(Why \X NsName)
                      /\ \A i \in DOMAIN reads : Permits(reads[i], TRUE)

FoundOK ==
  /\ found \cup toWrite \subseteq Object /\ events \subseteq Event
  /\ \A o \in found \cup toWrite : Allowed(o)
  /\ pc = "logs" => toWrite # {}
  /\ \A e \in events : Allowed(e.o)

ScopeInv == GroupsOK /\ OptionsOK /\ QueueOK /\ ReadsOK /\ FoundOK /\ NamespacesRespected
-----------------------------------------------------------------------------
LEMMA AllowedByNs == ASSUME NEW o, AllowedNs(o.ns) \/ o.ns = "" \/ Opt.clustered PROVE Allowed(o)
  BY DEF AllowedNs, Allowed, InScope

(* What may be read may be read ever after.                                 *)
LEMMA AllowedStays ==
  ASSUME UNCHANGED asked, known \subseteq known'
  PROVE  /\ \A ns : AllowedNs(ns) => AllowedNs(ns)'
         /\ \A o : Allowed(o) => Allowed(o)'
         /\ Opt' = Opt
  BY DEF AllowedNs, Allowed, InScope, Opt

(* The GETs that getResourceObjects makes for a resource are permitted.     *)
LEMMA GetsPermitted ==
  ASSUME NEW opt, NEW why \in Why, NEW r,
         opt.clustered = Opt.clustered, opt.namespaces \in Seq(NsName),
         \A i \in DOMAIN opt.namespaces : AllowedNs(opt.namespaces[i])
  PROVE  /\ Gets(why, r, opt) \in Seq(Why \X NsName)
         /\ \A i \in DOMAIN Gets(why, r, opt) : Permits(Gets(why, r, opt)[i], r.namespaced)
<1>1. CASE r.namespaced /\ ~opt.clustered
  <2>1. Gets(why, r, opt) = [i \in DOMAIN opt.namespaces |-> <<why, opt.namespaces[i]>>]
    BY <1>1 DEF Gets
  <2>2. DOMAIN opt.namespaces = 1..Len(opt.namespaces) /\ Len(opt.namespaces) \in Nat
    OBVIOUS
  <2>3. \A i \in DOMAIN opt.namespaces : <<why, opt.namespaces[i]>> \in Why \X NsName
    OBVIOUS
  <2>4. [i \in 1..Len(opt.namespaces) |-> <<why, opt.namespaces[i]>>] \in Seq(Why \X NsName)
    BY <2>2, <2>3
  <2>5. \A i \in DOMAIN opt.namespaces : Permits(<<why, opt.namespaces[i]>>, r.namespaced)
    BY <2>3 DEF Permits
  <2> QED BY <2>1, <2>2, <2>4, <2>5
<1>2. CASE ~(r.namespaced /\ ~opt.clustered)
  <2> DEFINE read == <<why, "">>
  <2>1. Gets(why, r, opt) = <<read>>
    BY <1>2 DEF Gets
  <2>2. read \in Why \X NsName
    BY DEF NsName
  <2>3. Permits(read, r.namespaced)
    BY <1>2, <2>2 DEF Permits
  <2> HIDE DEF read
  <2>4. DOMAIN Gets(why, r, opt) = {1} /\ Gets(why, r, opt)[1] = read
    BY <2>1
  <2>5. Gets(why, r, opt) \in Seq(Why \X NsName)
    BY <2>1, <2>2
  <2> QED BY <2>3, <2>4, <2>5
<1> QED BY <1>1, <1>2

LEMMA InitScope == Init => ScopeInv
<1> SUFFICES ASSUME Init PROVE ScopeInv
  OBVIOUS
<1>1. GroupsOK
  BY CollectorAssumption DEF Init, GroupsOK
<1>2. QueueOK
  BY DEF Init, QueueOK
<1>3. OptionsOK /\ ReadsOK /\ FoundOK
  BY DEF Init, OptionsOK, Working, ReadsOK, FoundOK
<1>4. NamespacesRespected
  BY DEF Init, NamespacesRespected
<1> QED BY <1>1, <1>2, <1>3, <1>4 DEF ScopeInv
-----------------------------------------------------------------------------
(* Facts about sequences, in the form they are used.                        *)
LEMMA TailFacts ==
  ASSUME NEW S, NEW s \in Seq(S), s # <<>>
  PROVE  /\ Tail(s) \in Seq(S) /\ Head(s) \in S
         /\ 1 \in DOMAIN s /\ Head(s) = s[1]
         /\ \A i \in DOMAIN Tail(s) : i + 1 \in DOMAIN s /\ Tail(s)[i] = s[i + 1]
  OBVIOUS

LEMMA ConcatFacts ==
  ASSUME NEW S, NEW s \in Seq(S), NEW t \in Seq(S)
  PROVE  /\ s \o t \in Seq(S)
         /\ \A i \in DOMAIN (s \o t) :
              \/ \E j \in DOMAIN s : (s \o t)[i] = s[j]
              \/ \E j \in DOMAIN t : (s \o t)[i] = t[j]
  OBVIOUS

LEMMA SeqFacts ==
  ASSUME NEW S, NEW s \in Seq(S)
  PROVE  /\ \A i \in DOMAIN s : s[i] \in S
         /\ \A T : S \subseteq T => s \in Seq(T)
  OBVIOUS

LEMMA InItsRange == ASSUME NEW S, NEW s \in Seq(S) PROVE s \in Seq(Range(s))
  BY DEF Range

LEMMA AppendFacts ==
  ASSUME NEW S, NEW s \in Seq(S), NEW x \in S
  PROVE  /\ Append(s, x) \in Seq(S)
         /\ \A i \in DOMAIN Append(s, x) :
              Append(s, x)[i] = x \/ (i \in DOMAIN s /\ Append(s, x)[i] = s[i])
  OBVIOUS

LEMMA RangeOfAppend ==
  ASSUME NEW S, NEW s \in Seq(S), NEW x \in S
  PROVE  Range(s) \subseteq Range(Append(s, x))
<1>1. \A i \in DOMAIN s : i \in DOMAIN Append(s, x) /\ Append(s, x)[i] = s[i]
  OBVIOUS
<1> QED BY <1>1 DEF Range

(* The parts stay as they are where nothing changes that they speak of.     *)
LEMMA Frame ==
  ASSUME ScopeInv, UNCHANGED <<asked, known>>
  PROVE  /\ \A o : Allowed(o) <=> Allowed(o)'
         /\ \A ns : AllowedNs(ns) <=> AllowedNs(ns)'
         /\ \A r, n : Permits(r, n) <=> Permits(r, n)'
         /\ Opt' = Opt /\ AllResources' = AllResources
  BY DEF Allowed, InScope, AllowedNs, Permits, Opt, AllResources

LEMMA FrameGroups ==
  ASSUME ScopeInv, UNCHANGED <<asked, known, groups, served>>, live' \subseteq Object,
         pc \in {"preRun", "check", "discover"} \/ pc' \notin {"preRun", "check", "discover"}
  PROVE  GroupsOK'
  BY DEF ScopeInv, GroupsOK

LEMMA FrameOptions ==
  ASSUME ScopeInv, UNCHANGED <<asked, known, l>>, pc \in Working \/ pc' \notin Working
  PROVE  OptionsOK'
  BY Frame DEF ScopeInv, OptionsOK

LEMMA FrameFound ==
  ASSUME ScopeInv, UNCHANGED <<asked, known, found, toWrite, events>>, pc' # "logs" \/ pc = "logs"
  PROVE  FoundOK'
  BY Frame DEF ScopeInv, FoundOK

LEMMA FrameFiles ==
  ASSUME ScopeInv, UNCHANGED <<asked, known, files>>
  PROVE  NamespacesRespected'
  BY Frame DEF ScopeInv, NamespacesRespected

LEMMA FrameQueue ==
  ASSUME ScopeInv, UNCHANGED <<asked, known, queue>>
  PROVE  QueueOK'
  BY Frame DEF ScopeInv, QueueOK

LEMMA FrameReads ==
  ASSUME ScopeInv, UNCHANGED <<asked, known, queue, reads>>,
         pc' \in {"read", "ocpRead"} => pc \in {"read", "ocpRead"},
         pc' \in {"write", "logs"} => queue # <<>>,
         pc' = "events" => pc = "events"
  PROVE  ReadsOK'
  BY Frame DEF ScopeInv, ReadsOK, Current

(* Nothing happens but that the program goes on, or ends.                   *)
LEMMA OnlyProgress ==
  ASSUME ScopeInv, live' \subseteq Object,
         UNCHANGED <<asked, known, groups, served, queue, reads, found, toWrite, events, files, l>>,
         \/ pc' = pc
         \/ pc' \in {"add", "close", "done"}
         \/ pc = "check" /\ pc' = "discover"
         \/ pc = "write" /\ pc' = "logs" /\ toWrite # {}
  PROVE  ScopeInv'
<1>1. GroupsOK'
  BY FrameGroups DEF ScopeInv, GroupsOK
<1>2. OptionsOK'
  BY FrameOptions DEF Working
<1>3. ReadsOK'
  BY FrameReads DEF ScopeInv, ReadsOK
<1>4. FoundOK'
  <2>1. CASE pc' # "logs" \/ pc = "logs"
    BY <2>1, FrameFound
  <2>2. CASE toWrite # {}
    BY <2>2, Frame DEF ScopeInv, FoundOK
  <2> QED BY <2>1, <2>2
<1> QED BY <1>1, <1>2, <1>3, <1>4, FrameQueue, FrameFiles DEF ScopeInv
-----------------------------------------------------------------------------
(* The start of the program.                                                *)
LEMMA PreRunInScope == ASSUME ScopeInv, PreRun PROVE ScopeInv'
<1>1. pc = "preRun" /\ pc' \in {"check", "done"}
  BY DEF PreRun, Goto, Fail
<1>2. UNCHANGED <<asked, known, groups, served, live, queue, reads, found, toWrite, events, files>>
  BY DEF PreRun, clusterVars, readVars, diskVars
<1>3. GroupsOK'
  BY <1>1, <1>2 DEF ScopeInv, GroupsOK
<1>4. OptionsOK'
  <2>1. CASE pc' = "done"
    BY <2>1 DEF OptionsOK, Working
  <2>2. CASE pc' = "check"
    <3>1. l' = Opt
      BY <2>2 DEF PreRun, Opt, Fail, Goto
    <3>2. asked \in Inputs /\ Opt' = Opt
      BY <1>2 DEF ScopeInv, GroupsOK, Opt
    <3>3. OptionNames \subseteq DOMAIN Opt
      <4> DEFINE opt == Merged(asked.file, asked.flags)
      <4>1. OptionNames \subseteq DOMAIN opt
        BY DEF Merged, OptionNames
      <4>2. Opt = opt \/ Opt = [opt EXCEPT !.namespaces = <<DefaultNs>>]
        BY DEF Opt, Resolved
      <4> HIDE DEF opt
      <4> QED BY <4>1, <4>2
    <3>4. Opt.namespaces \in Seq(Range(Opt.namespaces) \ {""})
      BY <3>2, InputsAssumption, Zenon DEF Opt
    <3>5. Range(Opt.namespaces) \subseteq NsName
      BY <3>2 DEF Opt, NsName
    <3>6. \A i \in DOMAIN Opt.namespaces : AllowedNs(Opt.namespaces[i])
      <4>1. \A i \in DOMAIN Opt.namespaces : Opt.namespaces[i] \in Range(Opt.namespaces) \ {""}
        BY <3>4, SeqFacts, Zenon
      <4> QED BY <4>1 DEF AllowedNs
    <3>7. Opt.namespaces \in Seq(NsName)
      <4>1. Range(Opt.namespaces) \ {""} \subseteq NsName
        BY <3>5
      <4> QED BY <3>4, <4>1, SeqFacts, Zenon
    <3> QED BY <1>2, <3>1, <3>2, <3>3, <3>6, <3>7, Frame DEF OptionsOK
  <2> QED BY <1>1, <2>1, <2>2
<1>5. ReadsOK'
  BY <1>1 DEF ReadsOK
<1>6. FoundOK' /\ QueueOK' /\ NamespacesRespected'
  BY <1>1, <1>2, FrameFound, FrameQueue, FrameFiles
<1> QED BY <1>3, <1>4, <1>5, <1>6 DEF ScopeInv

LEMMA DiscoveryInScope == ASSUME ScopeInv, GetAPIResourceList PROVE ScopeInv'
<1>1. /\ pc = "discover" /\ pc' \in {"resource", "done"}
      /\ known' \subseteq served /\ groups' = known'
  BY DEF GetAPIResourceList, Goto, Fail
<1>2. UNCHANGED <<asked, live, served, l, queue, reads, found, toWrite, events, files>>
  BY DEF GetAPIResourceList, clusterVars, diskVars
<1>3. known = {}
  BY <1>1 DEF ScopeInv, GroupsOK
<1>4. GroupsOK'
  BY <1>1, <1>2 DEF ScopeInv, GroupsOK
<1>5. OptionsOK'
  BY <1>1, <1>2, <1>3, AllowedStays DEF ScopeInv, OptionsOK, Working
<1>6. QueueOK'
  <2>1. AllResources \subseteq AllResources'
    BY <1>3 DEF AllResources
  <2> HIDE DEF AllResources
  <2> QED BY <1>2, <2>1 DEF ScopeInv, QueueOK
<1>7. ReadsOK'
  BY <1>1 DEF ReadsOK
<1>8. FoundOK' /\ NamespacesRespected'
  BY <1>1, <1>2, <1>3, AllowedStays DEF ScopeInv, FoundOK, NamespacesRespected
<1> QED BY <1>4, <1>5, <1>6, <1>7, <1>8 DEF ScopeInv
-----------------------------------------------------------------------------
(* The collection.                                                          *)

(* The steps between two resources, which only move the queue on.           *)
LEMMA QueueInScope ==
  ASSUME ScopeInv, NextGroup \/ SkipEvents \/ FinishResource
  PROVE  ScopeInv'
<1>1. /\ pc \in {"resource", "write"} /\ pc' = "resource"
      /\ UNCHANGED <<asked, known, live, served, l, reads, found, toWrite, events, files>>
  BY DEF NextGroup, SkipEvents, FinishResource, Goto, clusterVars, diskVars
<1>2. groups' \subseteq groups
  BY DEF NextGroup, SkipEvents, FinishResource
<1>3. GroupsOK'
  BY <1>1, <1>2 DEF ScopeInv, GroupsOK
<1>4. OptionsOK' /\ FoundOK' /\ NamespacesRespected'
  BY <1>1, FrameOptions, FrameFound, FrameFiles DEF Working
<1>5. ReadsOK'
  BY <1>1 DEF ReadsOK
<1>6. QueueOK'
  <2>1. queue' \in Seq(AllResources)
    <3>1. CASE NextGroup
      <4>1. PICK g \in groups : queue' = Api[g]
        BY <3>1 DEF NextGroup
      <4>2. g \in known /\ Api[g] \in Seq(Range(Api[g]))
        BY <4>1, ServerAssumption, InItsRange DEF ScopeInv, GroupsOK
      <4>3. Range(Api[g]) \subseteq AllResources
        BY <4>2 DEF AllResources
      <4> QED BY <4>1, <4>2, <4>3, SeqFacts, Zenon
    <3>2. CASE queue # <<>> /\ queue' = Tail(queue)
      BY <3>2, TailFacts DEF ScopeInv, QueueOK
    <3>3. NextGroup \/ (queue # <<>> /\ queue' = Tail(queue))
      BY DEF NextGroup, SkipEvents, FinishResource, ScopeInv, ReadsOK
    <3> QED BY <3>1, <3>2, <3>3
  <2> QED BY <1>1, <2>1, Frame DEF QueueOK
<1> QED BY <1>3, <1>4, <1>5, <1>6 DEF ScopeInv

LEMMA StartResourceInScope == ASSUME ScopeInv, StartResource PROVE ScopeInv'
<1>1. /\ pc = "resource" /\ pc' = "read" /\ queue # <<>> /\ found' = {}
      /\ UNCHANGED <<asked, known, groups, live, served, l, queue, toWrite, events, files>>
  BY DEF StartResource, Goto, clusterVars, diskVars
<1>2. GroupsOK' /\ OptionsOK' /\ QueueOK' /\ NamespacesRespected'
  BY <1>1, FrameGroups, FrameOptions, FrameQueue, FrameFiles DEF Working, ScopeInv, GroupsOK
<1>3. FoundOK'
  BY <1>1, Frame DEF ScopeInv, FoundOK
<1>4. ReadsOK'
  <2> DEFINE may(rs) == /\ rs \in Seq(Why \X NsName)
                        /\ \A i \in DOMAIN rs : Permits(rs[i], Current.namespaced)
  <2>1. \A why \in Why : may(Gets(why, Current, l))
    BY <1>1, GetsPermitted DEF ScopeInv, OptionsOK, Working
  <2>2. may(<<>>)
    OBVIOUS
  <2>3. \A s, t : may(s) /\ may(t) => may(s \o t)
    <3> SUFFICES ASSUME NEW s, NEW t, may(s), may(t) PROVE may(s \o t)
      OBVIOUS
    <3>1. s \o t \in Seq(Why \X NsName)
      BY ConcatFacts
    <3>2. ASSUME NEW i \in DOMAIN (s \o t) PROVE Permits((s \o t)[i], Current.namespaced)
      <4>1. \/ \E j \in DOMAIN s : (s \o t)[i] = s[j]
            \/ \E j \in DOMAIN t : (s \o t)[i] = t[j]
        BY ConcatFacts
      <4> HIDE DEF Permits
      <4> QED BY <4>1
    <3> QED BY <3>1, <3>2
  <2> HIDE DEF may
  <2>4. may(reads')
    BY <2>1, <2>2, <2>3 DEF StartResource, Why
  <2> USE DEF may
  <2> QED BY <1>1, <2>4, Frame DEF ReadsOK, Current
<1> QED BY <1>2, <1>3, <1>4 DEF ScopeInv

(* What a permitted GET answers may be collected.                           *)
LEMMA AnswerAllowed ==
  ASSUME ScopeInv, NEW ns, AllowedNs(ns) \/ (ns = "" /\ (Opt.clustered \/ ~Current.namespaced)),
         NEW o \in Answered(Current, ns)
  PROVE  Allowed(o)
<1>1. o \in live /\ o.res = Current /\ (ns = "" \/ o.ns = ns)
  BY DEF Answered
<1>2. o.res.namespaced \/ o.ns = ""
  BY <1>1, ObjectAssumption DEF ScopeInv, GroupsOK
<1>3. AllowedNs(o.ns) \/ o.ns = "" \/ Opt.clustered
  <2>1. CASE AllowedNs(ns)
    BY <1>1, <2>1 DEF AllowedNs
  <2>2. CASE ns = "" /\ (Opt.clustered \/ ~Current.namespaced)
    BY <1>1, <1>2, <2>2
  <2> QED BY <2>1, <2>2
<1> QED BY <1>3, AllowedByNs, Zenon

LEMMA ReadInScope == ASSUME ScopeInv, GetResourceObjects PROVE ScopeInv'
<1>1. /\ pc \in {"read", "ocpRead"} /\ pc' = pc /\ reads # <<>> /\ reads' = Tail(reads)
      /\ UNCHANGED <<asked, known, groups, live, served, l, queue, toWrite, events, files>>
  BY DEF GetResourceObjects, Goto, clusterVars, diskVars
<1>2. GroupsOK' /\ OptionsOK' /\ QueueOK' /\ NamespacesRespected'
  BY <1>1, FrameGroups, FrameOptions, FrameQueue, FrameFiles DEF ScopeInv, GroupsOK
<1>3. /\ reads \in Seq(Why \X NsName) /\ queue # <<>>
      /\ \A i \in DOMAIN reads : Permits(reads[i], Current.namespaced)
  BY <1>1 DEF ScopeInv, ReadsOK
<1>4. ReadsOK'
  <2>1. /\ Tail(reads) \in Seq(Why \X NsName)
        /\ \A i \in DOMAIN Tail(reads) : Permits(Tail(reads)[i], Current.namespaced)
    BY <1>1, <1>3, TailFacts
  <2> QED BY <1>1, <1>3, <2>1, Frame DEF ReadsOK, Current
<1>5. FoundOK'
  <2>1. Permits(Head(reads), Current.namespaced)
    BY <1>1, <1>3, TailFacts
  <2>2. \A o \in Answered(Current, Head(reads)[2]) : Allowed(o)
    BY <2>1, AnswerAllowed DEF Permits
  <2>3. found' \subseteq found \cup Answered(Current, Head(reads)[2])
    BY DEF GetResourceObjects
  <2>4. found' \subseteq Object
    BY <2>3 DEF ScopeInv, GroupsOK, FoundOK, Answered
  <2> QED BY <1>1, <2>2, <2>3, <2>4, Frame DEF ScopeInv, FoundOK
<1> QED BY <1>2, <1>4, <1>5 DEF ScopeInv

(* The present resource is of a group that is known.                        *)
LEMMA CurrentKnown == ASSUME ScopeInv, queue # <<>> PROVE Current.group \in known
<1>1. Current \in AllResources
  BY TailFacts DEF ScopeInv, QueueOK, Current
<1>2. PICK g \in known : Current \in Range(Api[g])
  BY <1>1 DEF AllResources
<1>3. Api[g] \in Seq(Resources(g))
  BY ServerAssumption DEF ScopeInv, GroupsOK
<1>4. Current \in Resources(g)
  BY <1>2, <1>3 DEF Range
<1> QED BY <1>4 DEF Resources

LEMMA OpenshiftInScope == ASSUME ScopeInv, CheckIsOpenshift PROVE ScopeInv'
<1>1. /\ pc = "read" /\ pc' \in {"ocpRead", "write"}
      /\ UNCHANGED <<asked, known, groups, live, served, queue, found, events, files>>
      /\ toWrite' \in {found, toWrite}
  BY DEF CheckIsOpenshift, ToWriting, Goto, clusterVars, diskVars
<1>2. GroupsOK' /\ QueueOK' /\ NamespacesRespected'
  BY <1>1, FrameGroups, FrameQueue, FrameFiles DEF ScopeInv, GroupsOK
<1>3. FoundOK'
  BY <1>1, Frame DEF ScopeInv, FoundOK
<1>4. queue # <<>>
  BY <1>1 DEF ScopeInv, ReadsOK
<1>5. OptionsOK'
  <2>1. CASE l' = l
    BY <1>1, <2>1, FrameOptions DEF Working
  <2>2. CASE /\ Current.group = OcpOperatorGroup
             /\ l' = [l EXCEPT !.namespaces = Append(@, OcpNs)]
    <3>1. OcpNs \in NsName /\ AllowedNs(OcpNs)
      BY <1>4, <2>2, CurrentKnown, ServerAssumption DEF NsName, AllowedNs
    <3>2. /\ l.clustered = Opt.clustered /\ l.gvks = Opt.gvks /\ l.labels = Opt.labels
          /\ l.namespaces \in Seq(NsName) /\ Range(Opt.namespaces) \subseteq Range(l.namespaces)
          /\ OptionNames \subseteq DOMAIN l
          /\ \A i \in DOMAIN l.namespaces : AllowedNs(l.namespaces[i])
      BY <1>1 DEF ScopeInv, OptionsOK, Working
    <3>3. /\ l'.clustered = l.clustered /\ l'.gvks = l.gvks /\ l'.labels = l.labels
          /\ l'.namespaces = Append(l.namespaces, OcpNs)
          /\ DOMAIN l' = DOMAIN l
      BY <2>2, <3>2 DEF OptionNames
    <3>4. /\ Append(l.namespaces, OcpNs) \in Seq(NsName)
          /\ \A i \in DOMAIN Append(l.namespaces, OcpNs) : AllowedNs(Append(l.namespaces, OcpNs)[i])
      BY <3>1, <3>2, AppendFacts
    <3>5. Range(l.namespaces) \subseteq Range(Append(l.namespaces, OcpNs))
      BY <3>1, <3>2, RangeOfAppend
    <3> HIDE DEF AllowedNs
    <3> QED BY <1>1, <3>2, <3>3, <3>4, <3>5, Frame DEF OptionsOK
  <2> QED BY <2>1, <2>2 DEF CheckIsOpenshift, ToWriting
<1>6. ReadsOK'
  <2>1. CASE pc' = "write"
    BY <1>1, <1>4, <2>1 DEF ReadsOK
  <2>2. CASE pc' = "ocpRead"
    <3>1. reads' = Gets("ocp", Current, l')
      BY <2>2 DEF CheckIsOpenshift, ToWriting, Goto
    <3>2. /\ l'.clustered = Opt.clustered /\ l'.namespaces \in Seq(NsName)
          /\ \A i \in DOMAIN l'.namespaces : AllowedNs(l'.namespaces[i])
      BY <1>1, <1>5, <2>2, Frame DEF OptionsOK, Working
    <3>3. /\ Gets("ocp", Current, l') \in Seq(Why \X NsName)
          /\ \A i \in DOMAIN Gets("ocp", Current, l') :
               Permits(Gets("ocp", Current, l')[i], Current.namespaced)
      BY <3>2, GetsPermitted DEF Why
    <3> QED BY <1>1, <1>4, <2>2, <3>1, <3>3, Frame DEF ReadsOK, Current
  <2> QED BY <1>1, <2>1, <2>2
<1> QED BY <1>2, <1>3, <1>5, <1>6 DEF ScopeInv

LEMMA EndReadsInScope == ASSUME ScopeInv, EndReads PROVE ScopeInv'
<1>1. /\ pc \in {"read", "ocpRead"} /\ pc' = "write" /\ toWrite' = found
      /\ UNCHANGED <<asked, known, groups, live, served, l, queue, reads, found, events, files>>
  BY DEF EndReads, ToWriting, Goto, clusterVars, diskVars
<1>2. GroupsOK' /\ OptionsOK' /\ QueueOK' /\ NamespacesRespected'
  BY <1>1, FrameGroups, FrameOptions, FrameQueue, FrameFiles DEF Working, ScopeInv, GroupsOK
<1>3. FoundOK'
  BY <1>1, Frame DEF ScopeInv, FoundOK
<1>4. ReadsOK'
  BY <1>1 DEF ScopeInv, ReadsOK
<1> QED BY <1>2, <1>3, <1>4 DEF ScopeInv
-----------------------------------------------------------------------------
(* Writing.                                                                 *)
LEMMA WriteRespects ==
  ASSUME ScopeInv, UNCHANGED <<asked, known>>, NEW path, NEW c, Allowed(About(c)), Write(path, c)
  PROVE  NamespacesRespected'
<1>1. /\ DOMAIN files' = DOMAIN files \cup {path}
      /\ \A p \in DOMAIN files' : files'[p] = IF p = path THEN c ELSE files[p]
  BY DEF Write
<1>2. \A p \in DOMAIN files' : Allowed(About(files'[p]))
  BY <1>1 DEF ScopeInv, NamespacesRespected
<1> QED BY <1>2, Frame DEF NamespacesRespected

(* The object of an object is the object, that of an event what it is about.*)
LEMMA AboutFacts ==
  /\ \A o \in Object : About(o) = o
  /\ \A e \in Event : About(e) = e.o /\ e.o \in Object
BY ObjectAssumption DEF About

LEMMA NextObjectAllowed == ASSUME ScopeInv, toWrite # {} PROVE Allowed(About(NextObject))
<1>1. NextObject \in toWrite
  BY DEF NextObject
<1> QED BY <1>1, AboutFacts DEF ScopeInv, FoundOK

LEMMA ObjectsInScope ==
  ASSUME ScopeInv, StartPod \/ WriteLog \/ WriteYaml
  PROVE  ScopeInv'
<1>1. /\ pc \in {"write", "logs"} /\ pc' \in {"write", "logs", "done"} /\ toWrite # {}
      /\ UNCHANGED <<asked, known, groups, live, served, l, queue, reads, found, events>>
  BY DEF StartPod, WriteLog, WriteYaml, Goto, Fail, clusterVars, readVars, ScopeInv, FoundOK
<1>2. toWrite' \subseteq toWrite /\ (pc' = "logs" => toWrite' = toWrite)
  BY DEF StartPod, WriteLog, WriteYaml, readVars, Goto, Fail
<1>3. GroupsOK' /\ OptionsOK' /\ QueueOK'
  BY <1>1, FrameGroups, FrameOptions, FrameQueue DEF Working, ScopeInv, GroupsOK
<1>4. ReadsOK'
  BY <1>1 DEF ScopeInv, ReadsOK
<1>5. FoundOK'
  BY <1>1, <1>2, Frame DEF ScopeInv, FoundOK
<1>6. NamespacesRespected'
  <2>1. UNCHANGED files \/ \E path : Write(path, NextObject)
    BY DEF StartPod, WriteLog, WriteYaml, diskVars
  <2> QED BY <1>1, <2>1, NextObjectAllowed, WriteRespects, FrameFiles
<1> QED BY <1>3, <1>4, <1>5, <1>6 DEF ScopeInv
-----------------------------------------------------------------------------
(* The events.                                                              *)
LEMMA StartEventsInScope == ASSUME ScopeInv, StartEvents PROVE ScopeInv'
<1>1. /\ pc = "resource" /\ pc' = "events"
      /\ UNCHANGED <<asked, known, groups, live, served, l, queue, toWrite, found, events, files>>
      /\ reads' = Gets("event", EventResource, l) \/ reads' = <<>>
  BY DEF StartEvents, Goto, clusterVars, diskVars
<1>2. GroupsOK' /\ OptionsOK' /\ QueueOK' /\ NamespacesRespected' /\ FoundOK'
  BY <1>1, FrameGroups, FrameOptions, FrameQueue, FrameFiles, FrameFound DEF Working, ScopeInv, GroupsOK
<1>3. ReadsOK'
  <2>1. /\ Gets("event", EventResource, l) \in Seq(Why \X NsName)
        /\ \A i \in DOMAIN Gets("event", EventResource, l) :
             Permits(Gets("event", EventResource, l)[i], EventResource.namespaced)
    BY <1>1, GetsPermitted DEF ScopeInv, OptionsOK, Working, Why
  <2>2. EventResource.namespaced = TRUE
    BY DEF EventResource
  <2>3. CASE reads' = <<>>
    <3>1. reads' \in Seq(Why \X NsName) /\ DOMAIN reads' = {}
      BY <2>3
    <3> QED BY <1>1, <3>1, Frame DEF ReadsOK
  <2>4. CASE reads' = Gets("event", EventResource, l)
    <3>1. /\ reads' \in Seq(Why \X NsName)
          /\ \A i \in DOMAIN reads' : Permits(reads'[i], EventResource.namespaced)
      BY <2>1, <2>4, Zenon
    <3> QED BY <1>1, <2>2, <3>1, Frame DEF ReadsOK
  <2> QED BY <1>1, <2>3, <2>4
<1> QED BY <1>2, <1>3 DEF ScopeInv

LEMMA EventAllowed ==
  ASSUME NEW e, NEW ns, ns \in {"", InvolvedNs(e)},
         AllowedNs(ns) \/ (ns = "" /\ (Opt.clustered \/ ~TRUE))
  PROVE  Allowed(e.o)
<1>1. AllowedNs(e.o.ns) \/ e.o.ns = "" \/ Opt.clustered
  BY DEF InvolvedNs, AllowedNs
<1> QED BY <1>1, AllowedByNs, Zenon

LEMMA GetEventsInScope == ASSUME ScopeInv, GetEvents PROVE ScopeInv'
<1>1. /\ pc = "events" /\ pc' = pc /\ reads # <<>> /\ reads' = Tail(reads)
      /\ UNCHANGED <<asked, known, groups, live, served, l, queue, toWrite, found, files>>
  BY DEF GetEvents, Goto, clusterVars, diskVars
<1>2. GroupsOK' /\ OptionsOK' /\ QueueOK' /\ NamespacesRespected'
  BY <1>1, FrameGroups, FrameOptions, FrameQueue, FrameFiles DEF Working, ScopeInv, GroupsOK
<1>3. reads \in Seq(Why \X NsName) /\ \A i \in DOMAIN reads : Permits(reads[i], TRUE)
  BY <1>1 DEF ScopeInv, ReadsOK
<1>4. ReadsOK'
  <2>1. /\ Tail(reads) \in Seq(Why \X NsName)
        /\ \A i \in DOMAIN Tail(reads) : Permits(Tail(reads)[i], TRUE)
    BY <1>1, <1>3, TailFacts
  <2> QED BY <1>1, <2>1, Frame DEF ReadsOK
<1>5. FoundOK'
  <2>1. Permits(Head(reads), TRUE)
    BY <1>1, <1>3, TailFacts
  <2>2. \A e \in events' : e \in events \/ Head(reads)[2] \in {"", InvolvedNs(e)}
    BY DEF GetEvents
  <2>3. \A e \in events' : Allowed(e.o)
    BY <2>1, <2>2, EventAllowed DEF Permits, ScopeInv, FoundOK
  <2>4. events' \subseteq Event
    BY DEF GetEvents, ScopeInv, FoundOK
  <2> QED BY <1>1, <2>3, <2>4, Frame DEF ScopeInv, FoundOK
<1> QED BY <1>2, <1>4, <1>5 DEF ScopeInv

LEMMA WriteEventInScope == ASSUME ScopeInv, WriteEvent PROVE ScopeInv'
<1>1. /\ pc = "events" /\ pc' \in {"events", "done"} /\ events' \subseteq events
      /\ UNCHANGED <<asked, known, groups, live, served, l, queue, reads, toWrite, found>>
  BY DEF WriteEvent, Goto, Fail, clusterVars, readVars
<1>2. GroupsOK' /\ OptionsOK' /\ QueueOK'
  BY <1>1, FrameGroups, FrameOptions, FrameQueue DEF Working, ScopeInv, GroupsOK
<1>3. ReadsOK'
  BY <1>1, FrameReads
<1>4. FoundOK'
  BY <1>1, Frame DEF ScopeInv, FoundOK
<1>5. NamespacesRespected'
  <2>1. NextEvent \in events
    BY DEF WriteEvent, NextEvent
  <2>2. Allowed(About(NextEvent))
    BY <2>1, AboutFacts DEF ScopeInv, FoundOK
  <2>3. UNCHANGED files \/ Write(EventPath(NextEvent), NextEvent)
    BY DEF WriteEvent, diskVars
  <2> QED BY <1>1, <2>2, <2>3, WriteRespects, FrameFiles
<1> QED BY <1>2, <1>3, <1>4, <1>5 DEF ScopeInv
-----------------------------------------------------------------------------
LEMMA OtherStepsInScope ==
  ASSUME ScopeInv,
         \/ CheckIfNamespacesExist \/ CreateZip \/ AddEntry \/ RemoveFolder \/ CloseZip
         \/ Kill \/ Change \/ UNCHANGED vars
  PROVE  ScopeInv'
<1>1. UNCHANGED <<asked, known, groups, served, queue, reads, found, toWrite, events, files, l>>
  BY DEF CheckIfNamespacesExist, CreateZip, AddEntry, RemoveFolder, CloseZip, Kill, Change, vars,
         clusterVars, readVars, diskVars
<1>2. live' \subseteq Object
  BY DEF CheckIfNamespacesExist, CreateZip, AddEntry, RemoveFolder, CloseZip, Kill, Change, vars,
         clusterVars, ScopeInv, GroupsOK
<1>3. pc' = pc \/ pc' \in {"add", "close", "done"} \/ (pc = "check" /\ pc' = "discover")
  BY DEF CheckIfNamespacesExist, CreateZip, AddEntry, RemoveFolder, CloseZip, Kill, Change, vars, Goto, Fail
<1> QED BY <1>1, <1>2, <1>3, OnlyProgress

LEMMA StepInScope == ScopeInv /\ [Next]_vars => ScopeInv'
  BY PreRunInScope, DiscoveryInScope, QueueInScope, StartResourceInScope, ReadInScope, OpenshiftInScope,
     EndReadsInScope, ObjectsInScope, StartEventsInScope, GetEventsInScope, WriteEventInScope,
     OtherStepsInScope DEF Next, CollectorNext

(* Whatever is collected is of a namespace the user has named, or without   *)
(* one, or of the namespace of OpenShift's ingress operator.                *)
THEOREM OnlyNamedNamespaces == Spec => []NamespacesRespected
<1>1. ScopeInv => NamespacesRespected
  BY DEF ScopeInv
<1> QED BY InitScope, StepInScope, <1>1, PTL DEF Spec
-----------------------------------------------------------------------------
(***************************************************************************)
(* What is collected.                                                       *)
(***************************************************************************)

(* The number of mishaps, and the end.                                      *)
TallyOK == faults \in Nat /\ changes \in Nat /\ faults + changes <= MaxMishaps

EndOK == result \in {"none", "nil", "error", "killed"} /\ (pc = "done" => result # "none")

(* Only objects of the cluster are found, written or the subject of events. *)
Holding == {"read", "ocpRead", "write", "logs"}

StockOK ==
  /\ stayed \subseteq live /\ known \subseteq served
  /\ found \subseteq Object /\ toWrite \subseteq found /\ events \subseteq Event
  /\ toWrite # {} => pc \in {"write", "logs", "done"}
  /\ pc \in Holding => \A o \in found : o.res = Current
  /\ Range(files) \subseteq Object \cup Event

TypeInv == DiskInv /\ ScopeInv /\ TallyOK /\ EndOK /\ StockOK

(* What is excluded has been asked for, or is a webhook's.                  *)
Just(o) == o.res.kind \in Excluded => GvkAsked(o.res, Opt) \/ o.mark = "webhook"

(* A GET is made for a resource only as its kind allows.                    *)
Serves(why, r) ==
  r.kind \in Excluded => why = "ocp" \/ (why = "gvk" /\ GvkAsked(r, Opt)) \/ (why = "tvk" /\ IsTvk(r))

(* The names noted of a kind are those of objects that could be collected.  *)
KeptOK ==
  /\ DOMAIN kept = Kinds
  /\ \A k \in Kinds : \A x \in kept[k] :
       \E o \in Object : o.res.kind = k /\ x = <<o.ns, o.name>> /\ Just(o)

JustOK ==
  /\ \A o \in found : Just(o)
  /\ \A e \in events : Just(e.o)
  /\ \A c \in Range(files) : Just(About(c))
  /\ pc \in {"read", "ocpRead"} => \A i \in DOMAIN reads : Serves(reads[i][1], Current)

ContentInv == TypeInv /\ KeptOK /\ JustOK
-----------------------------------------------------------------------------
LEMMA StepTallies == TallyOK /\ [Next]_vars => TallyOK'
<1> SUFFICES ASSUME TallyOK, [Next]_vars PROVE TallyOK'
  OBVIOUS
<1>1. \/ (NoFault \/ Fault) /\ changes' = changes
      \/ faults' = faults /\ faults + changes < MaxMishaps /\ changes' = changes + 1
  <2>1. CASE CollectorNext \/ Kill
    <3>1. changes' = changes
      BY <2>1 DEF CollectorNext, Kill, clusterVars, PreRun, CheckIfNamespacesExist, GetAPIResourceList,
                  NextGroup, SkipEvents, StartResource, GetResourceObjects, CheckIsOpenshift, EndReads,
                  StartPod, WriteLog, WriteYaml, FinishResource, StartEvents, GetEvents, WriteEvent,
                  CreateZip, AddEntry, RemoveFolder, CloseZip
    <3>2. NoFault \/ Fault
      BY <2>1 DEF CollectorNext, Kill, NoFault, PreRun, CheckIfNamespacesExist, GetAPIResourceList,
                  NextGroup, SkipEvents, StartResource, GetResourceObjects, CheckIsOpenshift, EndReads,
                  StartPod, WriteLog, WriteYaml, FinishResource, StartEvents, GetEvents, WriteEvent,
                  CreateZip, AddEntry, RemoveFolder, CloseZip
    <3> QED BY <3>1, <3>2
  <2>2. CASE Change
    BY <2>2 DEF Change
  <2>3. CASE UNCHANGED vars
    BY <2>3 DEF vars, clusterVars, NoFault
  <2> QED BY <2>1, <2>2, <2>3 DEF Next
<1> QED BY <1>1, CollectorAssumption DEF TallyOK, NoFault, Fault

LEMMA StepEnds == EndOK /\ [Next]_vars => EndOK'
<1> SUFFICES ASSUME EndOK, [Next]_vars PROVE EndOK'
  OBVIOUS
<1>1. \/ result' = result /\ (pc' = pc \/ pc' # "done")
      \/ result' \in {"nil", "error", "killed"}
  <2>1. CASE CollectorNext
    BY <2>1 DEF CollectorNext, Goto, Fail, PreRun, CheckIfNamespacesExist, GetAPIResourceList, NextGroup,
                SkipEvents, StartResource, GetResourceObjects, CheckIsOpenshift, EndReads, ToWriting,
                StartPod, WriteLog, WriteYaml, FinishResource, StartEvents, GetEvents, WriteEvent,
                CreateZip, AddEntry, RemoveFolder, CloseZip
  <2>2. CASE Kill \/ Change \/ UNCHANGED vars
    BY <2>2 DEF Kill, Change, vars
  <2> QED BY <2>1, <2>2 DEF Next
<1> QED BY <1>1 DEF EndOK

(* The steps that neither find, list nor write anything.                    *)
Aside ==
  \/ PreRun \/ CheckIfNamespacesExist \/ NextGroup \/ SkipEvents \/ StartEvents
  \/ CreateZip \/ AddEntry \/ RemoveFolder \/ CloseZip \/ Kill \/ UNCHANGED vars

LEMMA AsideFacts ==
  ASSUME Aside
  PROVE  /\ UNCHANGED <<live, stayed, served, known, asked, found, toWrite, events, kept, files>>
         /\ \/ pc' \notin Holding /\ (pc \notin {"write", "logs", "done"} \/ pc' = "done")
            \/ UNCHANGED <<pc, queue, reads>>
<1>1. CASE PreRun \/ CheckIfNamespacesExist \/ NextGroup \/ SkipEvents \/ StartEvents
  BY <1>1 DEF Holding, Goto, Fail, PreRun, CheckIfNamespacesExist, NextGroup, SkipEvents, StartEvents,
              clusterVars, readVars, diskVars
<1>2. CASE CreateZip \/ AddEntry \/ RemoveFolder \/ CloseZip
  BY <1>2 DEF Holding, Goto, Fail, CreateZip, AddEntry, RemoveFolder, CloseZip, clusterVars, readVars
<1>3. CASE Kill \/ UNCHANGED vars
  BY <1>3 DEF Holding, Kill, vars, clusterVars, readVars, diskVars
<1> QED BY <1>1, <1>2, <1>3 DEF Aside

(* A file that is written holds the object it is written for.               *)
LEMMA WriteRange ==
  ASSUME NEW path, NEW content, Write(path, content)
  PROVE  Range(files') \subseteq Range(files) \cup {content}
BY DEF Write, Range

LEMMA NextFacts ==
  /\ toWrite # {} => NextObject \in toWrite
  /\ events # {} => NextEvent \in events
BY DEF NextObject, NextEvent

(* The steps that write an object's files.                                  *)
LEMMA WritingFacts ==
  ASSUME ScopeInv, StartPod \/ WriteLog \/ WriteYaml
  PROVE  /\ UNCHANGED <<live, stayed, served, known, asked, queue, reads, found, events, kept>>
         /\ pc \in {"write", "logs"} /\ pc' \in {"write", "logs", "done"}
         /\ toWrite' \subseteq toWrite /\ NextObject \in toWrite
         /\ files' = files \/ \E path : Write(path, NextObject)
<1>1. toWrite # {} /\ pc \in {"write", "logs"}
  BY DEF StartPod, WriteLog, WriteYaml, ScopeInv, FoundOK
<1>2. UNCHANGED <<live, stayed, served, known, asked, queue, reads, found, events, kept>>
  BY DEF StartPod, WriteLog, WriteYaml, clusterVars, readVars
<1>3. pc' \in {"write", "logs", "done"} /\ toWrite' \subseteq toWrite
  BY DEF StartPod, WriteLog, WriteYaml, readVars, Goto, Fail
<1>4. files' = files \/ \E path : Write(path, NextObject)
  BY DEF StartPod, WriteLog, WriteYaml, diskVars
<1> QED BY <1>1, <1>2, <1>3, <1>4, NextFacts

LEMMA InitStock == Init => TallyOK /\ EndOK /\ StockOK
<1> SUFFICES ASSUME Init PROVE TallyOK /\ EndOK /\ StockOK
  OBVIOUS
<1>1. TallyOK /\ EndOK
  BY CollectorAssumption DEF Init, TallyOK, EndOK
<1>2. Range(files) = {}
  BY DEF Init, Range
<1> QED BY <1>1, <1>2 DEF Init, StockOK, Holding

LEMMA StepStocks == TypeInv /\ [Next]_vars => StockOK'
<1> SUFFICES ASSUME TypeInv, [Next]_vars PROVE StockOK'
  OBVIOUS
<1> USE DEF StockOK, Holding
<1>0. /\ StockOK /\ ScopeInv /\ live \subseteq Object
  BY DEF TypeInv, ScopeInv, GroupsOK
<1>1. CASE Aside
  <2>1. /\ UNCHANGED <<live, stayed, served, known, found, toWrite, events, files>>
        /\ \/ pc' \notin Holding /\ (pc \notin {"write", "logs", "done"} \/ pc' = "done")
           \/ UNCHANGED <<pc, queue>>
    BY <1>1, AsideFacts
  <2>2. Range(files') = Range(files)
    BY <2>1
  <2>3. toWrite' # {} => pc' \in {"write", "logs", "done"}
    BY <1>0, <2>1
  <2>4. pc' \in Holding => \A o \in found' : o.res = Current'
    BY <1>0, <2>1 DEF Current
  <2> QED BY <1>0, <2>1, <2>2, <2>3, <2>4
<1>2. CASE GetAPIResourceList
  <2>1. /\ pc = "discover" /\ pc' \in {"resource", "done"} /\ known' \subseteq served
        /\ UNCHANGED <<live, stayed, served, found, toWrite, events, files>>
    BY <1>2 DEF GetAPIResourceList, clusterVars, diskVars, Goto, Fail
  <2> QED BY <1>0, <2>1
<1>3. CASE StartResource
  <2>1. /\ pc = "resource" /\ found' = {}
        /\ UNCHANGED <<live, stayed, served, known, toWrite, events, files>>
    BY <1>3 DEF StartResource, clusterVars, diskVars
  <2> QED BY <1>0, <2>1
<1>4. CASE GetResourceObjects
  <2>1. /\ pc \in {"read", "ocpRead"} /\ pc' = pc
        /\ found' \subseteq found \cup Answered(Current, Head(reads)[2])
        /\ UNCHANGED <<live, stayed, served, known, queue, toWrite, events, files>>
    BY <1>4 DEF GetResourceObjects, clusterVars, diskVars, Goto
  <2>2. \A o \in Answered(Current, Head(reads)[2]) : o \in Object /\ o.res = Current
    BY <1>0 DEF Answered
  <2>3. toWrite = {} /\ Current' = Current
    BY <1>0, <2>1 DEF Current
  <2> QED BY <1>0, <2>1, <2>2, <2>3
<1>5. CASE CheckIsOpenshift \/ EndReads
  <2>1. /\ pc \in {"read", "ocpRead"}
        /\ \/ pc' = "ocpRead" /\ toWrite' = toWrite
           \/ pc' = "write" /\ toWrite' = found
        /\ UNCHANGED <<live, stayed, served, known, queue, found, events, files>>
    BY <1>5 DEF CheckIsOpenshift, EndReads, ToWriting, Goto, clusterVars, diskVars
  <2> QED BY <1>0, <2>1 DEF Current
<1>6. CASE StartPod \/ WriteLog \/ WriteYaml
  <2>1. /\ UNCHANGED <<live, stayed, served, known, queue, found, events>>
        /\ pc \in {"write", "logs"} /\ pc' \in {"write", "logs", "done"}
        /\ toWrite' \subseteq toWrite /\ NextObject \in toWrite
        /\ files' = files \/ \E path : Write(path, NextObject)
    BY <1>0, <1>6, WritingFacts
  <2>2. Range(files') \subseteq Range(files) \cup {NextObject}
    BY <2>1, WriteRange
  <2> QED BY <1>0, <2>1, <2>2 DEF Current
<1>7. CASE FinishResource
  <2>1. /\ pc' = "resource" /\ toWrite' = {}
        /\ UNCHANGED <<live, stayed, served, known, found, events, files>>
    BY <1>7 DEF FinishResource, clusterVars, diskVars, Goto
  <2> QED BY <1>0, <2>1
<1>8. CASE GetEvents
  <2>1. /\ pc = "events" /\ pc' = "events" /\ events' \subseteq Event
        /\ UNCHANGED <<live, stayed, served, known, toWrite, found, files>>
    BY <1>0, <1>8 DEF GetEvents, clusterVars, diskVars, Goto
  <2> QED BY <1>0, <2>1
<1>9. CASE WriteEvent
  <2>1. /\ pc = "events" /\ pc' \in {"events", "done"} /\ events' \subseteq events /\ events # {}
        /\ UNCHANGED <<live, stayed, served, known, toWrite, found>>
        /\ files' = files \/ Write(EventPath(NextEvent), NextEvent)
    BY <1>9 DEF WriteEvent, clusterVars, readVars, diskVars, Goto, Fail
  <2>2. NextEvent \in Event
    BY <1>0, <2>1, NextFacts
  <2>3. Range(files') \subseteq Object \cup Event
    BY <1>0, <2>1, <2>2, WriteRange
  <2> QED BY <1>0, <2>1, <2>3
<1>10. CASE Change
  <2>1. /\ UNCHANGED <<served, known, pc, queue, found, toWrite, events, files>>
        /\ stayed' \subseteq live'
    BY <1>0, <1>10 DEF Change, readVars, diskVars
  <2> QED BY <1>0, <2>1 DEF Current
<1> QED
  BY <1>1, <1>2, <1>3, <1>4, <1>5, <1>6, <1>7, <1>8, <1>9, <1>10 DEF Next, CollectorNext, Aside

LEMMA InitTypes == Init => TypeInv
BY InitDisk, InitScope, InitStock DEF TypeInv

LEMMA StepKeepsTypes == TypeInv /\ [Next]_vars => TypeInv'
BY StepKeepsDisk, StepInScope, StepTallies, StepEnds, StepStocks DEF TypeInv

(* The files hold objects of the cluster, and options, disk, result and the *)
(* count of mishaps are in their states.                                    *)
THEOREM CollectorTypesHold == Spec => []CollectorTypeOK
<1>1. TypeInv => CollectorTypeOK
  <2> SUFFICES ASSUME TypeInv PROVE CollectorTypeOK
    OBVIOUS
  <2>1. DiskOK /\ GroupsOK /\ TallyOK /\ EndOK /\ StockOK
    BY DEF TypeInv, DiskInv, ScopeInv
  <2>2. result # "none" <=> pc = "done" \/ (pc = "close" /\ result = "error")
    BY <2>1 DEF TypeInv, DiskInv, CollectingOK, ZippingOK, Collecting, EndOK
  <2> QED BY <2>1, <2>2 DEF CollectorTypeOK, DiskOK, GroupsOK, TallyOK, EndOK, StockOK
<1> QED BY InitTypes, StepKeepsTypes, <1>1, PTL DEF Spec
-----------------------------------------------------------------------------
(* The GETs of one kind are all for the same reason.                        *)
LEMMA GetsWhy ==
  ASSUME NEW why, NEW r, NEW opt
  PROVE  \A i \in DOMAIN Gets(why, r, opt) : Gets(why, r, opt)[i][1] = why
<1>1. CASE r.namespaced /\ ~opt.clustered
  BY <1>1 DEF Gets
<1>2. CASE ~(r.namespaced /\ ~opt.clustered)
  <2> DEFINE read == <<why, "">>
  <2>1. Gets(why, r, opt) = <<read>>
    BY <1>2 DEF Gets
  <2>2. read[1] = why
    OBVIOUS
  <2> HIDE DEF read
  <2> QED BY <2>1, <2>2
<1> QED BY <1>1, <1>2

(* What is wanted for such a reason may be collected.                       *)
LEMMA WantedIsJust ==
  ASSUME NEW why, NEW o \in Object, NEW opt, Serves(why, o.res), Wanted(why, o.res, o, opt)
  PROVE  Just(o)
<1> SUFFICES ASSUME o.res.kind \in Excluded PROVE GvkAsked(o.res, Opt) \/ o.mark = "webhook"
  BY DEF Just
<1>1. ~IsTvk(o.res)
  BY KindAssumption DEF IsTvk
<1>2. CASE why = "ocp"
  BY <1>2 DEF Wanted, OcpRelated, Excluded
<1>3. CASE why # "ocp"
  BY <1>1, <1>3 DEF Serves
<1> QED BY <1>2, <1>3

(* The events that the collector takes are of objects it may collect.       *)
LEMMA NotedIsJust == ASSUME KeptOK, NEW e \in Event, Noted(e) PROVE Just(e.o)
<1> SUFFICES ASSUME e.o.res.kind \in Excluded PROVE Just(e.o)
  BY DEF Just
<1>1. e.o \in Object /\ e.o.res \in Range(Api[e.o.res.group]) /\ e.o.res.group \in DOMAIN Api
  BY ObjectAssumption
<1>2. ~IsTvk(e.o.res)
  BY <1>1, KindAssumption DEF IsTvk
<1>3. e.o.res.kind \in Kinds
  BY <1>1 DEF Kinds, Range
<1>4. PICK o \in Object : /\ o.res.kind = e.o.res.kind /\ Just(o)
                          /\ <<InvolvedNs(e), e.o.name>> = <<o.ns, o.name>>
  BY <1>2, <1>3 DEF Noted, KeptOK
<1>5. o.res = e.o.res
  BY <1>1, <1>4, KindAssumption
<1>6. o.ns = e.o.ns
  BY <1>1, <1>4, <1>5, ObjectAssumption DEF InvolvedNs
<1>7. o = e.o
  BY <1>1, <1>4, <1>5, <1>6, ObjectAssumption
<1> QED BY <1>4, <1>7

(* The parts stay as they are where nothing changes that they speak of.     *)
LEMMA FrameJust ==
  ASSUME UNCHANGED asked
  PROVE  /\ \A o : Just(o) <=> Just(o)'
         /\ \A why, r : Serves(why, r) <=> Serves(why, r)'
BY DEF Just, Serves, Opt

LEMMA AskedStays == [Next]_vars => UNCHANGED asked
BY DEF Next, CollectorNext, Kill, Change, vars, PreRun, CheckIfNamespacesExist, GetAPIResourceList,
       NextGroup, SkipEvents, StartResource, GetResourceObjects, CheckIsOpenshift, EndReads, StartPod,
       WriteLog, WriteYaml, FinishResource, StartEvents, GetEvents, WriteEvent, CreateZip, AddEntry,
       RemoveFolder, CloseZip

(* The present resource is one of the server's, while there is one.         *)
LEMMA CurrentListed ==
  ASSUME ScopeInv, queue # <<>>
  PROVE  Current.kind \in Kinds
<1>1. Current \in AllResources
  BY TailFacts DEF ScopeInv, QueueOK, Current
<1>2. PICK g \in known : Current \in Range(Api[g])
  BY <1>1 DEF AllResources
<1>3. g \in DOMAIN Api
  BY DEF ScopeInv, GroupsOK
<1> QED BY <1>2, <1>3 DEF Kinds, Range

LEMMA StepKeepsKept == ContentInv /\ [Next]_vars => KeptOK'
<1> SUFFICES ASSUME ContentInv, [Next]_vars PROVE KeptOK'
  OBVIOUS
<1>0. KeptOK /\ ScopeInv /\ StockOK /\ JustOK /\ UNCHANGED asked
  BY AskedStays DEF ContentInv, TypeInv
<1>1. CASE kept' = kept
  BY <1>0, <1>1, FrameJust DEF KeptOK
<1>2. CASE FinishResource /\ kept' # kept
  <2>1. pc = "write" /\ kept' = [kept EXCEPT ![Current.kind] = {<<o.ns, o.name>> : o \in found}]
    BY <1>2 DEF FinishResource
  <2>2. \A o \in found : o \in Object /\ o.res = Current /\ Just(o)
    BY <1>0, <2>1 DEF StockOK, Holding, JustOK
  <2>3. Current.kind \in Kinds
    BY <1>0, <2>1, CurrentListed DEF ScopeInv, ReadsOK
  <2>4. /\ DOMAIN kept' = Kinds
        /\ kept'[Current.kind] = {<<o.ns, o.name>> : o \in found}
        /\ \A k \in Kinds \ {Current.kind} : kept'[k] = kept[k]
    BY <1>0, <2>1, <2>3 DEF KeptOK
  <2>5. \A x \in kept'[Current.kind] :
          \E o \in Object : o.res.kind = Current.kind /\ x = <<o.ns, o.name>> /\ Just(o)
    BY <2>2, <2>4
  <2>6. ASSUME NEW k \in Kinds, NEW x \in kept'[k]
        PROVE  \E o \in Object : o.res.kind = k /\ x = <<o.ns, o.name>> /\ Just(o)
    BY <1>0, <2>4, <2>5, <2>6 DEF KeptOK
  <2> QED BY <1>0, <2>4, <2>6, FrameJust DEF KeptOK
<1>3. kept' = kept \/ FinishResource
  BY DEF Next, CollectorNext, Kill, Change, vars, PreRun, CheckIfNamespacesExist, GetAPIResourceList,
         NextGroup, SkipEvents, StartResource, GetResourceObjects, CheckIsOpenshift, EndReads, StartPod,
         WriteLog, WriteYaml, StartEvents, GetEvents, WriteEvent, CreateZip, AddEntry, RemoveFolder, CloseZip
<1> QED BY <1>1, <1>2, <1>3

LEMMA StartServes ==
  ASSUME TypeInv, StartResource
  PROVE  \A i \in DOMAIN reads' : Serves(reads'[i][1], Current)
<1> DEFINE may(rs) == /\ rs \in Seq(Why \X NsName)
                      /\ \A i \in DOMAIN rs : Serves(rs[i][1], Current)
<1>1. /\ pc = "resource" /\ l.clustered = Opt.clustered /\ l.gvks = Opt.gvks
      /\ l.namespaces \in Seq(NsName) /\ \A i \in DOMAIN l.namespaces : AllowedNs(l.namespaces[i])
  BY DEF StartResource, TypeInv, ScopeInv, OptionsOK, Working
<1>2. ASSUME NEW why \in Why, Serves(why, Current) PROVE may(Gets(why, Current, l))
  <2>1. Gets(why, Current, l) \in Seq(Why \X NsName)
    BY <1>1, GetsPermitted
  <2>2. \A i \in DOMAIN Gets(why, Current, l) : Gets(why, Current, l)[i][1] = why
    BY GetsWhy, Zenon
  <2> QED BY <1>2, <2>1, <2>2
<1>3. may(<<>>)
  OBVIOUS
<1>4. \A s, t : may(s) /\ may(t) => may(s \o t)
  <2> SUFFICES ASSUME NEW s, NEW t, may(s), may(t) PROVE may(s \o t)
    OBVIOUS
  <2>1. s \o t \in Seq(Why \X NsName)
    BY ConcatFacts
  <2>2. ASSUME NEW i \in DOMAIN (s \o t) PROVE Serves((s \o t)[i][1], Current)
    <3>1. \/ \E j \in DOMAIN s : (s \o t)[i] = s[j]
          \/ \E j \in DOMAIN t : (s \o t)[i] = t[j]
      BY ConcatFacts
    <3> HIDE DEF Serves
    <3> QED BY <3>1
  <2> QED BY <2>1, <2>2
<1>5. /\ IsTvk(Current) => Serves("tvk", Current)
      /\ ReadForFilter(Current, l) => Serves("filter", Current)
      /\ GvkAsked(Current, l) => Serves("gvk", Current)
  BY <1>1 DEF Serves, ReadForFilter, GvkAsked, NonLabeled, Excluded
<1> HIDE DEF may
<1>6. may(reads')
  BY <1>2, <1>3, <1>4, <1>5 DEF StartResource, Why
<1> QED BY <1>6 DEF may

LEMMA StepKeepsJust == ContentInv /\ [Next]_vars => JustOK'
<1> SUFFICES ASSUME ContentInv, [Next]_vars PROVE JustOK'
  OBVIOUS
<1>0. /\ JustOK /\ KeptOK /\ ScopeInv /\ StockOK /\ TypeInv /\ live \subseteq Object /\ UNCHANGED asked
  BY AskedStays DEF ContentInv, TypeInv, ScopeInv, GroupsOK
<1>a. /\ \A o : Just(o)' <=> Just(o)
      /\ \A why, r : Serves(why, r)' <=> Serves(why, r)
  BY <1>0, FrameJust
<1> HIDE DEF Just, Serves
<1>1. CASE \/ Aside \/ GetAPIResourceList \/ EndReads \/ FinishResource \/ Change
           \/ (CheckIsOpenshift /\ pc' # "ocpRead")
  <2>1. UNCHANGED <<found, events, files>>
    BY <1>1, AsideFacts DEF GetAPIResourceList, EndReads, FinishResource, Change, CheckIsOpenshift, readVars, diskVars
  <2>2. pc' \notin {"read", "ocpRead"} \/ UNCHANGED <<pc, queue, reads>>
    <3>1. CASE Aside
      BY <3>1, AsideFacts DEF Holding
    <3>2. CASE ~Aside
      BY <1>1, <3>2 DEF GetAPIResourceList, EndReads, FinishResource, Change, CheckIsOpenshift, Goto,
                        Fail, ToWriting, readVars
    <3> QED BY <3>1, <3>2
  <2> QED BY <1>0, <1>a, <2>1, <2>2 DEF JustOK, Current
<1>2. CASE StartResource
  <2>1. found' = {} /\ UNCHANGED <<events, files, queue>>
    BY <1>2 DEF StartResource, diskVars
  <2>2. \A i \in DOMAIN reads' : Serves(reads'[i][1], Current)
    BY <1>0, <1>2, StartServes
  <2> QED BY <1>0, <1>a, <2>1, <2>2 DEF JustOK, Current
<1>3. CASE GetResourceObjects
  <2>1. /\ pc \in {"read", "ocpRead"} /\ pc' = pc /\ reads # <<>> /\ reads' = Tail(reads)
        /\ UNCHANGED <<events, files, queue>>
    BY <1>3 DEF GetResourceObjects, Goto, diskVars
  <2>2. reads \in Seq(Why \X NsName) /\ \A i \in DOMAIN reads : Serves(reads[i][1], Current)
    BY <1>0, <2>1 DEF ScopeInv, ReadsOK, JustOK
  <2>3. /\ Serves(Head(reads)[1], Current)
        /\ \A i \in DOMAIN reads' : Serves(reads'[i][1], Current)
    BY <2>1, <2>2, TailFacts
  <2>4. \A o \in found' : \/ o \in found
                          \/ o \in live /\ o.res = Current /\ Wanted(Head(reads)[1], Current, o, l)
    BY <1>3 DEF GetResourceObjects, Answered
  <2>5. \A o \in found' : Just(o)
    BY <1>0, <2>3, <2>4, WantedIsJust DEF JustOK
  <2> QED BY <1>0, <1>a, <2>1, <2>3, <2>5 DEF JustOK, Current
<1>4. CASE CheckIsOpenshift /\ pc' = "ocpRead"
  <2>1. UNCHANGED <<found, events, files, queue>> /\ reads' = Gets("ocp", Current, l')
    BY <1>4 DEF CheckIsOpenshift, ToWriting, Goto, diskVars
  <2>2. \A i \in DOMAIN reads' : reads'[i][1] = "ocp"
    BY <2>1, GetsWhy
  <2>3. Serves("ocp", Current)
    BY DEF Serves
  <2> QED BY <1>0, <1>a, <2>1, <2>2, <2>3 DEF JustOK, Current
<1>5. CASE StartPod \/ WriteLog \/ WriteYaml
  <2>1. /\ UNCHANGED <<found, events>> /\ pc' \notin {"read", "ocpRead"} /\ NextObject \in toWrite
        /\ files' = files \/ \E path : Write(path, NextObject)
    BY <1>0, <1>5, WritingFacts
  <2>2. Range(files') \subseteq Range(files) \cup {NextObject}
    BY <2>1, WriteRange
  <2>3. Just(About(NextObject))
    BY <1>0, <2>1, AboutFacts DEF StockOK, JustOK
  <2> QED BY <1>0, <1>a, <2>1, <2>2, <2>3 DEF JustOK
<1>6. CASE GetEvents
  <2>1. pc' = "events" /\ UNCHANGED <<found, files>>
    BY <1>6 DEF GetEvents, Goto, diskVars
  <2>2. \A e \in events' : e \in events \/ (e \in Event /\ Noted(e))
    BY <1>6 DEF GetEvents
  <2>3. \A e \in events' : Just(e.o)
    BY <1>0, <2>2, NotedIsJust DEF JustOK
  <2> QED BY <1>0, <1>a, <2>1, <2>3 DEF JustOK
<1>7. CASE WriteEvent
  <2>1. /\ pc' \in {"events", "done"} /\ found' = found /\ events' \subseteq events /\ events # {}
        /\ files' = files \/ Write(EventPath(NextEvent), NextEvent)
    BY <1>7 DEF WriteEvent, Goto, Fail, readVars, diskVars
  <2>2. Just(About(NextEvent))
    BY <1>0, <2>1, NextFacts, AboutFacts DEF StockOK, JustOK
  <2>3. Range(files') \subseteq Range(files) \cup {NextEvent}
    BY <2>1, WriteRange
  <2> QED BY <1>0, <1>a, <2>1, <2>2, <2>3 DEF JustOK
<1> QED BY <1>1, <1>2, <1>3, <1>4, <1>5, <1>6, <1>7 DEF Next, CollectorNext, Aside

LEMMA InitContent == Init => ContentInv
<1> SUFFICES ASSUME Init PROVE ContentInv
  OBVIOUS
<1>1. KeptOK
  BY DEF Init, KeptOK
<1>2. Range(files) = {}
  BY DEF Init, Range
<1>3. JustOK
  BY <1>2 DEF Init, JustOK
<1> QED BY <1>1, <1>3, InitTypes DEF ContentInv

LEMMA StepKeepsContent == ContentInv /\ [Next]_vars => ContentInv'
BY StepKeepsTypes, StepKeepsKept, StepKeepsJust DEF ContentInv

(* Nothing is collected but from the namespaces the user has named, and of  *)
(* what is excluded only what the user has asked for and webhooks.          *)
THEOREM CollectsNothingElseHolds == Spec => []CollectsNothingElse
<1>1. ContentInv => CollectsNothingElse
  BY DEF ContentInv, TypeInv, ScopeInv, JustOK, Just, CollectsNothingElse
<1> QED BY InitContent, StepKeepsContent, <1>1, PTL DEF Spec
-----------------------------------------------------------------------------
(***************************************************************************)
(* What may not be missed, as long as no call fails.                        *)
(***************************************************************************)

(* Objects that the collection owes to the user, and events with them.      *)
Owed == {o \in stayed : Promised(o) /\ SoleKind(o)}

OwedEvents == {e \in Event : e.o \in Owed /\ e.o.ns # "" /\ InScope(e.o)}

(* The file of an event holds it, or another event of the same object.      *)
EventThere(e) ==
  /\ EventPath(e) \in DOMAIN files
  /\ files[EventPath(e)] \in {d \in Event : d.o = e.o}
  /\ SoleEvent(e) => files[EventPath(e)] = e

Written(o) ==
  /\ YamlPath(o) \in DOMAIN files /\ files[YamlPath(o)] = o
  /\ o.res.kind = "Pod" => \A lg \in LogsOf(o) : Path(o, lg) \in DOMAIN files

Passed(o) == Written(o) /\ (~IsTvk(o.res) => <<o.ns, o.name>> \in kept[o.res.kind])

(* One of the GETs still to make answers with o.                            *)
ToCome(o) ==
  \E read \in Range(reads) : Wanted(read[1], o.res, o, Opt) /\ read[2] \in {"", o.ns}

(* On OpenShift a second round of GETs follows the first.                   *)
OcpDue(o) == ~IsTvk(o.res) /\ OcpGroup \in served /\ OcpRelated(o.res, o)

(* The present resource is that of o.                                       *)
MeetsOK(o) ==
  /\ pc = "read" => o \in found \/ ToCome(o) \/ OcpDue(o)
  /\ pc = "ocpRead" => o \in found \/ ToCome(o)
  /\ pc \in {"write", "logs"} => o \in found /\ (o \in toWrite \/ Written(o))
  /\ pc = "logs" /\ NextObject = o => \A lg \in LogsOf(o) : lg \in logs \/ Path(o, lg) \in DOMAIN files

Gathering == {"resource"} \cup Holding
Ending    == {"events", "add", "close"}

CoverOK(o) ==
  /\ pc \in Gathering => o.res.group \in groups \/ o.res \in Range(queue) \/ Passed(o)
  /\ pc \in Holding /\ Current = o.res => MeetsOK(o)
  /\ pc \in Ending \/ result = "nil" => Passed(o)

EventOK(e) ==
  /\ pc = "events" => \/ \E read \in Range(reads) : read[2] \in {"", e.o.ns}
                      \/ e \in events \/ EventThere(e)
  /\ pc \in {"add", "close"} \/ result = "nil" => EventThere(e)

(* The logs to write are no YAML files.                                     *)
LogsOK == pc = "logs" => \A lg \in logs : lg # <<"yaml">>

CoverInv ==
  /\ ContentInv /\ LogsOK
  /\ faults = 0 =>
       /\ pc \in Gathering \cup Ending => known = served
       /\ \A o \in Owed : CoverOK(o)
       /\ "" \in served => \A e \in OwedEvents : EventOK(e)
-----------------------------------------------------------------------------
(* More about sequences.                                                    *)
LEMMA RangeOfTail ==
  ASSUME NEW S, NEW s \in Seq(S), s # <<>>
  PROVE  Range(s) = {Head(s)} \cup Range(Tail(s))
<1>1. /\ Head(s) = s[1] /\ 1 \in DOMAIN s
      /\ \A i \in DOMAIN Tail(s) : i + 1 \in DOMAIN s /\ Tail(s)[i] = s[i + 1]
  BY TailFacts
<1>2. \A i \in DOMAIN s \ {1} : i - 1 \in DOMAIN Tail(s) /\ Tail(s)[i - 1] = s[i]
  OBVIOUS
<1>3. ASSUME NEW x \in Range(s) PROVE x \in {Head(s)} \cup Range(Tail(s))
  <2>1. PICK i \in DOMAIN s : x = s[i]
    BY DEF Range
  <2>2. CASE i = 1
    BY <1>1, <2>1, <2>2
  <2>3. CASE i # 1
    <3>1. i - 1 \in DOMAIN Tail(s) /\ Tail(s)[i - 1] = x
      BY <1>2, <2>1, <2>3
    <3> QED BY <3>1 DEF Range
  <2> QED BY <2>2, <2>3
<1>4. Head(s) \in Range(s)
  BY <1>1 DEF Range
<1>5. ASSUME NEW x \in Range(Tail(s)) PROVE x \in Range(s)
  <2>1. PICK i \in DOMAIN Tail(s) : x = Tail(s)[i]
    BY DEF Range
  <2> QED BY <1>1, <2>1 DEF Range
<1> QED BY <1>3, <1>4, <1>5

LEMMA RangeOfConcat ==
  ASSUME NEW S, NEW s \in Seq(S), NEW t \in Seq(S)
  PROVE  Range(s) \subseteq Range(s \o t) /\ Range(t) \subseteq Range(s \o t)
<1>1. \A i \in DOMAIN s : i \in DOMAIN (s \o t) /\ (s \o t)[i] = s[i]
  OBVIOUS
<1>2. \A i \in DOMAIN t : Len(s) + i \in DOMAIN (s \o t) /\ (s \o t)[Len(s) + i] = t[i]
  OBVIOUS
<1>3. Range(s) \subseteq Range(s \o t)
  BY <1>1 DEF Range
<1>4. Range(t) \subseteq Range(s \o t)
  <2> SUFFICES ASSUME NEW i \in DOMAIN t PROVE t[i] \in Range(s \o t)
    BY DEF Range
  <2> QED BY <1>2 DEF Range
<1> QED BY <1>3, <1>4

LEMMA RangeOfEmpty == Range(<<>>) = {}
BY DEF Range

(* The options have a resource read in a namespace; one of its GETs does.   *)
ReadsIn(r, opt, ns) == opt.clustered \/ ~r.namespaced \/ ns \in Range(opt.namespaces)

Reached(why, r, opt, ns) == \E read \in Range(Gets(why, r, opt)) : read[1] = why /\ read[2] \in {"", ns}

LEMMA GetsReach ==
  ASSUME NEW why, NEW r, NEW opt, NEW ns, ReadsIn(r, opt, ns)
  PROVE  Reached(why, r, opt, ns)
<1> USE DEF ReadsIn, Reached
<1>1. CASE r.namespaced /\ ~opt.clustered
  <2>1. PICK i \in DOMAIN opt.namespaces : ns = opt.namespaces[i]
    BY <1>1 DEF Range
  <2>2. i \in DOMAIN Gets(why, r, opt) /\ Gets(why, r, opt)[i] = <<why, ns>>
    BY <1>1, <2>1 DEF Gets
  <2>3. <<why, ns>> \in Range(Gets(why, r, opt))
    BY <2>2 DEF Range
  <2> QED BY <2>3
<1>2. CASE ~(r.namespaced /\ ~opt.clustered)
  <2> DEFINE read == <<why, "">>
  <2>1. Gets(why, r, opt) = <<read>>
    BY <1>2 DEF Gets
  <2>2. read[1] = why /\ read[2] = ""
    OBVIOUS
  <2> HIDE DEF read
  <2>3. read \in Range(Gets(why, r, opt))
    BY <2>1 DEF Range
  <2> QED BY <2>2, <2>3
<1> QED BY <1>1, <1>2
-----------------------------------------------------------------------------
(* What is owed.                                                            *)
LEMMA OwedFacts ==
  ASSUME TypeInv, NEW o \in Owed
  PROVE  /\ o \in live /\ o \in Object /\ Promised(o) /\ SoleKind(o)
         /\ o.res.group \in served /\ o.res.kind # "Event"
         /\ o.res.group \in DOMAIN Api /\ o.res \in Range(Api[o.res.group])
<1>1. o \in live /\ o \in Object
  BY DEF Owed, TypeInv, StockOK, ScopeInv, GroupsOK
<1> QED BY <1>1, ObjectAssumption DEF Owed, Promised

LEMMA OwedShrinks ==
  ASSUME [Next]_vars
  PROVE  Owed' \subseteq Owed /\ OwedEvents' \subseteq OwedEvents
<1>1. stayed' \subseteq stayed /\ served' = served
  BY DEF Next, CollectorNext, Kill, Change, vars, clusterVars, PreRun, CheckIfNamespacesExist,
         GetAPIResourceList, NextGroup, SkipEvents, StartResource, GetResourceObjects, CheckIsOpenshift,
         EndReads, StartPod, WriteLog, WriteYaml, FinishResource, StartEvents, GetEvents, WriteEvent,
         CreateZip, AddEntry, RemoveFolder, CloseZip
<1>2. Opt' = Opt
  BY AskedStays DEF Opt
<1>3. \A o : Promised(o)' <=> Promised(o)
  BY <1>1, <1>2 DEF Promised, InScope
<1>4. Owed' \subseteq Owed
  BY <1>1, <1>3 DEF Owed, SoleKind
<1> QED BY <1>2, <1>4 DEF OwedEvents, InScope

(* The object of a kind that only one resource has is that resource's.      *)
LEMMA SoleFacts ==
  ASSUME NEW o, SoleKind(o), NEW g \in DOMAIN Api, NEW r \in Range(Api[g]), r.kind = o.res.kind
  PROVE  r = o.res
BY DEF SoleKind, Range

LEMMA SoleCurrent ==
  ASSUME TypeInv, NEW o, SoleKind(o), queue # <<>>, Current.kind = o.res.kind
  PROVE  Current = o.res
<1>1. ScopeInv
  BY DEF TypeInv
<1>2. Current \in AllResources
  BY <1>1, TailFacts DEF ScopeInv, QueueOK, Current
<1>3. PICK g \in known : Current \in Range(Api[g])
  BY <1>2 DEF AllResources
<1>4. g \in DOMAIN Api
  BY <1>1 DEF ScopeInv, GroupsOK
<1> QED BY <1>3, <1>4, SoleFacts

(* No other file is written over that of such an object.                    *)
LEMMA OwnPath ==
  ASSUME NEW o \in Object, NEW p \in Object, SoleKind(o), YamlPath(p) = YamlPath(o)
  PROVE  p = o
<1>1. p.res.kind = o.res.kind /\ p.ns = o.ns /\ p.name = o.name
  BY DEF YamlPath, Path
<1>2. p.res = o.res
  BY <1>1, SoleFacts, ObjectAssumption
<1> QED BY <1>1, <1>2, ObjectAssumption

LEMMA OtherPaths ==
  /\ \A o, p, lg : lg # <<"yaml">> => Path(p, lg) # YamlPath(o)
  /\ \A o \in Object : \A e : EventPath(e) # YamlPath(o)
<1>1. \A o, p, lg : lg # <<"yaml">> => Path(p, lg) # YamlPath(o)
  BY DEF YamlPath, Path
<1>2. ASSUME NEW o \in Object, NEW e PROVE EventPath(e) # YamlPath(o)
  <2>0. PICK g \in DOMAIN Api : o.res \in Range(Api[g])
    BY ObjectAssumption
  <2>1. o.res.kind \in Kinds
    BY <2>0 DEF Kinds, Range
  <2>2. o.res.kind # "Events"
    BY <2>1, KindAssumption
  <2> QED BY <2>2 DEF EventPath, YamlPath, Path
<1> QED BY <1>1, <1>2

LEMMA LogsAreNoYaml == ASSUME NEW o, NEW lg \in LogsOf(o) PROVE lg # <<"yaml">>
BY DEF LogsOf

LEMMA WrittenStays ==
  ASSUME NEW o, Written(o), NEW path, NEW content, Write(path, content),
         path = YamlPath(o) => content = o
  PROVE  Written(o)'
<1>1. /\ DOMAIN files' = DOMAIN files \cup {path}
      /\ \A p \in DOMAIN files' : files'[p] = IF p = path THEN content ELSE files[p]
  BY DEF Write
<1> QED BY <1>1 DEF Written, LogsOf, YamlPath, Path
-----------------------------------------------------------------------------
(* A step that follows no failing call, and is none.                        *)
Smooth == CoverInv /\ faults = 0 /\ faults' = 0

LEMMA SmoothFacts ==
  ASSUME Smooth
  PROVE  /\ ~Fault /\ ContentInv /\ TypeInv /\ ScopeInv /\ StockOK /\ KeptOK /\ LogsOK
         /\ pc \in Gathering \cup Ending => known = served
         /\ \A o \in Owed : CoverOK(o)
         /\ "" \in served => \A e \in OwedEvents : EventOK(e)
         /\ result = "nil" => pc = "done"
         /\ pc \in Collecting => result = "none"
<1>1. ~Fault
  BY DEF Smooth, Fault
<1>2. ContentInv /\ TypeInv /\ DiskInv
  BY DEF Smooth, CoverInv, ContentInv, TypeInv
<1>3. result = "nil" => pc = "done"
  BY <1>2 DEF DiskInv, CollectingOK, ZippingOK, Collecting
<1>4. pc \in Collecting => result = "none"
  BY <1>2 DEF DiskInv, CollectingOK
<1> QED BY <1>1, <1>2, <1>3, <1>4 DEF Smooth, CoverInv, ContentInv, TypeInv

(* The program has not begun to read, or has come to a bad end.             *)
LEMMA CoverOutside ==
  ASSUME NEW o, pc' \notin Gathering \cup Ending, result' # "nil"
  PROVE  CoverOK(o)'
BY DEF CoverOK, Gathering, Holding

(* What has passed stays so if nothing is written over it, or noted anew.   *)
LEMMA PassedStays ==
  ASSUME NEW o, Passed(o), UNCHANGED <<kept, files>>
  PROVE  Passed(o)'
BY DEF Passed, Written, LogsOf

(* Until the first group is visited, all of them are to come.               *)
LEMMA CoverBegins ==
  ASSUME Smooth, NEW o \in Owed, PreRun \/ CheckIfNamespacesExist \/ GetAPIResourceList
  PROVE  CoverOK(o)' /\ (pc' \in Gathering \cup Ending => known' = served')
<1>0. ~Fault /\ TypeInv /\ pc \in Collecting /\ result = "none"
  BY SmoothFacts DEF PreRun, CheckIfNamespacesExist, GetAPIResourceList, Collecting
<1>1. CASE PreRun \/ CheckIfNamespacesExist
  <2>1. pc' \in {"check", "discover", "done"} /\ result' \in {"none", "error"}
    BY <1>0, <1>1 DEF PreRun, CheckIfNamespacesExist, Goto, Fail
  <2> QED BY <2>1, CoverOutside DEF Gathering, Holding, Ending
<1>2. CASE GetAPIResourceList
  <2>1. pc' = "resource" /\ result' = "none" /\ known' = served /\ groups' = served /\ served' = served
    BY <1>0, <1>2 DEF GetAPIResourceList, Goto, clusterVars
  <2>2. o.res.group \in groups'
    BY <1>0, <2>1, OwedFacts
  <2> QED BY <2>1, <2>2 DEF CoverOK, Holding, Ending
<1> QED BY <1>1, <1>2

LEMMA CoverNextGroup ==
  ASSUME Smooth, NEW o \in Owed, NextGroup
  PROVE  CoverOK(o)'
<1>0. TypeInv /\ CoverOK(o) /\ result = "none"
  BY SmoothFacts DEF NextGroup, Collecting
<1>1. PICK g \in groups : groups' = groups \ {g} /\ queue' = Api[g]
  BY DEF NextGroup
<1>2. /\ pc = "resource" /\ pc' = "resource" /\ result' = "none" /\ queue = <<>>
      /\ UNCHANGED <<kept, files>>
  BY <1>0 DEF NextGroup, diskVars
<1>3. o.res.group \in groups \/ Passed(o)
  BY <1>0, <1>2, RangeOfEmpty DEF CoverOK, Gathering
<1>4. o.res.group \in groups' \/ o.res \in Range(queue') \/ Passed(o)'
  BY <1>0, <1>1, <1>2, <1>3, OwedFacts, PassedStays
<1> QED BY <1>2, <1>4 DEF CoverOK, Holding, Ending

(* The queue goes on past events, which are nobody's resource.              *)
LEMMA CoverSkipEvents ==
  ASSUME Smooth, NEW o \in Owed, SkipEvents
  PROVE  CoverOK(o)'
<1>0. TypeInv /\ CoverOK(o) /\ result = "none" /\ ScopeInv
  BY SmoothFacts DEF SkipEvents, Collecting
<1>1. /\ pc = "resource" /\ pc' = "resource" /\ result' = "none" /\ queue # <<>>
      /\ queue' = Tail(queue) /\ Head(queue).kind = "Event"
      /\ UNCHANGED <<groups, kept, files>>
  BY <1>0 DEF SkipEvents, diskVars, Current
<1>2. Range(queue) = {Head(queue)} \cup Range(Tail(queue))
  BY <1>0, <1>1, RangeOfTail DEF ScopeInv, QueueOK
<1>3. o.res # Head(queue)
  BY <1>0, <1>1, OwedFacts
<1>4. o.res.group \in groups' \/ o.res \in Range(queue') \/ Passed(o)'
  BY <1>0, <1>1, <1>2, <1>3, PassedStays DEF CoverOK, Gathering
<1> QED BY <1>1, <1>4 DEF CoverOK, Holding, Ending

(* The GETs for a resource in scope.                                        *)
LEMMA ScopeReached ==
  ASSUME TypeInv, NEW o \in Owed, NEW why, NEW opt, InScope(o),
         opt.clustered = Opt.clustered, Range(Opt.namespaces) \subseteq Range(opt.namespaces)
  PROVE  \E read \in Range(Gets(why, o.res, opt)) : read[1] = why /\ read[2] \in {"", o.ns}
<1>1. o.ns = "" => ~o.res.namespaced
  BY OwedFacts, ObjectAssumption
<1>2. opt.clustered \/ o.ns = "" \/ o.ns \in Range(opt.namespaces)
  BY DEF InScope
<1> DEFINE r  == o.res
           ns == o.ns
<1>3. ReadsIn(r, opt, ns)
  BY <1>1, <1>2 DEF ReadsIn
<1> HIDE DEF r, ns
<1>4. Reached(why, r, opt, ns)
  BY <1>3, GetsReach
<1> QED BY <1>4 DEF r, ns, Reached

LEMMA WantedEver == ASSUME NEW r, NEW o, NEW opt PROVE Wanted("tvk", r, o, opt) /\ Wanted("gvk", r, o, opt)
BY DEF Wanted

LEMMA StartReaches ==
  ASSUME Smooth, NEW o \in Owed, StartResource, Current = o.res
  PROVE  ToCome(o)' \/ OcpDue(o)'
<1>0. TypeInv /\ ScopeInv /\ UNCHANGED <<asked, served>>
  BY SmoothFacts DEF StartResource, clusterVars
<1>1. /\ l.clustered = Opt.clustered /\ l.gvks = Opt.gvks /\ l.labels = Opt.labels
      /\ l.namespaces \in Seq(NsName) /\ Range(Opt.namespaces) \subseteq Range(l.namespaces)
      /\ \A i \in DOMAIN l.namespaces : AllowedNs(l.namespaces[i])
  BY <1>0 DEF StartResource, ScopeInv, OptionsOK, Working
<1>2. Opt' = Opt /\ (OcpDue(o)' <=> OcpDue(o))
  BY <1>0 DEF Opt, OcpDue
<1> DEFINE gets(why)  == Gets(why, Current, l)
           reached(s) == \E read \in Range(s) : Wanted(read[1], o.res, o, Opt) /\ read[2] \in {"", o.ns}
<1>3. \A why \in Why : gets(why) \in Seq(Why \X NsName)
  BY <1>1, GetsPermitted
<1>4. ASSUME InScope(o), NEW why, Wanted(why, o.res, o, Opt) PROVE reached(gets(why))
  <2>1. PICK read \in Range(Gets(why, Current, l)) : read[1] = why /\ read[2] \in {"", o.ns}
    BY <1>0, <1>1, <1>4, ScopeReached
  <2>2. Wanted(read[1], o.res, o, Opt)
    BY <1>4, <2>1
  <2> QED BY <2>1, <2>2
<1> HIDE DEF gets, reached
<1>5. CASE IsTvk(o.res)
  <2>1. InScope(o)
    BY <1>0, <1>5, OwedFacts, ServerAssumption DEF Promised, IsTvk
  <2>2. reached(gets("tvk"))
    BY <1>4, <2>1, WantedEver
  <2>3. reads' = gets("tvk")
    BY <1>5 DEF StartResource, gets
  <2> QED BY <1>2, <2>2, <2>3 DEF ToCome, reached
<1>6. CASE ~IsTvk(o.res)
  <2> DEFINE s == IF ReadForFilter(Current, l) THEN gets("filter") ELSE <<>>
             t == IF GvkAsked(Current, l) THEN gets("gvk") ELSE <<>>
  <2>1. reads' = s \o t
    BY <1>6 DEF StartResource, gets
  <2>2. s \in Seq(Why \X NsName) /\ t \in Seq(Why \X NsName)
    BY <1>3 DEF Why
  <2>3. Range(s) \subseteq Range(reads') /\ Range(t) \subseteq Range(reads')
    <3> HIDE DEF s, t
    <3> QED BY <2>1, <2>2, RangeOfConcat
  <2>4. OcpDue(o) \/ (InScope(o) /\ (GvkAsked(o.res, Opt) \/ (ReadForFilter(o.res, Opt) /\ Filtered(o.res, o, Opt))))
    BY <1>0, <1>6, OwedFacts DEF Promised, OcpDue
  <2>5. CASE InScope(o) /\ GvkAsked(o.res, Opt)
    <3>1. GvkAsked(Current, l)
      BY <1>1, <2>5 DEF GvkAsked
    <3>2. reached(gets("gvk"))
      BY <1>4, <2>5, WantedEver
    <3> QED BY <1>2, <2>3, <3>1, <3>2 DEF ToCome, reached
  <2>6. CASE InScope(o) /\ ReadForFilter(o.res, Opt) /\ Filtered(o.res, o, Opt)
    <3>1. ReadForFilter(Current, l)
      BY <1>1, <2>6 DEF ReadForFilter
    <3>2. Wanted("filter", o.res, o, Opt)
      BY <2>6 DEF Wanted
    <3>3. reached(gets("filter"))
      BY <1>4, <2>6, <3>2
    <3> QED BY <1>2, <2>3, <3>1, <3>3 DEF ToCome, reached
  <2> QED BY <1>2, <2>4, <2>5, <2>6
<1> QED BY <1>5, <1>6

LEMMA CoverStartResource ==
  ASSUME Smooth, NEW o \in Owed, StartResource
  PROVE  CoverOK(o)'
<1>0. CoverOK(o) /\ result = "none"
  BY SmoothFacts DEF StartResource, Collecting
<1>1. /\ pc = "resource" /\ pc' = "read" /\ result' = "none"
      /\ UNCHANGED <<groups, queue, kept, files>>
  BY <1>0 DEF StartResource, diskVars, Goto
<1>2. o.res.group \in groups' \/ o.res \in Range(queue') \/ Passed(o)'
  BY <1>0, <1>1, PassedStays DEF CoverOK, Gathering
<1>3. Current' = o.res => MeetsOK(o)'
  <2>1. Current' = Current
    BY <1>1 DEF Current
  <2> QED BY <1>1, <2>1, StartReaches DEF MeetsOK
<1> QED BY <1>1, <1>2, <1>3 DEF CoverOK, Ending
-----------------------------------------------------------------------------
(* Options with more namespaces want no less.                               *)
LEMMA WantedWider ==
  ASSUME NEW why, NEW r, NEW o, NEW opt, Wanted(why, r, o, Opt),
         opt.clustered = Opt.clustered, opt.labels = Opt.labels,
         Range(Opt.namespaces) \subseteq Range(opt.namespaces)
  PROVE  Wanted(why, r, o, opt)
<1>1. Filtered(r, o, Opt) => Filtered(r, o, opt)
  BY DEF Filtered, Labelled
<1> QED BY <1>1 DEF Wanted

LEMMA CoverRead ==
  ASSUME Smooth, NEW o \in Owed, GetResourceObjects
  PROVE  CoverOK(o)'
<1>0. ~Fault /\ TypeInv /\ ScopeInv /\ CoverOK(o) /\ result = "none"
  BY SmoothFacts DEF GetResourceObjects, Collecting
<1>1. /\ pc \in {"read", "ocpRead"} /\ pc' = pc /\ reads # <<>> /\ reads' = Tail(reads) /\ result' = "none"
      /\ UNCHANGED <<groups, queue, kept, files, asked, served>>
  BY <1>0 DEF GetResourceObjects, diskVars, Goto, clusterVars
<1>2. found' = found \cup {p \in Answered(Current, Head(reads)[2]) : Wanted(Head(reads)[1], Current, p, l)}
  BY <1>0 DEF GetResourceObjects
<1>3. o.res.group \in groups' \/ o.res \in Range(queue') \/ Passed(o)'
  BY <1>0, <1>1, PassedStays DEF CoverOK, Gathering, Holding
<1>4. Current' = Current /\ Opt' = Opt
  BY <1>1 DEF Current, Opt
<1>5. ASSUME Current = o.res, ToCome(o) PROVE o \in found' \/ ToCome(o)'
  <2>1. Range(reads) = {Head(reads)} \cup Range(Tail(reads))
    BY <1>0, <1>1, RangeOfTail DEF ScopeInv, ReadsOK
  <2>2. PICK read \in Range(reads) : Wanted(read[1], o.res, o, Opt) /\ read[2] \in {"", o.ns}
    BY <1>5 DEF ToCome
  <2>3. CASE read = Head(reads)
    <3>1. o \in Answered(Current, read[2])
      BY <1>0, <1>5, <2>2, OwedFacts DEF Answered
    <3>2. /\ l.clustered = Opt.clustered /\ l.labels = Opt.labels
          /\ Range(Opt.namespaces) \subseteq Range(l.namespaces)
      BY <1>0, <1>1 DEF ScopeInv, OptionsOK, Working
    <3>3. Wanted(read[1], Current, o, l)
      BY <1>5, <2>2, <3>2, WantedWider
    <3> QED BY <1>2, <2>3, <3>1, <3>3
  <2>4. CASE read \in Range(Tail(reads))
    <3>1. Wanted(read[1], o.res, o, Opt')
      BY <1>4, <2>2
    <3> QED BY <1>1, <1>4, <2>2, <2>4, <3>1 DEF ToCome
  <2> QED BY <2>1, <2>3, <2>4
<1>6. Current' = o.res => MeetsOK(o)'
  <2> SUFFICES ASSUME Current = o.res PROVE MeetsOK(o)'
    BY <1>4
  <2>1. MeetsOK(o)
    BY <1>0, <1>1 DEF CoverOK, Holding
  <2>2. OcpDue(o)' <=> OcpDue(o)
    BY <1>1 DEF OcpDue
  <2>3. o \in found => o \in found'
    BY <1>2
  <2> QED BY <1>1, <1>5, <2>1, <2>2, <2>3 DEF MeetsOK
<1> QED BY <1>1, <1>3, <1>6 DEF CoverOK, Ending

(* Of what OpenShift adds, all is in the namespaces that are read then.     *)
LEMMA OcpReaches ==
  ASSUME TypeInv, ScopeInv', Opt' = Opt, pc' = "ocpRead", NEW o \in Owed, OcpDue(o), Current = o.res,
         Current.kind = "IngressController" /\ Current.group = OcpOperatorGroup
           => OcpNs \in Range(l'.namespaces)
  PROVE  \E read \in Range(Gets("ocp", Current, l')) : Wanted(read[1], o.res, o, Opt) /\ read[2] \in {"", o.ns}
<1>1. l'.clustered = Opt.clustered /\ Range(Opt.namespaces) \subseteq Range(l'.namespaces)
  BY DEF ScopeInv, OptionsOK, Working
<1>2. Wanted("ocp", o.res, o, Opt)
  BY DEF Wanted, OcpDue
<1>3. InScope(o) \/ o.ns \in Range(l'.namespaces)
  BY OwedFacts DEF Promised
<1> DEFINE ns == o.ns
           opt == l'
<1>4. Reached("ocp", Current, opt, ns)
  <2>1. CASE InScope(o)
    BY <1>1, <2>1, ScopeReached DEF Reached
  <2>2. CASE ns \in Range(opt.namespaces)
    <3>1. ReadsIn(Current, opt, ns)
      BY <2>2 DEF ReadsIn
    <3> HIDE DEF ns, opt
    <3> QED BY <3>1, GetsReach
  <2> QED BY <1>3, <2>1, <2>2
<1>5. PICK read \in Range(Gets("ocp", Current, l')) : read[1] = "ocp" /\ read[2] \in {"", o.ns}
  BY <1>4 DEF Reached
<1>6. Wanted(read[1], o.res, o, Opt)
  BY <1>2, <1>5
<1> QED BY <1>5, <1>6

LEMMA CoverOpenshift ==
  ASSUME Smooth, TypeInv', NEW o \in Owed, CheckIsOpenshift
  PROVE  CoverOK(o)'
<1>0. ~Fault /\ TypeInv /\ ScopeInv /\ CoverOK(o) /\ result = "none" /\ ScopeInv'
  BY SmoothFacts DEF CheckIsOpenshift, Collecting, TypeInv
<1>1. /\ pc = "read" /\ pc' \in {"ocpRead", "write"} /\ reads = <<>> /\ result' = "none" /\ ~IsTvk(Current)
      /\ UNCHANGED <<groups, queue, kept, files, asked, served, found>>
  BY <1>0 DEF CheckIsOpenshift, ToWriting, diskVars, Goto, clusterVars
<1>2. o.res.group \in groups' \/ o.res \in Range(queue') \/ Passed(o)'
  BY <1>0, <1>1, PassedStays DEF CoverOK, Gathering, Holding
<1>3. Current' = Current /\ Opt' = Opt
  BY <1>1 DEF Current, Opt
<1>4. Current' = o.res => MeetsOK(o)'
  <2> SUFFICES ASSUME Current = o.res PROVE MeetsOK(o)'
    BY <1>3
  <2>1. o \in found \/ OcpDue(o)
    BY <1>0, <1>1, RangeOfEmpty DEF CoverOK, Holding, MeetsOK, ToCome
  <2>2. CASE pc' = "ocpRead"
    <3>1. OcpDue(o) => ToCome(o)'
      <4> SUFFICES ASSUME OcpDue(o) PROVE ToCome(o)'
        OBVIOUS
      <4>1. /\ reads' = Gets("ocp", Current, l')
            /\ l' = IF Current.kind = "IngressController" /\ Current.group = OcpOperatorGroup
                    THEN [l EXCEPT !.namespaces = Append(@, OcpNs)] ELSE l
        BY <2>2 DEF CheckIsOpenshift, ToWriting, Goto
      <4>2. l.namespaces \in Seq(NsName) /\ OptionNames \subseteq DOMAIN l
        BY <1>0, <1>1 DEF ScopeInv, OptionsOK, Working
      <4>3. OcpNs \in Range(Append(l.namespaces, OcpNs))
        <5>1. OcpNs \in NsName
          BY DEF NsName
        <5> DEFINE s == Append(l.namespaces, OcpNs)
        <5>2. Len(s) \in DOMAIN s /\ s[Len(s)] = OcpNs
          BY <4>2, <5>1
        <5> HIDE DEF s
        <5>3. OcpNs \in Range(s)
          BY <5>2 DEF Range
        <5> QED BY <5>3 DEF s
      <4>4. Current.kind = "IngressController" /\ Current.group = OcpOperatorGroup
              => OcpNs \in Range(l'.namespaces)
        <5> SUFFICES ASSUME l' = [l EXCEPT !.namespaces = Append(@, OcpNs)]
                     PROVE  OcpNs \in Range(l'.namespaces)
          BY <4>1
        <5>1. l'.namespaces = Append(l.namespaces, OcpNs)
          BY <4>2 DEF OptionNames
        <5> QED BY <4>3, <5>1
      <4>5. PICK read \in Range(Gets("ocp", Current, l')) :
              Wanted(read[1], o.res, o, Opt) /\ read[2] \in {"", o.ns}
        BY <1>0, <1>3, <2>2, <4>4, OcpReaches
      <4> QED BY <1>3, <4>1, <4>5 DEF ToCome
    <3> QED BY <1>1, <2>1, <2>2, <3>1 DEF MeetsOK
  <2>3. CASE pc' = "write"
    <3>1. OcpGroup \notin served /\ toWrite' = found
      BY <1>0, <2>3 DEF CheckIsOpenshift, ToWriting, Goto
    <3> QED BY <1>1, <2>1, <2>3, <3>1 DEF MeetsOK, OcpDue
  <2> QED BY <1>1, <2>2, <2>3
<1> QED BY <1>1, <1>2, <1>4 DEF CoverOK, Ending

LEMMA CoverEndReads ==
  ASSUME Smooth, NEW o \in Owed, EndReads
  PROVE  CoverOK(o)'
<1>0. CoverOK(o) /\ result = "none"
  BY SmoothFacts DEF EndReads, Collecting
<1>1. /\ pc = "ocpRead" \/ (pc = "read" /\ IsTvk(Current))
      /\ pc' = "write" /\ reads = <<>> /\ result' = "none" /\ toWrite' = found
      /\ UNCHANGED <<groups, queue, kept, files, found>>
  BY <1>0 DEF EndReads, ToWriting, diskVars, Goto
<1>2. o.res.group \in groups' \/ o.res \in Range(queue') \/ Passed(o)'
  BY <1>0, <1>1, PassedStays DEF CoverOK, Gathering, Holding
<1>3. Current' = o.res => MeetsOK(o)'
  <2> SUFFICES ASSUME Current = o.res PROVE MeetsOK(o)'
    BY <1>1 DEF Current
  <2>1. o \in found
    BY <1>0, <1>1, RangeOfEmpty DEF CoverOK, Holding, MeetsOK, ToCome, OcpDue
  <2> QED BY <1>1, <2>1 DEF MeetsOK
<1> QED BY <1>1, <1>2, <1>3 DEF CoverOK, Ending
-----------------------------------------------------------------------------
(* What is written of one object takes nothing of another one away.         *)
LEMMA WritingKeeps ==
  ASSUME TypeInv, LogsOK, NEW o \in Owed, Written(o), StartPod \/ WriteLog \/ WriteYaml
  PROVE  Written(o)'
<1>1. NextObject \in Object /\ o \in Object /\ SoleKind(o)
  BY OwedFacts, WritingFacts DEF TypeInv, StockOK
<1>2. CASE files' = files
  BY <1>2 DEF Written, LogsOf
<1>3. CASE \E lg \in logs : pc = "logs" /\ Write(Path(NextObject, lg), NextObject)
  <2>1. PICK lg \in logs : pc = "logs" /\ Write(Path(NextObject, lg), NextObject)
    BY <1>3
  <2>2. Path(NextObject, lg) # YamlPath(o)
    BY <2>1, OtherPaths DEF LogsOK
  <2> QED BY <2>1, <2>2, WrittenStays
<1>4. CASE Write(YamlPath(NextObject), NextObject)
  BY <1>1, <1>4, OwnPath, WrittenStays
<1> QED BY <1>2, <1>3, <1>4 DEF StartPod, WriteLog, WriteYaml, diskVars

LEMMA CoverStartPod ==
  ASSUME Smooth, NEW o \in Owed, StartPod
  PROVE  CoverOK(o)'
<1>0. ~Fault /\ TypeInv /\ LogsOK /\ ScopeInv /\ CoverOK(o) /\ result = "none"
  BY SmoothFacts DEF StartPod, Collecting
<1>1. /\ pc = "write" /\ pc' = "logs" /\ result' = "none"
      /\ logs' = IF NextObject \in live THEN LogsOf(NextObject) ELSE {}
      /\ UNCHANGED <<groups, queue, kept, files, found, toWrite>>
  BY <1>0 DEF StartPod, Goto, readVars
<1>2. o.res.group \in groups' \/ o.res \in Range(queue') \/ Passed(o)'
  BY <1>0, <1>1, PassedStays DEF CoverOK, Gathering, Holding
<1>3. Current' = Current /\ NextObject' = NextObject
  BY <1>1 DEF Current, NextObject
<1>4. Current' = o.res => MeetsOK(o)'
  <2> SUFFICES ASSUME Current = o.res PROVE MeetsOK(o)'
    BY <1>3
  <2>1. o \in found /\ (o \in toWrite \/ Written(o))
    BY <1>0, <1>1 DEF CoverOK, Holding, MeetsOK
  <2>2. Written(o) => Written(o)'
    BY <1>0, WritingKeeps
  <2>3. NextObject = o => \A lg \in LogsOf(o) : lg \in logs'
    BY <1>0, <1>1, OwedFacts
  <2>4. LogsOf(o)' = LogsOf(o)
    BY DEF LogsOf
  <2> QED BY <1>1, <1>3, <2>1, <2>2, <2>3, <2>4 DEF MeetsOK
<1> QED BY <1>1, <1>2, <1>4 DEF CoverOK, Ending

LEMMA CoverWriteLog ==
  ASSUME Smooth, NEW o \in Owed, WriteLog
  PROVE  CoverOK(o)'
<1>0. ~Fault /\ TypeInv /\ LogsOK /\ ScopeInv /\ CoverOK(o) /\ result = "none"
  BY SmoothFacts DEF WriteLog, Collecting
<1>1. /\ pc = "logs" /\ pc' = "logs" /\ result' = "none"
      /\ UNCHANGED <<groups, queue, kept, found, toWrite>>
  BY <1>0 DEF WriteLog, Goto, readVars
<1>2. PICK lg \in logs :
        /\ logs' = logs \ {lg}
        /\ \/ Write(Path(NextObject, lg), NextObject)
           \/ NextObject \notin live /\ files' = files
  BY <1>0 DEF WriteLog, diskVars
<1>3. Written(o) => Written(o)'
  BY <1>0, WritingKeeps
<1>4. Current' = Current /\ NextObject' = NextObject
  BY <1>1 DEF Current, NextObject
<1>5. o.res.group \in groups' \/ o.res \in Range(queue') \/ Passed(o)'
  BY <1>0, <1>1, <1>3 DEF CoverOK, Gathering, Holding, Passed
<1>6. Current' = o.res => MeetsOK(o)'
  <2> SUFFICES ASSUME Current = o.res PROVE MeetsOK(o)'
    BY <1>4
  <2>1. MeetsOK(o)
    BY <1>0, <1>1 DEF CoverOK, Holding
  <2>2. ASSUME NextObject = o, NEW g \in LogsOf(o)
        PROVE  g \in logs' \/ Path(o, g) \in DOMAIN files'
    <3>1. g \in logs \/ Path(o, g) \in DOMAIN files
      BY <1>1, <2>1, <2>2 DEF MeetsOK
    <3>2. Write(Path(o, lg), o)
      BY <1>0, <1>2, <2>2, OwedFacts
    <3>3. DOMAIN files' = DOMAIN files \cup {Path(o, lg)}
      BY <3>2 DEF Write
    <3> QED BY <1>2, <3>1, <3>3
  <2>3. LogsOf(o)' = LogsOf(o) /\ \A g : Path(o, g)' = Path(o, g)
    BY DEF LogsOf, Path
  <2> QED BY <1>1, <1>3, <1>4, <2>1, <2>2, <2>3 DEF MeetsOK
<1> QED BY <1>1, <1>5, <1>6 DEF CoverOK, Ending

LEMMA CoverWriteYaml ==
  ASSUME Smooth, NEW o \in Owed, WriteYaml
  PROVE  CoverOK(o)'
<1>0. ~Fault /\ TypeInv /\ LogsOK /\ ScopeInv /\ CoverOK(o) /\ result = "none"
  BY SmoothFacts DEF WriteYaml, Collecting
<1>1. /\ pc \in {"write", "logs"} /\ pc' = "write" /\ result' = "none"
      /\ toWrite' = toWrite \ {NextObject}
      /\ Write(YamlPath(NextObject), NextObject)
      /\ UNCHANGED <<groups, queue, kept, found>>
  BY <1>0 DEF WriteYaml, Goto
<1>2. Written(o) => Written(o)'
  BY <1>0, WritingKeeps
<1>3. Current' = Current
  BY <1>1 DEF Current
<1>4. o.res.group \in groups' \/ o.res \in Range(queue') \/ Passed(o)'
  BY <1>0, <1>1, <1>2 DEF CoverOK, Gathering, Holding, Passed
<1>5. Current' = o.res => MeetsOK(o)'
  <2> SUFFICES ASSUME Current = o.res PROVE MeetsOK(o)'
    BY <1>3
  <2>1. MeetsOK(o)
    BY <1>0, <1>1 DEF CoverOK, Holding
  <2>2. NextObject = o => Written(o)'
    <3> SUFFICES ASSUME NextObject = o PROVE Written(o)'
      OBVIOUS
    <3>1. /\ DOMAIN files' = DOMAIN files \cup {YamlPath(o)}
          /\ files'[YamlPath(o)] = o
      BY <1>1 DEF Write
    <3>2. o.res.kind = "Pod" => \A lg \in LogsOf(o) : Path(o, lg) \in DOMAIN files
      <4> SUFFICES ASSUME o.res.kind = "Pod" PROVE \A lg \in LogsOf(o) : Path(o, lg) \in DOMAIN files
        OBVIOUS
      <4>1. ~IsTvk(Current)
        BY <1>0, OwedFacts, KindAssumption DEF IsTvk
      <4>2. pc = "logs" /\ logs = {}
        BY <4>1 DEF WriteYaml
      <4> QED BY <2>1, <4>2 DEF MeetsOK
    <3>3. LogsOf(o)' = LogsOf(o) /\ YamlPath(o)' = YamlPath(o) /\ \A lg : Path(o, lg)' = Path(o, lg)
      BY DEF LogsOf, YamlPath, Path
    <3> QED BY <3>1, <3>2, <3>3 DEF Written
  <2> QED BY <1>1, <1>2, <2>1, <2>2 DEF MeetsOK
<1> QED BY <1>1, <1>4, <1>5 DEF CoverOK, Ending

LEMMA CoverFinish ==
  ASSUME Smooth, NEW o \in Owed, FinishResource
  PROVE  CoverOK(o)'
<1>0. TypeInv /\ KeptOK /\ ScopeInv /\ CoverOK(o) /\ result = "none"
  BY SmoothFacts DEF FinishResource, Collecting
<1>1. /\ pc = "write" /\ pc' = "resource" /\ result' = "none" /\ toWrite = {}
      /\ queue # <<>> /\ queue' = Tail(queue)
      /\ kept' = IF IsTvk(Current) \/ found = {} THEN kept
                 ELSE [kept EXCEPT ![Current.kind] = {<<p.ns, p.name>> : p \in found}]
      /\ UNCHANGED <<groups, files>>
  BY <1>0 DEF FinishResource, Goto, diskVars, ScopeInv, ReadsOK
<1>2. Range(queue) = {Current} \cup Range(Tail(queue))
  BY <1>0, <1>1, RangeOfTail DEF ScopeInv, QueueOK, Current
<1>3. Written(o) => Written(o)'
  BY <1>1 DEF Written, LogsOf
<1>4. CASE Current = o.res
  <2>1. o \in found /\ Written(o)
    BY <1>0, <1>1, <1>4 DEF CoverOK, MeetsOK, Holding
  <2>2. ~IsTvk(o.res) => <<o.ns, o.name>> \in kept'[o.res.kind]
    <3> SUFFICES ASSUME ~IsTvk(o.res) PROVE <<o.ns, o.name>> \in kept'[o.res.kind]
      OBVIOUS
    <3>1. Current.kind \in DOMAIN kept
      BY <1>0, <1>1, CurrentListed DEF KeptOK
    <3>2. kept'[Current.kind] = {<<p.ns, p.name>> : p \in found}
      BY <1>1, <1>4, <2>1, <3>1
    <3> QED BY <1>4, <2>1, <3>2
  <2>3. Passed(o)'
    BY <1>3, <2>1, <2>2 DEF Passed
  <2> QED BY <1>1, <2>3 DEF CoverOK, Holding, Ending
<1>5. CASE Current # o.res
  <2>1. o.res.group \in groups \/ o.res \in Range(Tail(queue)) \/ Passed(o)
    BY <1>0, <1>1, <1>2, <1>5 DEF CoverOK, Gathering, Holding
  <2>2. Current.kind # o.res.kind
    BY <1>0, <1>1, <1>5, OwedFacts, SoleCurrent
  <2>3. kept'[o.res.kind] = kept[o.res.kind]
    <3>1. CASE kept' = kept
      BY <3>1
    <3>2. CASE kept' = [kept EXCEPT ![Current.kind] = {<<p.ns, p.name>> : p \in found}]
      <4>1. o.res.kind \in DOMAIN kept
        <5>1. PICK g \in DOMAIN Api : o.res \in Range(Api[g])
          BY <1>0, OwedFacts
        <5>2. o.res.kind \in Kinds
          BY <5>1 DEF Kinds, Range
        <5> QED BY <1>0, <5>2 DEF KeptOK
      <4> QED BY <2>2, <3>2, <4>1
    <3> QED BY <1>1, <3>1, <3>2
  <2>4. Passed(o) => Passed(o)'
    BY <1>3, <2>3 DEF Passed
  <2> QED BY <1>1, <2>1, <2>4 DEF CoverOK, Holding, Ending
<1> QED BY <1>4, <1>5
-----------------------------------------------------------------------------
(* From the last group on, what is owed has passed.                         *)
LEMMA CoverStartEvents ==
  ASSUME Smooth, NEW o \in Owed, StartEvents
  PROVE  CoverOK(o)'
<1>0. CoverOK(o) /\ result = "none"
  BY SmoothFacts DEF StartEvents, Collecting
<1>1. /\ pc = "resource" /\ pc' = "events" /\ groups = {} /\ queue = <<>> /\ result' = "none"
      /\ UNCHANGED <<kept, files>>
  BY <1>0 DEF StartEvents, Goto, diskVars
<1>2. Passed(o)
  BY <1>0, <1>1, RangeOfEmpty DEF CoverOK, Gathering
<1>3. Passed(o)'
  BY <1>1, <1>2, PassedStays
<1> QED BY <1>1, <1>3 DEF CoverOK, Gathering, Holding

LEMMA CoverWriteEvent ==
  ASSUME Smooth, NEW o \in Owed, WriteEvent
  PROVE  CoverOK(o)'
<1>0. ~Fault /\ TypeInv /\ CoverOK(o)
  BY SmoothFacts
<1>1. /\ pc = "events" /\ pc' = "events" /\ kept' = kept
      /\ Write(EventPath(NextEvent), NextEvent)
  BY <1>0 DEF WriteEvent, Goto
<1>2. Passed(o)
  BY <1>0, <1>1 DEF CoverOK, Ending
<1>3. EventPath(NextEvent) # YamlPath(o)
  BY <1>0, OtherPaths, OwedFacts
<1>4. Written(o)'
  BY <1>1, <1>2, <1>3, WrittenStays DEF Passed
<1> QED BY <1>1, <1>2, <1>4 DEF CoverOK, Gathering, Holding, Passed

LEMMA CoverEnding ==
  ASSUME Smooth, NEW o \in Owed, GetEvents \/ CreateZip \/ AddEntry \/ RemoveFolder \/ CloseZip
  PROVE  CoverOK(o)'
<1>0. CoverOK(o)
  BY SmoothFacts
<1>1. pc \in Ending /\ pc' \notin Gathering /\ UNCHANGED <<kept, files>>
  BY DEF GetEvents, CreateZip, AddEntry, RemoveFolder, CloseZip, Goto, Fail, Ending, Gathering, Holding,
         diskVars
<1>2. Passed(o)'
  BY <1>0, <1>1, PassedStays DEF CoverOK
<1> QED BY <1>1, <1>2 DEF CoverOK, Gathering

LEMMA CoverChange ==
  ASSUME Smooth, NEW o \in Owed, Change \/ UNCHANGED vars
  PROVE  CoverOK(o)'
<1>0. CoverOK(o)
  BY SmoothFacts
<1>1. UNCHANGED <<served, asked, pc, groups, queue, reads, found, toWrite, logs, kept, files, result>>
  BY DEF Change, vars, clusterVars, readVars, diskVars
<1>2. Passed(o) => Passed(o)'
  BY <1>1, PassedStays
<1>3. MeetsOK(o) => MeetsOK(o)'
  <2>1. (ToCome(o)' <=> ToCome(o)) /\ (OcpDue(o)' <=> OcpDue(o)) /\ NextObject' = NextObject
    BY <1>1 DEF ToCome, OcpDue, Opt, NextObject
  <2>2. Written(o)' <=> Written(o)
    BY <1>1 DEF Written, LogsOf
  <2> QED BY <1>1, <2>1, <2>2 DEF MeetsOK, LogsOf
<1>4. Current' = Current
  BY <1>1 DEF Current
<1> QED BY <1>0, <1>1, <1>2, <1>3, <1>4 DEF CoverOK

(* Every step covers what is owed.                                          *)
LEMMA StepCovers ==
  ASSUME Smooth, TypeInv', [Next]_vars, NEW o \in Owed
  PROVE  CoverOK(o)'
<1>1. ~Kill
  BY SmoothFacts DEF Kill
<1> QED BY <1>1, CoverBegins, CoverNextGroup, CoverSkipEvents, CoverStartResource, CoverRead,
           CoverOpenshift, CoverEndReads, CoverStartPod, CoverWriteLog, CoverWriteYaml, CoverFinish,
           CoverStartEvents, CoverWriteEvent, CoverEnding, CoverChange DEF Next, CollectorNext
-----------------------------------------------------------------------------
(* Without a fault, discovery has answered with every group.                *)
LEMMA StepKnowsAll ==
  ASSUME Smooth, [Next]_vars
  PROVE  pc' \in Gathering \cup Ending => known' = served'
<1>0. ~Fault /\ (pc \in Gathering \cup Ending => known = served)
  BY SmoothFacts
<1>1. CASE GetAPIResourceList
  BY <1>0, <1>1 DEF GetAPIResourceList, Goto, Fail, Gathering, Holding, Ending, clusterVars
<1>2. CASE PreRun \/ CheckIfNamespacesExist
  BY <1>0, <1>2 DEF PreRun, CheckIfNamespacesExist, Goto, Fail, Gathering, Holding, Ending
<1>3. CASE ~(GetAPIResourceList \/ PreRun \/ CheckIfNamespacesExist)
  <2>1. UNCHANGED <<known, served>>
    BY <1>3 DEF Next, CollectorNext, Kill, Change, vars, clusterVars, readVars, NextGroup, SkipEvents,
                StartResource, GetResourceObjects, CheckIsOpenshift, EndReads, StartPod, WriteLog,
                WriteYaml, FinishResource, StartEvents, GetEvents, WriteEvent, CreateZip, AddEntry,
                RemoveFolder, CloseZip
  <2>2. pc' \in Gathering \cup Ending => pc \in Gathering \cup Ending
    BY <1>3 DEF Next, CollectorNext, Kill, Change, vars, NextGroup, SkipEvents,
                StartResource, GetResourceObjects, CheckIsOpenshift, EndReads, StartPod, WriteLog,
                WriteYaml, FinishResource, StartEvents, GetEvents, WriteEvent, CreateZip, AddEntry,
                RemoveFolder, CloseZip, Gathering, Holding, Ending
  <2> QED BY <1>0, <2>1, <2>2
<1> QED BY <1>1, <1>2, <1>3

LEMMA StepKeepsLogs == LogsOK /\ [Next]_vars => LogsOK'
<1> SUFFICES ASSUME LogsOK, [Next]_vars PROVE LogsOK'
  OBVIOUS
<1>1. CASE StartPod
  BY <1>1, LogsAreNoYaml DEF StartPod, LogsOK, Goto, Fail
<1>2. CASE WriteLog
  BY <1>2 DEF WriteLog, LogsOK, Goto, Fail
<1>3. CASE ~(StartPod \/ WriteLog)
  <2>1. logs' = logs
    BY <1>3 DEF Next, CollectorNext, Kill, Change, vars, PreRun, CheckIfNamespacesExist,
                GetAPIResourceList, NextGroup, SkipEvents, StartResource, GetResourceObjects,
                CheckIsOpenshift, EndReads, WriteYaml, FinishResource, StartEvents, GetEvents, WriteEvent,
                CreateZip, AddEntry, RemoveFolder, CloseZip
  <2>2. pc' = "logs" => pc = "logs"
    BY <1>3 DEF Next, CollectorNext, Kill, Change, vars, PreRun, CheckIfNamespacesExist,
                GetAPIResourceList, NextGroup, SkipEvents, StartResource, GetResourceObjects,
                CheckIsOpenshift, EndReads, ToWriting, WriteYaml, FinishResource, StartEvents, GetEvents,
                WriteEvent, CreateZip, AddEntry, RemoveFolder, CloseZip, Goto, Fail
  <2> QED BY <2>1, <2>2 DEF LogsOK
<1> QED BY <1>1, <1>2, <1>3
-----------------------------------------------------------------------------
(* The events of what is owed.                                              *)
LEMMA OwedEventFacts ==
  ASSUME TypeInv, NEW e \in OwedEvents
  PROVE  e \in Event /\ e.o \in Owed /\ InvolvedNs(e) = e.o.ns /\ (Passed(e.o) => Noted(e))
<1>1. e \in Event /\ e.o \in Owed /\ InvolvedNs(e) = e.o.ns
  BY DEF OwedEvents, InvolvedNs
<1>2. Passed(e.o) => Noted(e)
  BY <1>1 DEF Passed, Noted
<1> QED BY <1>1, <1>2

(* The events of one path are of one object, if no other resource has its   *)
(* kind and it has a namespace.                                             *)
LEMMA SameEventPath ==
  ASSUME NEW d \in Event, NEW e \in Event, SoleKind(e.o), e.o.ns # "", EventPath(d) = EventPath(e)
  PROVE  d.o = e.o
<1>1. d.o \in Object /\ e.o \in Object
  BY ObjectAssumption
<1>2. /\ d.o.res.kind = e.o.res.kind /\ d.o.name = e.o.name /\ InvolvedNs(d) = InvolvedNs(e)
  BY DEF EventPath
<1>3. d.o.res = e.o.res
  BY <1>1, <1>2, SoleFacts, ObjectAssumption
<1>4. d.o.ns = e.o.ns
  BY <1>1, <1>2, <1>3, ObjectAssumption DEF InvolvedNs
<1> QED BY <1>1, <1>2, <1>3, <1>4, ObjectAssumption

(* No events are listed, nor is there an archive yet.                       *)
LEMMA EventsAhead ==
  ASSUME NEW e, pc' \notin Ending, result' # "nil"
  PROVE  EventOK(e)'
BY DEF EventOK, Ending

LEMMA EventsStart ==
  ASSUME Smooth, "" \in served, NEW e \in OwedEvents, StartEvents
  PROVE  EventOK(e)'
<1>0. TypeInv /\ ScopeInv /\ result = "none" /\ known = served
  BY SmoothFacts DEF StartEvents, Collecting, Gathering
<1>1. /\ pc = "resource" /\ pc' = "events" /\ result' = "none"
      /\ reads' = Gets("event", EventResource, l)
  BY <1>0 DEF StartEvents, Goto
<1>2. l.clustered = Opt.clustered /\ Range(Opt.namespaces) \subseteq Range(l.namespaces)
  BY <1>0, <1>1 DEF ScopeInv, OptionsOK, Working
<1> DEFINE r   == EventResource
           ns  == e.o.ns
           opt == l
<1>3. ReadsIn(r, opt, ns)
  BY <1>2 DEF OwedEvents, InScope, ReadsIn
<1> HIDE DEF r, ns, opt
<1>4. Reached("event", r, opt, ns)
  BY <1>3, GetsReach
<1>5. PICK read \in Range(reads') : read[2] \in {"", ns}
  BY <1>1, <1>4 DEF r, opt, Reached
<1> QED BY <1>1, <1>5 DEF EventOK, ns

LEMMA EventsRead ==
  ASSUME Smooth, "" \in served, NEW e \in OwedEvents, GetEvents
  PROVE  EventOK(e)'
<1>0. ~Fault /\ TypeInv /\ ScopeInv /\ EventOK(e) /\ e.o \in Owed /\ CoverOK(e.o) /\ result = "none"
  BY SmoothFacts, OwedEventFacts DEF GetEvents, Collecting
<1>1. /\ pc = "events" /\ pc' = "events" /\ reads # <<>> /\ reads' = Tail(reads) /\ result' = "none"
      /\ events' = events \cup {f \in Event : Head(reads)[2] \in {"", InvolvedNs(f)} /\ Noted(f)}
      /\ files' = files
  BY <1>0 DEF GetEvents, Goto, diskVars
<1>2. e \in Event /\ Noted(e) /\ InvolvedNs(e) = e.o.ns
  BY <1>0, <1>1, OwedEventFacts DEF CoverOK, Ending
<1>3. Range(reads) = {Head(reads)} \cup Range(Tail(reads))
  BY <1>0, <1>1, RangeOfTail DEF ScopeInv, ReadsOK
<1>4. EventThere(e) => EventThere(e)'
  BY <1>1 DEF EventThere, EventPath, InvolvedNs
<1>5. \/ \E read \in Range(reads') : read[2] \in {"", e.o.ns}
      \/ e \in events' \/ EventThere(e)'
  <2>1. CASE e \in events \/ EventThere(e)
    BY <1>1, <1>4, <2>1
  <2>2. CASE \E read \in Range(reads) : read[2] \in {"", e.o.ns}
    BY <1>1, <1>2, <1>3, <2>2
  <2> QED BY <1>0, <1>1, <2>1, <2>2 DEF EventOK
<1> QED BY <1>1, <1>5 DEF EventOK

LEMMA EventsWrite ==
  ASSUME Smooth, "" \in served, NEW e \in OwedEvents, WriteEvent
  PROVE  EventOK(e)'
<1>0. ~Fault /\ EventOK(e) /\ result = "none" /\ TypeInv
  BY SmoothFacts DEF WriteEvent, Collecting
<1>1. /\ pc = "events" /\ pc' = "events" /\ result' = "none" /\ reads' = reads
      /\ events' = events \ {NextEvent}
      /\ Write(EventPath(NextEvent), NextEvent)
  BY <1>0 DEF WriteEvent, Goto, readVars
<1>2. /\ DOMAIN files' = DOMAIN files \cup {EventPath(NextEvent)}
      /\ \A p \in DOMAIN files' :
           files'[p] = IF p = EventPath(NextEvent) THEN NextEvent ELSE files[p]
  BY <1>1 DEF Write
<1>3. NextEvent \in Event /\ e \in Event /\ SoleKind(e.o) /\ e.o.ns # ""
  <2>1. NextEvent \in events
    BY NextFacts DEF WriteEvent
  <2> QED BY <1>0, <2>1 DEF TypeInv, StockOK, OwedEvents, Owed
<1>4. EventPath(e)' = EventPath(e)
  BY DEF EventPath, InvolvedNs
<1>5. CASE EventPath(NextEvent) = EventPath(e)
  <2>1. NextEvent.o = e.o
    BY <1>3, <1>5, SameEventPath
  <2>2. EventThere(e)'
    BY <1>2, <1>3, <1>4, <1>5, <2>1 DEF EventThere, SoleEvent
  <2> QED BY <1>1, <2>2 DEF EventOK
<1>6. CASE EventPath(NextEvent) # EventPath(e)
  <2>1. EventThere(e) => EventThere(e)'
    BY <1>2, <1>4, <1>6 DEF EventThere
  <2>2. e \in events => e \in events'
    BY <1>1, <1>6
  <2> QED BY <1>0, <1>1, <2>1, <2>2 DEF EventOK
<1> QED BY <1>5, <1>6

LEMMA EventsZip ==
  ASSUME Smooth, "" \in served, NEW e \in OwedEvents,
         CreateZip \/ AddEntry \/ RemoveFolder \/ CloseZip \/ Change \/ UNCHANGED vars
  PROVE  EventOK(e)'
<1>0. ~Fault /\ TypeInv /\ EventOK(e)
  BY SmoothFacts
<1>1. EventThere(e) => EventThere(e)'
  <2>1. files' = files
    BY DEF CreateZip, AddEntry, RemoveFolder, CloseZip, Change, vars, diskVars
  <2> QED BY <2>1 DEF EventThere, EventPath, InvolvedNs
<1>2. CASE CreateZip
  <2>1. EventThere(e)
    BY <1>0, <1>2, RangeOfEmpty DEF CreateZip, EventOK
  <2>2. pc' # "events"
    BY <1>2 DEF CreateZip, Goto, Fail
  <2> QED BY <1>1, <2>1, <2>2 DEF EventOK
<1>3. CASE AddEntry \/ RemoveFolder \/ CloseZip
  <2>1. pc \in {"add", "close"} /\ pc' # "events"
    BY <1>3 DEF AddEntry, RemoveFolder, CloseZip, Goto
  <2> QED BY <1>0, <1>1, <2>1 DEF EventOK
<1>4. CASE Change \/ UNCHANGED vars
  <2>1. UNCHANGED <<pc, reads, events, result>>
    BY <1>4 DEF Change, vars, readVars
  <2> QED BY <1>0, <1>1, <2>1 DEF EventOK
<1> QED BY <1>2, <1>3, <1>4

LEMMA StepCoversEvents ==
  ASSUME Smooth, "" \in served, [Next]_vars, NEW e \in OwedEvents
  PROVE  EventOK(e)'
<1>1. ~Kill /\ ~Fault
  BY SmoothFacts DEF Kill
<1>2. CASE \/ PreRun \/ CheckIfNamespacesExist \/ GetAPIResourceList \/ NextGroup \/ SkipEvents
           \/ StartResource \/ GetResourceObjects \/ CheckIsOpenshift \/ EndReads
           \/ StartPod \/ WriteLog \/ WriteYaml \/ FinishResource
  <2>1. pc \in Collecting
    BY <1>2 DEF PreRun, CheckIfNamespacesExist, GetAPIResourceList, NextGroup, SkipEvents, StartResource,
                GetResourceObjects, CheckIsOpenshift, EndReads, StartPod, WriteLog, WriteYaml,
                FinishResource, Collecting
  <2>2. result = "none"
    BY <2>1, SmoothFacts
  <2>3. /\ result' \in {result, "error"}
        /\ pc' \in {"check", "discover", "resource", "read", "ocpRead", "write", "logs", "done"}
    BY <1>2 DEF PreRun, CheckIfNamespacesExist, GetAPIResourceList, NextGroup, SkipEvents, StartResource,
                GetResourceObjects, CheckIsOpenshift, EndReads, ToWriting, StartPod, WriteLog, WriteYaml,
                FinishResource, Goto, Fail
  <2> QED BY <2>2, <2>3, EventsAhead DEF Ending
<1> QED BY <1>1, <1>2, EventsStart, EventsRead, EventsWrite, EventsZip DEF Next, CollectorNext
-----------------------------------------------------------------------------
LEMMA InitCover == Init => CoverInv
<1> SUFFICES ASSUME Init PROVE CoverInv
  OBVIOUS
<1>1. pc = "preRun" /\ result = "none"
  BY DEF Init
<1>2. LogsOK /\ (pc \notin Gathering \cup Ending)
  BY <1>1 DEF LogsOK, Gathering, Holding, Ending
<1>3. (\A o \in Owed : CoverOK(o)) /\ \A e \in OwedEvents : EventOK(e)
  BY <1>1, <1>2 DEF CoverOK, EventOK, Gathering
<1> QED BY <1>2, <1>3, InitContent DEF CoverInv

LEMMA StepKeepsCover == CoverInv /\ [Next]_vars => CoverInv'
<1> SUFFICES ASSUME CoverInv, [Next]_vars PROVE CoverInv'
  OBVIOUS
<1>1. ContentInv' /\ LogsOK' /\ TypeInv'
  BY StepKeepsContent, StepKeepsLogs DEF CoverInv, ContentInv
<1>2. ASSUME faults' = 0
      PROVE  /\ pc' \in Gathering \cup Ending => known' = served'
             /\ \A o \in Owed' : CoverOK(o)'
             /\ "" \in served' => \A e \in OwedEvents' : EventOK(e)'
  <2>1. faults = 0
    <3>1. TallyOK
      BY DEF CoverInv, ContentInv, TypeInv
    <3>2. faults' = faults \/ faults' = faults + 1
      BY DEF Next, CollectorNext, Kill, Change, vars, NoFault, Fault, PreRun, CheckIfNamespacesExist,
             GetAPIResourceList, NextGroup, SkipEvents, StartResource, GetResourceObjects,
             CheckIsOpenshift, EndReads, StartPod, WriteLog, WriteYaml, FinishResource, StartEvents,
             GetEvents, WriteEvent, CreateZip, AddEntry, RemoveFolder, CloseZip
    <3> QED BY <1>2, <3>1, <3>2 DEF TallyOK
  <2>2. Smooth
    BY <1>2, <2>1 DEF Smooth
  <2>3. Owed' \subseteq Owed /\ OwedEvents' \subseteq OwedEvents
    BY OwedShrinks
  <2>4. served' = served
    BY DEF Next, CollectorNext, Kill, Change, vars, clusterVars, PreRun, CheckIfNamespacesExist,
           GetAPIResourceList, NextGroup, SkipEvents, StartResource, GetResourceObjects,
           CheckIsOpenshift, EndReads, StartPod, WriteLog, WriteYaml, FinishResource, StartEvents,
           GetEvents, WriteEvent, CreateZip, AddEntry, RemoveFolder, CloseZip
  <2>5. \A o \in Owed : CoverOK(o)'
    BY <1>1, <2>2, StepCovers
  <2>6. "" \in served => \A e \in OwedEvents : EventOK(e)'
    BY <2>2, StepCoversEvents
  <2>7. pc' \in Gathering \cup Ending => known' = served'
    BY <2>2, StepKnowsAll
  <2> QED BY <2>3, <2>4, <2>5, <2>6, <2>7
<1> QED BY <1>1, <1>2 DEF CoverInv

(* What the options promise and what stays is in the zip file with its      *)
(* logs, if no call has failed, whatever else happens to the cluster and in *)
(* whatever order the groups are visited.                                   *)
THEOREM CollectsWhatStaysHolds == Spec => []CollectsWhatStays
<1>1. CoverInv => CollectsWhatStays
  <2> SUFFICES ASSUME CoverInv, result = "nil", faults = 0,
                      NEW o \in stayed, Promised(o), SoleKind(o)
               PROVE  /\ YamlPath(o) \in zip.entries /\ files[YamlPath(o)] = o
                      /\ o.res.kind = "Pod" => \A lg \in LogsOf(o) : Path(o, lg) \in zip.entries
    BY DEF CollectsWhatStays
  <2>1. zip.entries = DOMAIN files
    BY DEF CoverInv, ContentInv, TypeInv, DiskInv, ZippingOK, Archived
  <2>2. Written(o)
    BY DEF CoverInv, Owed, CoverOK, Passed
  <2> QED BY <2>1, <2>2 DEF Written
<1> QED BY InitCover, StepKeepsCover, <1>1, PTL DEF Spec

(* And of the events of what is collected one is there for each object, the *)
(* event itself if its object has no other, if the object is of a namespace *)
(* the user has named.                                                      *)
THEOREM EventsFollowObjectsHolds == Spec => []EventsFollowObjects
<1>1. CoverInv => EventsFollowObjects
  <2> SUFFICES ASSUME CoverInv, result = "nil", faults = 0, "" \in served, NEW e \in Event,
                      e.o \in stayed, Promised(e.o), SoleKind(e.o), e.o.ns # "", InScope(e.o)
               PROVE  /\ EventPath(e) \in zip.entries
                      /\ files[EventPath(e)] \in {d \in Event : d.o = e.o}
                      /\ SoleEvent(e) => files[EventPath(e)] = e
    BY DEF EventsFollowObjects
  <2>1. zip.entries = DOMAIN files
    BY DEF CoverInv, ContentInv, TypeInv, DiskInv, ZippingOK, Archived
  <2>2. e \in OwedEvents
    BY DEF Owed, OwedEvents
  <2>3. EventOK(e)
    BY <2>2 DEF CoverInv
  <2> QED BY <2>1, <2>3 DEF EventOK, EventThere
<1> QED BY InitCover, StepKeepsCover, <1>1, PTL DEF Spec
=============================================================================
