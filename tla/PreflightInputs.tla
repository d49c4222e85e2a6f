--------------------------- MODULE PreflightInputs ---------------------------
(***************************************************************************)
(* The options of `kubectl tvk-preflight run` and `cleanup`: the sections   *)
(* of the input file, the flags that override them, and what cmd/preflight  *)
(* makes of both.  Flags are a function on the names of the flags that were *)
(* given.  NoNs, NoUid, NoClass, "" and 0 stand for a value that is not      *)
(* there.                                                                   *)
(***************************************************************************)
EXTENDS Integers

CONSTANTS
  DefaultNs,    (* The default value of --namespace.                         *)
  NoNs, NoUid, NoClass,
  DefaultPods   (* The default requests and limits of the pods.              *)

Resource == {"cpu", "memory"}

PodResources == [requests : [Resource -> Nat], limits : [Resource -> Nat]]

FlagOr(flags, name, value) == IF name \in DOMAIN flags THEN flags[name] ELSE value

None == [res \in Resource |-> 0]

(* What an absent file says.                                                *)
EmptyRunSection ==
  [ns |-> NoNs, inCluster |-> FALSE, storageClass |-> "", snapshotClass |-> NoClass, registry |-> "",
   pullSecret |-> "", cleanFail |-> FALSE, requests |-> None, limits |-> None]

EmptyCleanupSection == [ns |-> NoNs, uid |-> NoUid]

(* The namespace of the file, unless there is a flag or the file has none.  *)
NamespaceOf(file, flags) ==
  IF "ns" \in DOMAIN flags \/ file.ns = NoNs THEN FlagOr(flags, "ns", DefaultNs) ELSE file.ns

(* Mutant of InClusterOf: a file that says TRUE wins over the flag.         *)
FileOrFlagInCluster(file, flags) == file.inCluster \/ FlagOr(flags, "inCluster", FALSE)

(* A file that says TRUE is overridden by the flag, given or not: the       *)
(* inCluster that the documentation lists for the file is without effect.   *)
InClusterOf(file, flags) ==
  IF "inCluster" \in DOMAIN flags \/ file.inCluster
  THEN FlagOr(flags, "inCluster", FALSE) ELSE file.inCluster

(* Amounts of the file over the defaults, and of the flags over both; zero  *)
(* does not override.                                                       *)
Amounts(flags, name, file, default) ==
  [res \in Resource |->
     IF FlagOr(flags, name, None)[res] # 0 THEN flags[name][res]
     ELSE IF file[res] # 0 THEN file[res] ELSE default[res]]

(* Mutant of RunOptions: the file's value wins where it has one.            *)
FileFirstRunOptions(file, flags) ==
  [ns |-> NamespaceOf(file, flags), inCluster |-> InClusterOf(file, flags),
   storageClass  |-> FlagOr(flags, "storageClass", file.storageClass),
   snapshotClass |-> FlagOr(flags, "snapshotClass", file.snapshotClass),
   registry      |-> FlagOr(flags, "registry", file.registry),
   pullSecret    |-> FlagOr(flags, "pullSecret", file.pullSecret),
   cleanFail     |-> file.cleanFail \/ FlagOr(flags, "cleanFail", FALSE),
   requests |-> Amounts(flags, "requests", file.requests, DefaultPods.requests),
   limits   |-> Amounts(flags, "limits", file.limits, DefaultPods.limits)]

(* managePreflightInputs: the options of a run.                             *)
RunOptions(file, flags) ==
  [ns |-> NamespaceOf(file, flags), inCluster |-> InClusterOf(file, flags),
   storageClass  |-> FlagOr(flags, "storageClass", file.storageClass),
   snapshotClass |-> FlagOr(flags, "snapshotClass", file.snapshotClass),
   registry      |-> FlagOr(flags, "registry", file.registry),
   pullSecret    |-> FlagOr(flags, "pullSecret", file.pullSecret),
   cleanFail     |-> FlagOr(flags, "cleanFail", file.cleanFail),
   requests |-> Amounts(flags, "requests", file.requests, DefaultPods.requests),
   limits   |-> Amounts(flags, "limits", file.limits, DefaultPods.limits)]

(* validateRunOptions: a run is not started without a storage class, with a *)
(* pull secret for no registry, or with requests above the limits.          *)
RunRefused(opt) ==
  \/ opt.storageClass = ""
  \/ opt.pullSecret # "" /\ opt.registry = ""
  \/ \E res \in Resource : opt.requests[res] > opt.limits[res]

(* Mutant of CleanupOptions: the UID of the file wins.                      *)
FileFirstCleanupOptions(file, flags) ==
  [ns |-> NamespaceOf(file, flags), uid |-> IF file.uid # NoUid THEN file.uid ELSE FlagOr(flags, "uid", NoUid)]

(* manageCleanupInputs: the options of a cleanup.                           *)
CleanupOptions(file, flags) ==
  [ns |-> NamespaceOf(file, flags), uid |-> FlagOr(flags, "uid", file.uid)]

(* validateCleanupFields: a UID has six characters.                         *)
CleanupRefused(opt, valid) == opt.uid # NoUid /\ opt.uid \notin valid
=============================================================================
