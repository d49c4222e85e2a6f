# Formal models of the Triliovault for Kubernetes plugins

TLA+ models of the kubectl plugins in this repository, the TLC configurations that check them,
and TLAPS proofs about them. Three programs live here: `preflight` (Go), which runs checks in a
Kubernetes cluster by creating pods, claims and snapshots in it and then cleans up; `log-collector`
(Go), which reads a cluster and writes a zip file; and `cleanup` (a shell script), which uninstalls
Triliovault. All three work on a cluster that others change too, over calls that may fail.

## 1. Inventory

| Component | Source | State it keeps | Operations | Interacts with |
|---|---|---|---|---|
| Preflight run | `src/tools/preflight/preflight.go` | `preflightStatus`, `storageSnapshotSuccess`, `skipSnapshotClassCheck`, the package variable `storageVolSnapClass`, `o.SnapshotClass`; everything else is in the cluster | `PerformPreflightChecks` and eleven checks | API server, its own pods, preflight cleanup |
| Preflight cleanup | `src/tools/preflight/cleanup.go` | `allSuccess`, the list just read | `CleanupPreflightResources` | API server; called by the command and by a run |
| Preflight helpers | `src/tools/preflight/helper.go` | none but the clients | names, labels and specs, `deleteK8sResource`, `removeFinalizer`, waits, discovery, `execInPod` | API server |
| Pod wait | `src/tools/preflight/wait/pod_wait.go` | number of polls | `WaitOnPod` | API server |
| Remote exec | `src/tools/preflight/exec/exec_to_pod.go`, `execInPod` | a channel and a goroutine for each call | `ExecInContainer` | `execInPod` over the channel, the kubelet over a stream |
| Preflight CLI | `src/cmd/preflight/cmd/*.go` | `cmdOps`, one variable for each flag | merging of defaults, input file and flags; validation; `run`, `cleanup` | run, cleanup |
| Log collector | `src/tools/log-collector/*.go` | options that grow on the way, names noted for each kind, output folder, zip file | namespaces, discovery, filters, writing of objects, logs and events, zip, removal of the folder | API server, file system |
| Log collector CLI | `src/cmd/log-collector/cmd/*.go` | flags, config file | merging, repair of GVKs, validation | log collector |
| TVK cleanup script | `src/tools/cleanup/cleanup.sh` | options, an exit status for each part, the verdict | ordered deletion of Triliovault objects, finalizer patches, uninstallation of charts | `kubectl`, `helm`, the user |
| Client helpers, shell runner | `src/internal/` | none | client construction, small lookups | API server, processes |
| Build and release | `src/Makefile`, `src/hack/`, `src/plugins/` | none | scripts, krew manifests | none of the running programs |

**Where it is hard.** The plugin makes some sixty API calls in a row, each of which may fail, and
the cluster moves between any two of them: controllers add and remove finalizers, pods are stopped
within a grace period, another run or a `preflight cleanup` command creates or deletes objects.
Objects are found again only by their labels, so a lost answer to a create is harmless exactly if
the labels are right. Flags set by early checks decide about later ones and about the verdict.
Only the exec call has a second thread, and its caller may leave it behind. What a killed run
leaves in the cluster is what a later cleanup starts from. The log collector visits API groups in
the random order of a Go map, passes over GETs that fail, and removes what it has written before the
archive of it is closed. The cleanup script looks, deletes, waits five seconds, patches and looks
again, object by object, with controllers at work in between, and takes a call that fails for one
that finds nothing.

**What makes each part correct.**

* *Cleanup*: returning nil means that the work is done, whatever failed and whoever interfered;
  nothing outside the selection is touched; it returns, and what it deleted disappears.
* *Setup* (CRDs and snapshot class): success means that the CRDs are all there and that the chosen
  class exists and fits, a default one before others; a run generates a class only if none of the
  cluster's own fits.
* *Run*: the verdict and the checks left out follow from the outcomes of the checks; snapshot
  objects are created only behind a successful class check; nothing but what is documented is left
  behind; it returns.
* *Exec*: success stands for the command of that very call; it returns.
* *Options*: a flag counts before the file and the file before the default; nothing is deleted and
  no failed run is cleaned up that the user did not ask for.
* *Log collector*: what the options promise is in the zip file, nothing else is; the folder is removed
  only once all of it has been copied; success stands for a complete archive that can be read, unless
  closing it has failed.
* *Cleanup script*: "completed successfully" means that the selection is gone, in an order that
  orphans nothing; only the selection goes, after consent; it ends, and with healthy calls it
  succeeds.

Properties are stated for these and for the hazards listed with their lines in `PROJECT.json`.

## 2. Modules

| Module | Models |
|---|---|
| `Cluster` | API objects with finalizers and grace periods, labels, DELETE and PATCH, controllers and kubelet (external, as the plugin relies on them) |
| `PreflightCleanup` | one call of `CleanupPreflightResources`, API call by API call |
| `CleanupSystem` | several such calls, leftovers, controllers, other runs; the properties and the inductive invariant |
| `CleanupProofs` | the proofs about `CleanupSystem` |
| `SnapshotSetup` | the CRD check and the VolumeSnapshotClass check |
| `SetupSystem` | several runs in these two checks at the same time |
| `SetupLemmas`, `SetupProofs` | the inductive invariant of the two checks, action by action, and the proofs about `SetupSystem` |
| `PreflightContract` | the abstract specification of runs: order of checks, what is left out and when, the verdict |
| `PreflightRun` | `PerformPreflightChecks`; composes `PreflightCleanup` and `SnapshotSetup` |
| `PreflightInputs` | the options of `run` and `cleanup`: defaults, input file, flags, validation |
| `PreflightSystem` | runs, cleanup commands with their inputs, and the cluster; the refinement of `PreflightContract` |
| `RunProofs` | proofs about the course of a run: steps, flags, verdict, types, the refinement |
| `PreflightProofs` | proofs about the objects of the runs: who deletes what, when snapshots are made, what is left |
| `ExecInPod`, `ExecProofs` | `execInPod` with the goroutine `ExecInContainer`, and proofs |
| `LogCollectorInputs` | the options of the log collector: config file, flags, GVKs, `preRun` |
| `LogCollector` | a collection in a changing cluster, with its files and its zip file |
| `LogProofs` | the proofs about `LogCollector`: disk, namespaces, content, coverage |
| `TvkCleanup` | the cleanup script, its options and consent, and the cluster it works on |
| `TvkProofs` | the proofs about `TvkCleanup` |
| `MCCleanup`, `MCSetup`, `MCPreflight`, `MCLogCollector`, `MCTvkCleanup` | instances for TLC |

### From code to model

*Objects.* A run names an object by a role prefix and its UID, so an object is `[run, role]`; roles
are the objects of the checks (`cap0..2`, `dns`, `srcPvc`, `srcPod`, `snap`, `restorePvc`, ...). An
object is `absent`, `live`, `dying` (deletion timestamp set) or `gone`, has finalizers or not (`fin`)
and is ready or not. `RunLabel` is the value of the label `preflight-run`: the UID, except for
capability pods, whose label is the suffix of their name, index included. Names never come back, UIDs being random.

*Calls.* Every API call is one action, in two or three forms: it succeeds; it fails
for a reason of its own (`Fault`, at most `MaxFaults` times); it is refused for a reason in the
state (not found, no CRD, nothing to patch). Creations may also succeed with the answer lost
(`CreateAnswerLost`, `CreateCrdFails`, `CreateClassAnswerLost`), and so may deletions and patches
(`DeleteAnswerLost`, `PatchAnswerLost`, `DeletionAnswerLost`).

*Cleanup.* `pc` of a cleaner is the place in `CleanupPreflightResources`: `discover`
(`getVersionsOfGroup`), `list` and `items` (the two loops), `get` and `patch` (`removeFinalizer`). `ok` is
`allSuccess`. Whether an object is patched is decided by the finalizers it had in the list, as in
the code. `target` and `strip` are history and appear in no guard.

*Class scan.* The classes are listed in any order (`Listings`). `Scanned` has the positions the scan comes
to, which returns at the first default that fits; of those that fit among them (`Matches`) the last is taken.

*Run.* `StepsOf` gives the steps of each check; a step is a call or a wait; `Fail` sets the three
flags as the branches of `PerformPreflightChecks` do. `probe` stands for a check that only reads
(kubectl, cluster access, helm, Kubernetes version, RBAC, the storage class), whose several reads
have no other effect than success or failure. The waits are `PollReady` and `PollAgain`, the deletion at
the end of a check `Delete`, `DeleteGet`, `DeletePatch`, `DeleteFails`; the cleanup at the end is
the cleaner named after the run.

*Exec.* The channel is unbuffered, so an answer is handed over in one step with both sides there;
a goroutine whose caller has left stays at its send.

*Options.* Flags are a function on the names of the flags given, so that `Changed` of the flag library is
membership in its domain; a file is a record with a value for "not there". `RunOptions`,
`CleanupOptions`, `Merged` and `Resolved` are the merged options; `Launch`, `Invoke` and `PreRun` start
the programs with them, or do not when `RunRefused`, `CleanupRefused` or `Refused` says so. `asked`
keeps what the user gave, and the properties compare what is done with that.

*Collection.* `pc` of `LogCollector` is the place in `CollectLogsAndDump`: `check` (namespaces), `discover`,
`resource` (the two loops of `filteringResources`, over `groups` and `queue`), `read` and `ocpRead` (the
GETs of `getResourceObjects`, one action each; `reads` says which are left and what for), `write` and
`logs` (`writeObjectsAndLogs`, `writeLogs`), `events`, `add` and `close` (`zipDir`). An object is
`[res, ns, name, mark]`: the mark is what the filters tell apart (part-of label, name prefix, owner,
webhook label, a label of the user's). `files` is a function from paths to what was written there last, an
object or an event, so that two objects of one path, or two events of one object, collide as they do on disk.
`kept` is `resourceMapList`. The zip file is `open` until `close` makes it `closed`, or `broken` if that fails: its
directory is written last.

*Cleanup script.* `sc` is the script: `stage` is the loop it is in, `sub` the call that is next, `parts`, `res` and
`spaces` what the loops have left, `status` the `exit_status` of the present part and `failed` the verdict
so far. A name (`cur`) is the *set* of objects whose names were put into one argument: a name of two
objects finds nothing (`Named`), as `kubectl` does. The cluster is of its own kind here: an object is
`none`, `live`, `dying`, `gone` or `orphan`, the last when its CRD has been taken away from above it.
The greps of the script go over whole lines; what they match is one `mark` of the object, so that a
pattern which matches too much (a namespace column, a longer name) is not told apart from one that does not.
Helm lists releases in an order nothing relies on, so `ChartSpaces` allows any, namespaces listed twice
included, which `uniq` leaves standing unless they are neighbours.

*Left out everywhere*: logging, YAML dumps, resource requests, images, node selectors, text of
messages and version parsing: all of them end in success or failure of a call, which is free.

## 3. Runs

| Run | Instance | Shows |
|---|---|---|
| `cleanup_two` | two cleaners, every UID and namespace option, leftovers of every kind, one fault | `CleanupInv` (the inductive invariant), `CleanedOrReported`, `StrippedOrReported`, `OnlySelectedDeleted` |
| `cleanup_live` | one cleaner, two served versions, CRDs missing or not, a run in another namespace still creating, fairness | `CleanupReturns`, `TargetsVanish` |
| `setup_two` | two runs, any CRDs and classes in any order, any class given | `CrdCheckIsSound`, `ChosenClassFits`, `DefaultIsPreferred`, `GeneratedOnlyIfNeeded` |
| `setup_default` | same | **violated**: `DefaultIsEnsured` |
| `preflight_run` | one run, all checks, options from flags, file and both, one fault anywhere, fairness | `KeepsContract` (refinement), `SnapshotCheckIsGated`, `SecondSnapshotAfterDelete`, `CleanRunLeavesCapabilityPodsOnly`, `FailedRunIsKept`, `BinariesSkippedOnlyIfAsked`, `RunReturns` |
| `preflight_cli` | one run and a cleanup command whose UID is in a flag, in the file, in both or in neither, fairness of the run | `CleanRunLeavesCapabilityPodsOnly`, `OthersAreSpared`, `RunReturns` |
| `preflight_leftovers` | one run without faults | **violated**: `CleanRunLeavesNothing` |
| `preflight_unmounted` | same | **violated**: `SecondSnapshotIsUnmounted` |
| `exec_calls` | three exec calls, fairness | `ExecInv`, `OkMeansExecuted`, `OnlyTimeoutsLeak`, `CallReturns` |
| `log_collect` | five inputs, OpenShift or not, two kinds of `Service`, pods, secrets, events; one failing call, kill or change; fairness | `CollectsWhatStays`, `CollectsNothingElse`, `EventsFollowObjects`, `RemovedOnceCopied`, `SuccessMeansArchived`, `CollectorReturns` |
| `log_namespaces` | a config file like the documented one | **violated**: `FileNamespacesCount` |
| `tvk_cleanup` | eight command lines, four clusters, two failing calls, fairness | `SuccessMeansGone`, `OnlySelectedGoes`, `HealthyCleanupSucceeds`, `ScriptEnds` |

The four violated properties are sentences of the documentation that the code does not keep:

* `docs/preflight/README.md:44` and `:96`: every resource carries the UID as its label and all
  intermediate resources are cleaned up. A capability pod carries `<index>-<UID>`; if its check did
  not get to deleting it, no cleanup by UID finds it, and the cleanup reports success.
* `docs/preflight/README.md:90`: the second snapshot is one of an unmounted claim. The code deletes
  the source pod with a grace period and does not wait for it to be gone.
* `docs/preflight/README.md:80`: one class is marked as the default if the user gives none. A
  matching class without the annotation is accepted, and a generated class has no annotation.
* `docs/log-collector/README.md:119` and `:127-130`: namespaces may be given in the config file, with
  `clustered: false`. They never count: a collection that is not clustered takes the namespaces of
  the flag, given or not, and a clustered one refuses them.

Two more places of this kind have no run of their own. `docs/preflight/README.md:189` lists `inCluster` among
the inputs of the file, and `:210` says that flags override the file; but a file that says true is overridden by
the *default* of the flag (`cmd/preflight/cmd/helper.go:131`, `InClusterOf`), so the file never counts. What does
hold is one half of the claim, that the binaries are checked unless the user has asked otherwise
(`BinariesSkippedOnlyIfAsked`); the other half is false of the code. The comment at
`tools/preflight/exec/exec_to_pod.go:69` says that an exec without both names cannot go on; it does, for
want of a `return` (`ReceiveUnnamed`), but no caller passes an empty name.

Some properties have limits where the code does no more, or where the model does not look:

* `CollectsWhatStays` and `EventsFollowObjects` leave out objects that share kind and name with one of another
  resource (`SoleKind`), as these have one folder and one list of names. A cluster-scoped object has its events under
  `default` and is looked up under no namespace, so they are not promised.
* The events of one object are written to one path, one over the other. `EventsFollowObjects` promises one of them,
  and a certain one only to an object that has no other.
* `RemovedOnceCopied` and `SuccessMeansArchived` name the two ways to lose everything: the process is killed between the
  removal of the folder and the Close of the zip file, or that Close fails. After the second the program still reports
  success, because the errors of its two deferred calls are dropped (`log_collector.go:328-331`).
* `CollectsNothingElse` permits everything in the namespace of OpenShift's ingress operator, as what is collected there
  depends on the order of the groups; and the properties take the user's namespaces as they are used, untrimmed,
  so that a padded one promises nothing.
* `SuccessMeansGone` leaves out names that were listed into one argument, which nobody finds (`Alone`), and
  cleanups in which a look has failed, which the script takes for an absence (`blind`).
* `OnlySelectedGoes` states the selection by the same marks as the greps, and so does not find a pattern that matches too much.
* `HealthyCleanupSucceeds` is about a cluster in which nobody else removes a release or makes anew what was deleted: an
  operator that uninstalls its own release while the script is at work is not in the model.

### Bounds

* `MaxFaults` (1, or 0): faults are independent of the rest of the state, and no code path counts
  them; one fault at every point reaches every error path. Two faults only combine error paths, and
  the proofs hold for any number. `preflight_cli` has none because its second actor produces the
  failures (objects that are gone).
* `MaxPolls` (2 or 1; 120 in the code): a wait asks, asks again, and gives up; all of these happen with 2.
* `Linger`: the roles whose objects stay in deletion for a while when they have finalizers or a
  grace period; the others go at once. `cleanup_*` let all of them linger; the runs of
  `PreflightSystem` choose those whose lingering their properties tell apart (the source pod, a claim, a
  capability pod with a finalizer).
* `AdmissionFin`: roles whose objects have finalizers from birth: claims (PVC protection) and, as a
  webhook may do, one pod.
* `NVersions` (1 or 2): the versions in which the snapshot group is served; with two, snapshots are
  listed twice, which is all the code does with the number.
* `CliFrom` (11): the command is given from the volume snapshot check on, where nearly all objects are; before
  that only DNS and capability pods exist, which it would take away in the same way.
* `Stale`, `Fresh`: what earlier runs left and what another run may create: one object of every kind,
  claim and pod mounting it together.
* `Options`: combinations of in-cluster, cleanup on failure and class given that make every branch
  of the flags happen; `preflight_run` has a matching, a non-matching and no class.
* `MaxMishaps` (1) of `LogCollector` is shared by failing calls, kills and changes of the cluster: the
  collector keeps no count of failures, and after each kind of failure it either ends or goes on as if
  the object were not there. One change anywhere reaches every pair of a listing and a later use.
* `MCApi`, `MCObject`: one resource of every kind that the filters treat apart (core, Triliovault, one that
  shares its kind with another, cluster-scoped, excluded, the ingress operator), and objects inside and outside
  the namespace asked for, with and without the marks; five inputs, of which one is refused, one is
  clustered, one has a padded namespace and one names nothing.
* `MaxFaults` (2) of `TvkCleanup`: a deletion and its patch, or the look after it, fail together.
* `MCWorlds`: custom resources of two kinds, one without namespaces; charts in two namespaces with
  foreign releases and cronjobs beside; two installations in one namespace; OpenShift with its
  operator. Finalizers are on some from the start, and controllers may put others on.
* `NCalls` (3): the DNS call and the two of the volume snapshot check.

`CHECK_DEADLOCK FALSE` appears in all configurations because the programs terminate: when all calls
have returned and the cluster is quiet, nothing is left to do. That they do return is a property
(`CleanupReturns`, `RunReturns`, `CallReturns`, `CollectorReturns`, `ScriptEnds`). `cleanup_two` uses symmetry of the two cleaners and
checks no liveness; the liveness runs use no symmetry.

### Fairness

* A cleaner, and a run with its cleanup, are weakly fair: one sequential process whose API calls return
  (the client's transport reports a broken connection as an error). Of their alternatives
  (success, fault) none is promised. A `preflight cleanup` command beside a run is not fair: it may come, stop anywhere, and
  take any object of the run away before, and `RunReturns` of `preflight_cli` holds all the same.
* `ControllerReleases` and `KubeletStops` are weakly fair in `CleanupSystem`: the cluster finishes what
  deletion began. `RunReturns` and `CleanupReturns` hold without asking anything of pods, snapshots
  or other runs.
* Of an exec call, only the caller: an answer is taken or the timer fires. The stream may never end.
* The log collector as a whole (`CollectorNext`): no call hangs for ever. Not the kill, not the changes of the
  cluster.
* The cleanup script as a whole (`Script`): calls return, and the one that waits has `--timeout=5s`. Not the
  answer to its question, not the cluster: `ScriptEnds` asks nothing of controllers.
* Commands, other runs, creation and readiness are never fair.

## 4. Proofs

TLC checks small instances; the theorems hold for every value of the constants that the assumptions below
admit. All of them have the same form: an invariant that is inductive, checked by TLC first, of which
the property is a consequence.

### Cleanup

`CleanupProofs` proves for any sets of runs, namespaces, cleaners and objects, any number of
faults and of served versions, under the named assumptions of `Cluster`, `PreflightCleanup` and
`CleanupSystem`:

* `TypesHold`, `CleanupInvHolds`, `CleanedOrReportedHolds`, `StrippedOrReportedHolds`,
  `OnlySelectedDeletedHolds`.

*The invariant.* `CleanedOrReported` speaks of a cleaner that has returned and is not inductive. `CleanupInv` says what a
cleaner still owes while it works: as long as nothing failed, an object it was asked to remove that is live
is still to come, because its kind is not yet listed (`LastPos`) or it is among the items of the
list at hand (`TargetsOK`); an object listed with finalizers that still has some is an item
to come or the one in `get` or `patch` (`StripsOK`). `ControlOK` ties the position, the items and the result
to the control state, `ScopeOK` keeps everything within the selection, `ObjectsOK` says that only
what exists has finalizers and that a snapshot means its CRD.

*The argument.* `ObjStep` describes what any step does to objects: life goes on in one direction and an object
not live acquires no finalizer. `Bystander` shows that such a step keeps the part of the invariant that belongs to
a cleaner that does not move. So each action needs only its own cleaner's part: one lemma
per action, then `NextInv`. `OnlySelectedDeleted` is an action property and follows from `ScopeOK` in the
state before the step.

### The two checks of the snapshot setup

`SetupProofs` proves the safety properties of `SetupSystem` for any number of runs, any classes and any
number of faults: `SetupTypesHold`, `CrdCheckIsSoundHolds`, `ChosenClassFitsHolds`, `DefaultIsPreferredHolds`,
`GeneratedOnlyIfNeededHolds`. *The invariant* `SetupInv` (in `SetupLemmas`) says of each run in what order it
makes its checks (`OrderOK`), which CRDs are there once it is past them (`PassedOK`), that it comes to create a class
only in a cluster without one that fits (`CreatesOK`), and what its results promise (`PromiseOK`); and of the cluster
that a class is generated only where none of its own fits (`GeneratedOK`). The results alone are not inductive: the check of
the CRDs visits them one by one, and the creation of a class acts on a look that is a step old. *The
argument* is the same as for cleaners: `WorldStep` says all that others do (CRDs and classes are only
added, and only generated ones), and it keeps what belongs to a run that does not move. The lemmas are about the
actions of `SnapshotSetup` and serve `PreflightSystem` as well. `ScanPrefersDefault` is the one about the scan: in whatever
order the classes come, the last match it reaches is a default if one of them fits, by way of the first default in the list.
`GeneratedOnlyIfNeeded` speaks of each run and its own generated class, and has a small invariant for it (`OwnInv`): a class
of a run's name appears only by its own creation, after a look that found none of the cluster's classes to fit.

### Runs

`RunProofs` and `PreflightProofs` prove every safety property of `PreflightSystem`, for any sets of runs,
commands, inputs, leftovers and objects, any number of faults and of polls.

* `RunProofs`: `RunInvHolds`, `TypesHold`, `BinariesSkippedOnlyIfAskedHolds`, `FailedRunIsKeptHolds` and the
  refinement `KeepsContractHolds`: `PreflightSystem` implements `PreflightContract`. *The invariant* `RunInv` places a run
  at a step of one of its checks (`Placed`, for which the lemmas in front work out which steps each check
  can have), ties its three flags and its verdict to the outcomes so far (`FlowOK`), its options to
  what the user gave (`OptionsOK`), its cleaner to the point the run is at (`CleanerOK`), and contains `SetupInv`. The
  refinement needs exactly `FlowOK`: the code decides from `preflightStatus` and
  `storageSnapshotSuccess`, the contract from outcomes. The initial states map to initial states,
  and a step is a decision about one check, the return of a run, or a stutter.
* `PreflightProofs`: `OthersAreSparedHolds`, from what any one step deletes (`RunWorld` and its like). The others
  need an invariant of their own on top of `RunInv`. `GatedInv` (for `SnapshotCheckIsGatedHolds`) says of every claim and
  snapshot, not only of new ones, that the class check of its run has succeeded. `SourceInv` (for
  `SecondSnapshotAfterDeleteHolds`) follows the source pod through its deletion, which is three steps of the
  fourteenth step of the check, and keeps the second snapshot behind it. `SweepInv` (for
  `CleanRunLeavesCapabilityPodsOnlyHolds`) says that, as long as nothing has failed, whatever of the run is live is still
  to come in the cleanup at its end: its kind is not yet listed, or it is among the items in hand. It needs
  that a snapshot means its CRD is there, or the listing of snapshots could be passed over.

### Exec

`ExecProofs` proves `ExecInv` inductive for any number of calls (`ExecInvHolds`), and from it
`OkMeansExecutedHolds` and `OnlyTimeoutsLeakHolds`.

### Log collector

`LogProofs` proves every safety property of `LogCollector` for every cluster and API, any inputs and any number
of failing calls, kills and changes. Five invariants build on each other, because the options change in
the middle of a collection and everything found depends on them:

* `DiskInv` (`RemovedOnceCopiedHolds`, `SuccessIsArchived`): while the collection goes on, nothing is zipped and the folder is
  there as soon as a file is; while it is zipped, entries are files and the zip file is open; at the close without
  error the archive is complete and the folder is there only if it is to be kept; and the program ends, unless
  killed, with a zip file that is closed or broken. `SuccessMeansArchived` alone is not inductive: that
  something was written at all follows from the walk over a folder, which is there.
* `ScopeInv` (`OnlyNamedNamespaces`) follows a namespace from the options to a file: the options hold those asked
  for and at most the one of the ingress operator (`OptionsOK`), only once discovery has found its group
  (`GroupsOK`, `QueueOK`); every GET still to make is permitted (`ReadsOK`), so what is found, and the events,
  are allowed (`FoundOK`).
* `TypeInv` (`CollectorTypesHold`) adds what the collector has in hand at each place (`StockOK`).
* `ContentInv` (`CollectsNothingElseHolds`): what is found of an excluded kind (secrets) was asked for or
  belongs to a webhook (`JustOK`), since a GET is made for a resource only for a reason its kind allows.
* `CoverInv` (`CollectsWhatStaysHolds`, `EventsFollowObjectsHolds`): as long as no call has failed, an object
  that is owed is still to come: its group is in `groups`, its resource in `queue`, a GET that will return it in
  `reads`, or it is `found`, `toWrite`, or written and its name noted; likewise its events (`CoverOK`, `EventOK`).

### Cleanup script

`TvkProofs` proves every safety property of `TvkCleanup` for any cluster, any command line, any objects that may
come or be held, and any number of failing calls:

* `ScriptTypesHold`, `OnlySelectedGoesHolds` from `ScriptInv`: what is queued comes from a listing of what was selected
  (`NamesOK`), the loops are inside a part that was selected (`PlaceOK`) and lists of `-r` name custom resources only.
* `HealthyCleanupSucceedsHolds` from `HealthInv`: a status is set only by a call that fails, or by two releases listed
  into one argument (`HealthyOK`); the object that has been patched is gone when it is looked for, and a
  release that is listed is still there when it is uninstalled (`ReleasesOK`), as nobody else takes it away.
* `SuccessMeansGoneHolds` from `SuccessInv`: what is owed is gone, or it is *due*: its part is still to come, or a later
  stage, namespace or resource of the present part, or it is among the names of the present loop (`Due`). That
  deleting one name leaves the others due is one lemma for each way the script goes on (`NextResourceDue`,
  `VisitNamesDue`, `VisitChartsDue`, `LeaveDue`, `ProceedDue`); that a listing finds whatever is due in it is
  `ListingDue`. This needs two more facts. `ServedOK`: until the CRDs are deleted, they are there and nothing is
  orphaned, so a probe for a kind cannot miss; and until the charts are listed their releases are live, so
  their namespaces are found. `OrderOK`: the parts are in their order, which is what puts CRDs last.
  It says nothing of a cleanup in which a look failed (`blind`): there the code does report a success.

### Assumptions

Each is named, next to the constants it is about, and evaluated by TLC in every run:

* `ClusterAssumption`, `CleanupAssumption`, `SystemAssumption`, `ClassAssumption`, `SetupAssumption`, `RunAssumption`,
  `ExecAssumption`, `CollectorAssumption`: constants have their types, values such as "no UID" are not among the
  real ones, and what the cluster starts from is well formed.
* `PreflightAssumption`: names of command cleaners are not names of runs; the namespace of a run is the one its
  input gives; inputs have values of the types of their flags; a class an input names is not one that
  the plugin generates (whose names are random); leftovers are of runs that are over.
* `InputsAssumption`, `ServerAssumption`, `ObjectAssumption` and `KindAssumption` of the log collector: flags have
  values and no namespace is named `""`; the API lists under a group the resources of that group; an
  object is of a listed resource, has a namespace if its resource has, and is known by these and its name;
  an excluded kind (Secret, PackageManifest) is the kind of one resource, and none of Triliovault's.
* `TvkCleanupAssumption`, `KindAssumption`, `InputsAssumption` and `CustomAssumption` of the script: finitely many
  objects; releases have no finalizers; a custom resource there at the start has its CRD, as
  the API server demands; the lists of `-r` name neither CRDs nor releases.

### What proving has changed

Four statements and definitions turned out to say more than the code does, or to depend on the
instance that TLC had been given, and were corrected. `CollectsWhatStays` promised objects of the `Event` kind,
which are only written with the object they are about, and objects related to OpenShift's ingress operator
of any group, where the code asks for the operator's own. `SuccessMeansGone` promised the deletion of two managers
with different labels, though the script lists managers by their namespace alone. The listings of
Subscriptions and CSVs left out the namespace and the name the script gives. And the releases had one
order, where nothing in the script relies on one.

*Only model-checked*: liveness (`CleanupReturns`, `TargetsVanish`, `RunReturns`, `CallReturns`, `CollectorReturns`,
`ScriptEnds`), which needs fairness and `ENABLED` and is out of the prover's reach; and the merging of options in
`PreflightInputs` and `LogCollectorInputs`, which the proofs use only through what it yields. Every invariant and
every safety property of a passing run is also a theorem.

## 5. Not modelled, and plan

Left to do, in order:

1. The pure parts the proofs go around: what `Merged` and `Resolved` yield for every file and flags (a flag
   counts before the file and the file before the default), as lemmas about their operators.
2. Action properties of the script and the log collector that are only implied now: that an object leaves the state
   `gone` never, that what is written is not written over by another object unless two share a path.
3. Shorter proofs: the places of `TvkProofs` where each stage is taken in turn.

Not modelled: the initialisation of the clients, extraction and comparison of versions, the syntax of flags
(a word of `--gvk` without two slashes ends the log collector with a panic), the count of open file
descriptors (event files are not closed), the text of a license, from which the key is removed.

Not planned: the other client helpers and the shell runner (I/O whose outcome the models choose
freely), text of pod specs, build and release scripts, the embedded CRD manifests.
