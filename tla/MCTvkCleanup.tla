---------------------------- MODULE MCTvkCleanup ----------------------------
(***************************************************************************)
(* Instances of TvkCleanup for TLC: a plain cluster with charts in two      *)
(* namespaces, and one with the operator of OpenShift.                      *)
(***************************************************************************)
EXTENDS TvkCleanup

O(kind, ns, name, mark) == [kind |-> kind, ns |-> ns, name |-> name, mark |-> mark]

Crd(kind, mark) == O("CRD", "", kind, mark)

Crds    == {Crd(kind, "tvk") : kind \in {"Backup", "ClusterBackup", "TriliovaultManager"}}
Backup1 == O("Backup", "a", "b1", "other")
Backup2 == O("Backup", "b", "b2", "other")
Late    == O("Backup", "b", "b3", "other")
Cluster == O("ClusterBackup", "", "c1", "other")

Manager(ns) == O("TriliovaultManager", ns, "tvm", "other")
Second      == O("TriliovaultManager", "b", "tvm2", "other")
Tvm(ns)     == O("Release", ns, "tvm", "manager")
Tvo(ns)     == O("Release", ns, "tvo", "operator")
Tvm2        == O("Release", "b", "tvm2", "manager")
OtherApp    == O("Release", "a", "app", "other")
Cleaner     == O("CronJob", "a", "cleaner", "tvk")
OtherCron   == O("CronJob", "b", "cron", "other")
Csv         == O("CSV", OcpNs, "v2", "tvk")
OtherCsv    == O("CSV", OcpNs, "x", "other")
Sub0        == O("Subscription", OcpNs, "k8s-triliovault", "tvk")

Customs == {Crd("Backup", "tvk"), Crd("ClusterBackup", "tvk"), Backup1, Backup2, Cluster}
Charts  == {Crd("TriliovaultManager", "tvk"), Manager("a"), Manager("b"), Tvo("a"), Tvm("b"),
            OtherApp, Cleaner, OtherCron}
Olm     == {Crd("TriliovaultManager", "tvk"), Crd("Other", "other"), Manager("a"), Csv, OtherCsv, Sub0}

World(there, kept, isOcp) == [there |-> there, held |-> there \cap kept, ocp |-> isOcp]

MCWorlds ==
  {World(Customs, {Backup1, Cluster}, FALSE),
   World(Charts, {Manager("a"), Cleaner}, FALSE),
   World(Charts \cup {Second, Tvm2}, {Manager("a")}, FALSE),
   World(Olm, {Sub0, Csv}, TRUE)}

MCObject == UNION {w.there : w \in MCWorlds} \cup {Late}

MCFresh   == {Late}
MCGuarded == {Backup2, Manager("b")}

MCInputs ==
  {<<>>, <<Option("-h")>>, <<Option("-r"), Option("-x")>>, <<Option("-n")>>,
   <<Option("-c"), Option("-r"), List(<<"ClusterBackup", "Backup">>)>>,
   <<Option("-n"), Option("-t"), Option("-c")>>,
   <<Option("-r"), Option("-n")>>,
   <<Option("-n"), Option("-t"), Option("-r")>>}
=============================================================================
