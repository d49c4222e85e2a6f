------------------------------ MODULE TvkProofs ------------------------------
(***************************************************************************)
(* Proofs about TvkCleanup, for any cluster, any command line and any       *)
(* number of failing calls: what the script deletes, when it fails, and     *)
(* what its success says.                                                   *)
(***************************************************************************)
EXTENDS TvkCleanup, FiniteSetTheorems, TLAPS

-----------------------------------------------------------------------------
(***************************************************************************)
(* The script.                                                              *)
(***************************************************************************)
Phases  == {"none", "live", "dying", "orphan", "gone"}
Subs    == {"read", "delete", "wait", "patch", "get", "uninstall"}
Results == {"none", "usage", "help", "declined", "nothing", "failed", "success"}
Words   == [option : STRING, list : Seq(STRING)]
Columns == {o.ns : o \in Object} \cup {o.name : o \in Object}

(* What -r may name: the provers are not told that a literal is a string.   *)
Resources == STRING \cup ToSet(AllResources)

ScriptState ==
  [opt : [ask : BOOLEAN, res : Seq(Resources), op : BOOLEAN, crd : BOOLEAN],
   args : Seq(Words), stage : Stages, sub : Subs,
   parts : Seq({"probe", "ocp", "crd"}), res : Seq(Resources), spaces : Seq(Columns),
   todo : Seq(SUBSET Object), cur : SUBSET Object,
   status : BOOLEAN, failed : BOOLEAN, result : Results]

Asking      == {"options", "consent"}
HelmStages  == {"manager", "operator"}
Deleting    == Loops \cup HelmStages
ChartStages == {"tvm", "cron"} \cup HelmStages
OpStages    == {"ocp", "subscription", "csv", "charts"} \cup ChartStages

(* Objects there have ever been, a release of TVK in a namespace.           *)
Known == {o \in Object : Ever(o)}

HasChart(ns) == \E r \in Known : r.kind = "Release" /\ r.mark # "other" /\ r.ns = ns

(* The resources of -r are custom ones.                                     *)
Custom(list) == ToSet(list) \cap {"CRD", "Release"} = {}

(* What the loops have left is part of what the options say.                *)
LeftOK(s) ==
  /\ s \in ScriptState
  /\ "probe" \in ToSet(s.parts) => s.res # <<>>
  /\ "ocp" \in ToSet(s.parts) => s.opt.op
  /\ "crd" \in ToSet(s.parts) => s.opt.crd
  /\ ToSet(s.res) \subseteq ToSet(s.opt.res)
  /\ Custom(s.opt.res)

(* The script is in a loop that has something left.                         *)
PlaceOK(s) ==
  /\ s.stage \in Asking => s.res = <<>> /\ s.parts = <<>> /\ s.result = "none"
  /\ s.sub \in {"delete", "wait", "patch", "get"} => s.stage \in Loops
  /\ s.sub = "uninstall" => s.stage \in HelmStages
  /\ s.stage \in {"probe", "spaces", "names"} => s.res # <<>>
  /\ s.stage \in {"names"} \cup ChartStages => s.spaces # <<>>
  /\ s.stage \in OpStages => s.opt.op
  /\ s.stage \in {"subscription", "csv"} => ocp
  /\ s.stage = "crd" => s.opt.crd
  /\ s.stage \in ChartStages => \A ns \in ToSet(s.spaces) : HasChart(ns)

ArgsOK(s) == s.stage = "options" => \A word \in ToSet(s.args) : Custom(word.list)

(* Before a stage has listed anything, there is nothing to delete.          *)
ReadOK(s) == s.sub = "read" => s.cur = {} /\ s.todo = <<>>

(* What is to be deleted.                                                   *)
Names(s) == {s.cur} \cup ToSet(s.todo)

NamesOK(s) ==
  \A S \in Names(s) : \A o \in S :
    /\ Ever(o) /\ Selected(o)
    /\ s.stage \in Loops \ {"crd"} => o.kind \notin {"CRD", "Release"}
    /\ s.stage = "crd" => o.kind = "CRD"
    /\ s.stage \in HelmStages => o.kind = "Release" /\ o.mark = s.stage /\ o.ns = Head(s.spaces)

ClusterOK ==
  /\ phase \in [Object -> Phases] /\ held \subseteq {o \in Object : Visible(o)}
  /\ start \subseteq Known /\ blind \in BOOLEAN /\ ocp \in BOOLEAN /\ faults \in 0..MaxFaults
  /\ sc.stage \in Asking => start = {} /\ \E o \in Object : phase[o] = "live"
  /\ start = {} => sc.stage \in Asking \cup {"end"} /\ \A o \in Object : phase[o] \in {"none", "live"}
  /\ \A o \in Object : o.kind = "CRD" /\ phase[o] = "dying" => Selected(o)

ScriptInv == LeftOK(sc) /\ PlaceOK(sc) /\ ArgsOK(sc) /\ ReadOK(sc) /\ NamesOK(sc) /\ ClusterOK
-----------------------------------------------------------------------------
(* When it fails.                                                           *)
TwoReleases ==
  \E r, p \in Known : r # p /\ r.kind = "Release" /\ p.kind = "Release" /\ r.ns = p.ns /\ r.mark = p.mark

Bad(s) == s.status = TRUE \/ s.failed = TRUE

(* A release is there until it is uninstalled.                              *)
ReleasesOK ==
  /\ \A r \in Object : r.kind = "Release" => phase[r] \in {"none", "live", "gone"} /\ r \notin held
  /\ sc.sub = "uninstall" => sc.cur # {} /\ sc.todo = <<>> /\ \A r \in sc.cur : phase[r] = "live"

HealthyOK ==
  faults = 0 =>
    /\ Bad(sc) => TwoReleases
    /\ \A o \in Object : sc.cur = {o} => /\ sc.sub \in {"wait", "patch"} => phase[o] # "live"
                                         /\ sc.sub = "get" => ~Visible(o)

(* The result is that of the parts, when they are at an end.                *)
VerdictOK(s) ==
  /\ s.stage # "end" => s.result = "none"
  /\ s.result = "failed" => s.failed = TRUE
  /\ s.result = "success" => ~Bad(s)

HealthInv == ScriptInv /\ ReleasesOK /\ HealthyOK /\ VerdictOK(sc)
-----------------------------------------------------------------------------
(* What a success says.                                                     *)
Clean == blind = FALSE /\ ~Bad(sc)

Owed == {o \in start : SelectedAmong(o, start) /\ Alone(o)}

Early == {"probe", "spaces", "names", "ocp", "subscription", "csv", "charts"}

(* Until the CRDs are deleted, they and their objects are there, and until  *)
(* the charts are dealt with, so are their releases.                        *)
ServedOK ==
  /\ \A o \in Object : o.kind = "CRD" => phase[o] # "orphan"
  /\ sc.stage \notin {"crd", "end"} =>
       \A o \in Object : /\ phase[o] # "orphan" /\ (Visible(o) => HasKind(o.kind))
                         /\ o.kind = "CRD" => phase[o] \in {"none", "live"}
  /\ sc.stage \in Early => \A r \in start : r.kind = "Release" => phase[r] = "live"

(* The parts are in their order.                                            *)
OrderOK(s) ==
  /\ s.parts \in {<<>>, <<"ocp">>, <<"crd">>, <<"ocp", "crd">>}
  /\ s.stage \in OpStages => s.parts \in {<<>>, <<"crd">>}
  /\ s.stage \in {"crd", "end"} => s.parts = <<>>

(* The objects that are in names, one by one if they are so deleted; those  *)
(* that the present loop is still to list or to delete.                     *)
Among(s, names) == {o \in Object : \E S \in names : o \in S /\ (s.stage \in Loops => S = {o})}

Now(s) == IF s.sub = "read" THEN Object ELSE Among(s, Names(s))

(* What is due: later on, or in the present loop if that is to deal with    *)
(* the objects of L.                                                        *)
DueInRes(o, s, L) ==
  \/ s.stage \in {"probe", "spaces"} /\ o.kind \in ToSet(s.res)
  \/ s.stage = "names" /\ o.kind \in ToSet(Tail(s.res))
  \/ /\ s.stage = "names" /\ o.kind = Head(s.res)
     /\ FirstColumn(o) \in ToSet(Tail(s.spaces)) \/ (FirstColumn(o) = Head(s.spaces) /\ o \in L)

DueInOlm(o, s, L) ==
  \/ "ocp" \in ToSet(s.parts) \/ s.stage = "ocp"
  \/ s.stage = "subscription" /\ (o.kind = "CSV" \/ o \in L)
  \/ s.stage = "csv" /\ o.kind = "CSV" /\ o \in L

(* The stage an object of the charts is deleted in, and those before it.    *)
StageOf(o) == CASE o.kind = "TriliovaultManager" -> "tvm"
                [] o.kind = "CronJob"            -> "cron"
                [] OTHER                         -> o.mark

Before(stage) == CASE stage = "tvm"      -> {}
                   [] stage = "manager"  -> {"tvm"}
                   [] stage = "operator" -> {"tvm", "manager"}
                   [] OTHER              -> {"tvm", "manager", "operator"}

DueInCharts(o, s, L) ==
  \/ "ocp" \in ToSet(s.parts) \/ s.stage \in {"ocp", "subscription", "csv", "charts"}
  \/ s.stage \in ChartStages /\ o.ns \in ToSet(Tail(s.spaces))
  \/ /\ s.stage \in ChartStages /\ o.ns = Head(s.spaces)
     /\ s.stage \in Before(StageOf(o)) \/ (s.stage = StageOf(o) /\ o \in L)

DueInCrd(o, s, L) == "crd" \in ToSet(s.parts) \/ (s.stage = "crd" /\ o \in L)

OfOlm(o, s)    == s.opt.op /\ ocp /\ o.kind \in {"Subscription", "CSV"} /\ o.ns = OcpNs /\ o.mark = "tvk"
OfCharts(o, s) ==
  /\ s.opt.op /\ \E r \in start : r.kind = "Release" /\ r.mark # "other" /\ r.ns = o.ns
  /\ \/ o.kind = "TriliovaultManager"
     \/ o.kind = "Release" /\ o.mark \in {"manager", "operator"}
     \/ o.kind = "CronJob" /\ o.mark = "tvk"
OfCrds(o, s)   == s.opt.crd /\ o.kind = "CRD" /\ o.mark = "tvk"

Due(o, s, L) ==
  /\ o.kind \in ToSet(s.opt.res) => DueInRes(o, s, L)
  /\ OfOlm(o, s)    => DueInOlm(o, s, L)
  /\ OfCharts(o, s) => DueInCharts(o, s, L)
  /\ OfCrds(o, s)   => DueInCrd(o, s, L)

SuccessInv ==
  /\ HealthInv /\ ServedOK /\ OrderOK(sc)
  /\ Clean => \A o \in Owed : phase[o] = "gone" \/ Due(o, sc, Now(sc))
-----------------------------------------------------------------------------
(***************************************************************************)
(* Sequences.                                                               *)
(***************************************************************************)

(* A finite set as a list: its elements and no others.                      *)
LEMMA ListOfSet ==
  ASSUME NEW S, IsFiniteSet(S)
  PROVE  SetToSeq(S) \in Seq(S) /\ ToSet(SetToSeq(S)) = S
<1> DEFINE n == Cardinality(S)
           list == SetToSeq(S)
<1>1. n \in Nat /\ ExistsBijection(1..n, S)
  BY FS_CardinalityType
<1>2. \E f \in [1..n -> S] : IsInjective(f)
  BY <1>1 DEF ExistsBijection, Bijection, Injection
<1>3. list \in [1..n -> S] /\ IsInjective(list)
  BY <1>2 DEF SetToSeq
<1>4. list \in Injection(1..n, S)
  BY <1>3 DEF Injection
<1>5. IsFiniteSet(1..n) /\ Cardinality(1..n) = n
  BY <1>1, FS_Interval
<1>6. list \in Surjection(1..n, S)
  BY <1>4, <1>5, FS_Injection
<1>7. \A x \in S : \E i \in 1..n : list[i] = x
  BY <1>6 DEF Surjection
<1>8. list \in Seq(S) /\ DOMAIN list = 1..n
  BY <1>1, <1>3
<1> HIDE DEF list, n
<1>9. ToSet(list) = S
  BY <1>3, <1>7, <1>8 DEF ToSet
<1> QED BY <1>8, <1>9 DEF list

LEMMA FiniteObjects == \A S \in SUBSET Object : IsFiniteSet(S)
  BY TvkCleanupAssumption, FS_Subset

(* The names that are to be deleted, and the columns of a listing.          *)
LEMMA QueueType ==
  ASSUME NEW stage, NEW S \in SUBSET Object
  PROVE  /\ Queue(stage, S) \in Seq(SUBSET Object)
         /\ ToSet(Queue(stage, S)) = IF stage \in {"names", "crd"} THEN {{o} : o \in S}
                                     ELSE IF S = {} /\ stage # "tvm" THEN {} ELSE {S}
<1> DEFINE f == [o \in S |-> {o}]
           T == {f[o] : o \in S}
<1>1. IsFiniteSet(T)
  <2>1. f \in Surjection(S, T)
    BY DEF Surjection
  <2>2. IsFiniteSet(S)
    BY FiniteObjects
  <2> HIDE DEF f, T
  <2> QED BY <2>1, <2>2, FS_Surjection
<1>2. T = {{o} : o \in S}
  OBVIOUS
<1> HIDE DEF f, T
<1>3. SetToSeq(T) \in Seq(T) /\ ToSet(SetToSeq(T)) = T
  BY <1>1, ListOfSet
<1>4. CASE stage \in {"names", "crd"}
  <2>1. Queue(stage, S) = SetToSeq(T)
    BY <1>4, <1>2 DEF Queue
  <2>2. T \subseteq SUBSET Object
    BY <1>2
  <2> QED BY <2>1, <2>2, <1>3, <1>2, <1>4
<1>5. CASE stage \notin {"names", "crd"}
  <2>1. ToSet(<<>>) = {} /\ <<>> \in Seq(SUBSET Object)
    BY DEF ToSet
  <2>2. ToSet(<<S>>) = {S} /\ <<S>> \in Seq(SUBSET Object)
    BY DEF ToSet
  <2> QED BY <2>1, <2>2, <1>5 DEF Queue
<1> QED BY <1>4, <1>5

LEMMA ColumnsType ==
  ASSUME NEW S \in SUBSET Object
  PROVE  /\ SetToSeq({FirstColumn(o) : o \in S}) \in Seq(Columns)
         /\ ToSet(SetToSeq({FirstColumn(o) : o \in S})) = {FirstColumn(o) : o \in S}
<1> DEFINE f == [o \in S |-> FirstColumn(o)]
           T == {f[o] : o \in S}
<1>1. IsFiniteSet(T)
  <2>1. f \in Surjection(S, T)
    BY DEF Surjection
  <2>2. IsFiniteSet(S)
    BY FiniteObjects
  <2> HIDE DEF f, T
  <2> QED BY <2>1, <2>2, FS_Surjection
<1>2. T = {FirstColumn(o) : o \in S}
  OBVIOUS
<1>3. T \subseteq Columns
  BY <1>2 DEF FirstColumn, Columns
<1> HIDE DEF f, T
<1>4. SetToSeq(T) \in Seq(T) /\ ToSet(SetToSeq(T)) = T
  BY <1>1, ListOfSet
<1>5. SetToSeq(T) \in Seq(Columns)
  BY <1>3, <1>4
<1> QED BY <1>2, <1>4, <1>5

LEMMA ChartSpacesType ==
  ASSUME NEW list \in ChartSpaces
  PROVE  /\ list \in Seq(Columns)
         /\ ToSet(list) = {r.ns : r \in {p \in Object : p.kind = "Release" /\ Visible(p) /\ p.mark # "other"}}
<1> DEFINE releases == {p \in Object : p.kind = "Release" /\ Visible(p) /\ p.mark # "other"}
           spaces   == {r.ns : r \in releases}
           n == Cardinality(releases)
<1>1. list \in BoundedSeq(spaces, n) /\ ToSet(list) = spaces
  BY DEF ChartSpaces
<1>2. spaces \subseteq Columns
  BY DEF Columns
<1>3. n \in Nat
  <2>1. releases \in SUBSET Object
    OBVIOUS
  <2> QED BY <2>1, FiniteObjects, FS_CardinalityType
<1> HIDE DEF n, spaces
<1>4. PICK m \in 0..n : list \in [1..m -> spaces]
  BY <1>1 DEF BoundedSeq, SeqOf
<1>5. m \in Nat
  BY <1>3
<1>6. list \in Seq(spaces)
  BY <1>4, <1>5
<1> QED BY <1>1, <1>2, <1>6 DEF spaces

(* The first and the others.                                                *)
LEMMA HeadAndTail ==
  ASSUME NEW A, NEW q \in Seq(A), q # <<>>
  PROVE  /\ Head(q) \in A /\ Tail(q) \in Seq(A) /\ Len(q) \in Nat \ {0}
         /\ ToSet(q) = {Head(q)} \cup ToSet(Tail(q))
         /\ Len(Tail(q)) = Len(q) - 1
<1>1. /\ Len(q) \in Nat \ {0} /\ Head(q) = q[1] /\ Head(q) \in A
      /\ Tail(q) \in Seq(A) /\ Len(Tail(q)) = Len(q) - 1
      /\ \A i \in 1..Len(Tail(q)) : Tail(q)[i] = q[i + 1]
  OBVIOUS
<1>2. DOMAIN q = 1..Len(q) /\ DOMAIN Tail(q) = 1..Len(Tail(q))
  BY <1>1
<1>3. \A i \in DOMAIN q : i = 1 \/ (i - 1 \in DOMAIN Tail(q) /\ Tail(q)[i - 1] = q[i])
  BY <1>1, <1>2
<1>4. 1 \in DOMAIN q /\ \A i \in DOMAIN Tail(q) : i + 1 \in DOMAIN q /\ Tail(q)[i] = q[i + 1]
  BY <1>1, <1>2
<1>5. ToSet(q) \subseteq {Head(q)} \cup ToSet(Tail(q))
  <2> SUFFICES ASSUME NEW i \in DOMAIN q PROVE q[i] \in {Head(q)} \cup ToSet(Tail(q))
    BY DEF ToSet
  <2>1. i - 1 \in DOMAIN Tail(q) => Tail(q)[i - 1] \in ToSet(Tail(q))
    BY DEF ToSet
  <2> QED BY <2>1, <1>1, <1>3
<1>6. {Head(q)} \cup ToSet(Tail(q)) \subseteq ToSet(q)
  BY <1>1, <1>4 DEF ToSet
<1> QED BY <1>1, <1>5, <1>6

-----------------------------------------------------------------------------
(***************************************************************************)
(* The script goes on: each of its operators leads from a state with        *)
(* nothing to delete to a place where there is something left to do.        *)
(***************************************************************************)
Onward(s, t) ==
  /\ LeftOK(t) /\ PlaceOK(t) /\ t.opt = s.opt
  /\ t.cur = {} /\ t.todo = <<>> /\ t.sub = "read" /\ t.stage \notin Asking

(* The first stages of the parts, and the end.                              *)
Firsts == {"probe", "ocp", "crd", "end"}

LEMMA EnterType ==
  ASSUME NEW s \in ScriptState, NEW stage \in Stages
  PROVE  /\ Enter(s, stage) \in ScriptState
         /\ Enter(s, stage).stage = stage /\ Enter(s, stage).sub = "read" /\ Enter(s, stage).cur = {}
         /\ Enter(s, stage).opt = s.opt /\ Enter(s, stage).parts = s.parts /\ Enter(s, stage).res = s.res
         /\ Enter(s, stage).spaces = s.spaces /\ Enter(s, stage).todo = s.todo
         /\ Enter(s, stage).status = s.status /\ Enter(s, stage).failed = s.failed
         /\ Enter(s, stage).result = s.result
  BY DEF Enter, ScriptState, Subs

LEMMA BeginPartOK ==
  ASSUME NEW s, LeftOK(s), s.todo = <<>>
  PROVE  Onward(s, BeginPart(s)) /\ BeginPart(s).stage \in Firsts
<1> DEFINE t == BeginPart(s)
<1>0. s \in ScriptState /\ s.parts \in Seq({"probe", "ocp", "crd"})
  BY DEF LeftOK, ScriptState
<1>1. CASE s.parts # <<>>
  <2> DEFINE first == Head(s.parts)
             e == Enter(s, first)
  <2>1. /\ first \in {"probe", "ocp", "crd"} /\ Tail(s.parts) \in Seq({"probe", "ocp", "crd"})
        /\ ToSet(s.parts) = {first} \cup ToSet(Tail(s.parts))
    BY <1>0, <1>1, HeadAndTail
  <2>2. first \in Stages
    BY <2>1 DEF Stages
  <2>3. /\ e \in ScriptState /\ e.stage = first /\ e.sub = "read" /\ e.cur = {}
        /\ e.opt = s.opt /\ e.parts = s.parts /\ e.res = s.res /\ e.todo = s.todo /\ e.result = s.result
    BY <1>0, <2>2, EnterType
  <2> HIDE DEF e
  <2>4. t = [e EXCEPT !.parts = Tail(@), !.status = FALSE]
    BY <1>1 DEF BeginPart, e
  <2> HIDE DEF t, first
  <2>5. /\ t \in ScriptState /\ t.stage = first /\ t.sub = "read" /\ t.cur = {}
        /\ t.opt = s.opt /\ t.parts = Tail(s.parts) /\ t.res = s.res /\ t.todo = <<>>
    BY <2>1, <2>3, <2>4 DEF ScriptState
  <2>6. LeftOK(t)
    BY <2>1, <2>5 DEF LeftOK
  <2>7. PlaceOK(t)
    BY <2>1, <2>5 DEF LeftOK, PlaceOK, Asking, Loops, HelmStages, ChartStages, OpStages
  <2> QED BY <2>1, <2>5, <2>6, <2>7 DEF Onward, Asking, Firsts, t
<1>2. CASE s.parts = <<>>
  <2> DEFINE e == Enter(s, "end")
             verdict == IF s.failed THEN "failed" ELSE "success"
  <2>1. "end" \in Stages /\ verdict \in Results
    BY DEF Stages, Results
  <2>2. /\ e \in ScriptState /\ e.stage = "end" /\ e.sub = "read" /\ e.cur = {}
        /\ e.opt = s.opt /\ e.res = s.res /\ e.todo = s.todo
    BY <1>0, <2>1, EnterType
  <2> HIDE DEF e, verdict
  <2>3. t = [e EXCEPT !.stage = "end", !.result = verdict, !.parts = <<>>]
    BY <1>2 DEF BeginPart, Exit, e, verdict
  <2> HIDE DEF t
  <2>4. /\ t \in ScriptState /\ t.stage = "end" /\ t.sub = "read" /\ t.cur = {}
        /\ t.opt = s.opt /\ t.parts = <<>> /\ t.res = s.res /\ t.todo = <<>>
    <3>1. <<>> \in Seq({"probe", "ocp", "crd"})
      OBVIOUS
    <3> QED BY <2>1, <2>2, <2>3, <3>1 DEF ScriptState
  <2>5. ToSet(<<>>) = {}
    BY DEF ToSet
  <2>6. LeftOK(t)
    BY <2>4, <2>5 DEF LeftOK
  <2>7. PlaceOK(t)
    BY <2>4 DEF PlaceOK, Asking, Loops, HelmStages, ChartStages, OpStages
  <2> QED BY <2>4, <2>6, <2>7 DEF Onward, Asking, Firsts, t
<1> QED BY <1>1, <1>2

LEMMA EndPartOK ==
  ASSUME NEW s, LeftOK(s), s.todo = <<>>
  PROVE  Onward(s, EndPart(s)) /\ EndPart(s).stage \in Firsts
<1> DEFINE e == [s EXCEPT !.failed = @ \/ s.status]
<1>1. s \in ScriptState
  BY DEF LeftOK
<1>2. /\ e \in ScriptState /\ e.opt = s.opt /\ e.parts = s.parts /\ e.res = s.res /\ e.todo = s.todo
  BY <1>1 DEF ScriptState
<1> HIDE DEF e
<1>3. LeftOK(e)
  BY <1>2 DEF LeftOK
<1>4. Onward(e, BeginPart(e)) /\ BeginPart(e).stage \in Firsts
  BY <1>2, <1>3, BeginPartOK
<1>5. EndPart(s) = BeginPart(e)
  BY DEF EndPart, e
<1> QED BY <1>2, <1>4, <1>5 DEF Onward

LEMMA NextResourceOK ==
  ASSUME NEW s, LeftOK(s), s.todo = <<>>
  PROVE  Onward(s, NextResource(s)) /\ NextResource(s).stage \in Firsts
<1> DEFINE e == Enter(s, "probe")
           t == NextResource(s)
<1>1. s \in ScriptState /\ s.res \in Seq(Resources)
  BY DEF LeftOK, ScriptState
<1>2. CASE Len(s.res) > 1
  <2>1. s.res # <<>>
    BY <1>2
  <2>2. /\ Tail(s.res) \in Seq(Resources) /\ ToSet(Tail(s.res)) \subseteq ToSet(s.res)
        /\ Len(Tail(s.res)) = Len(s.res) - 1 /\ Len(s.res) \in Nat
    BY <1>1, <2>1, HeadAndTail
  <2>3. Tail(s.res) # <<>>
    <3> DEFINE n == Len(s.res)
               q == Tail(s.res)
    <3>1. n \in Nat /\ n > 1 /\ Len(q) = n - 1
      BY <1>2, <2>2
    <3>2. Len(<<>>) = 0
      OBVIOUS
    <3> HIDE DEF n, q
    <3>3. q # <<>>
      BY <3>1, <3>2
    <3> QED BY <3>3 DEF q
  <2>4. /\ e \in ScriptState /\ e.stage = "probe" /\ e.sub = "read" /\ e.cur = {}
        /\ e.opt = s.opt /\ e.parts = s.parts /\ e.res = s.res /\ e.todo = s.todo
    BY <1>1, EnterType DEF Stages
  <2> HIDE DEF e
  <2>5. t = [e EXCEPT !.res = Tail(@)]
    BY <1>2 DEF NextResource, e
  <2> HIDE DEF t
  <2>6. /\ t \in ScriptState /\ t.stage = "probe" /\ t.sub = "read" /\ t.cur = {}
        /\ t.opt = s.opt /\ t.parts = s.parts /\ t.res = Tail(s.res) /\ t.todo = <<>>
    BY <2>2, <2>4, <2>5 DEF ScriptState
  <2>7. LeftOK(t)
    BY <2>2, <2>3, <2>6 DEF LeftOK
  <2>8. PlaceOK(t)
    BY <2>3, <2>6 DEF PlaceOK, Asking, Loops, HelmStages, ChartStages, OpStages
  <2> QED BY <2>6, <2>7, <2>8 DEF Onward, Asking, Firsts, t
<1>3. CASE ~(Len(s.res) > 1)
  BY <1>3, EndPartOK DEF NextResource
<1> QED BY <1>2, <1>3

(* Into a stage whose conditions are there.                                 *)
LEMMA EnterOK ==
  ASSUME NEW s, LeftOK(s), s.todo = <<>>, NEW stage \in Stages \ Asking,
         stage \in {"probe", "spaces", "names"} => s.res # <<>>,
         stage \in {"names"} \cup ChartStages => s.spaces # <<>>,
         stage \in OpStages => s.opt.op,
         stage \in {"subscription", "csv"} => ocp,
         stage = "crd" => s.opt.crd,
         stage \in ChartStages => \A ns \in ToSet(s.spaces) : HasChart(ns)
  PROVE  Onward(s, Enter(s, stage))
<1> DEFINE t == Enter(s, stage)
<1>1. s \in ScriptState
  BY DEF LeftOK
<1>2. /\ t \in ScriptState /\ t.stage = stage /\ t.sub = "read" /\ t.cur = {}
      /\ t.opt = s.opt /\ t.parts = s.parts /\ t.res = s.res /\ t.todo = s.todo /\ t.spaces = s.spaces
  BY <1>1, EnterType
<1> HIDE DEF t
<1>3. LeftOK(t)
  BY <1>2 DEF LeftOK
<1>4. PlaceOK(t)
  BY <1>2 DEF PlaceOK
<1> QED BY <1>2, <1>3, <1>4 DEF Onward, t

LEMMA VisitOK ==
  ASSUME NEW s, LeftOK(s), s.todo = <<>>, NEW spaces \in Seq(Columns), NEW after, Onward(s, after),
         NEW stage \in {"names", "tvm"},
         stage = "names" => s.res # <<>>,
         stage = "tvm" => s.opt.op /\ \A ns \in ToSet(spaces) : HasChart(ns),
         spaces = <<>> => after.stage \notin {"names"} \cup ChartStages
  PROVE  Onward(s, Visit(s, spaces, stage, after))
<1> DEFINE t == Visit(s, spaces, stage, after)
<1>1. s \in ScriptState
  BY DEF LeftOK
<1>2. CASE spaces # <<>>
  <2> DEFINE e == Enter(s, stage)
             q == [s EXCEPT !.spaces = spaces]
  <2>1. /\ q \in ScriptState /\ q.opt = s.opt /\ q.parts = s.parts /\ q.res = s.res /\ q.todo = s.todo
        /\ q.spaces = spaces
    BY <1>1 DEF ScriptState
  <2>2. t = Enter(q, stage)
    BY <1>1, <1>2 DEF Visit, Enter, ScriptState
  <2> HIDE DEF t, q
  <2>3. LeftOK(q)
    BY <2>1 DEF LeftOK
  <2>4. stage \in Stages \ Asking /\ stage \notin {"probe", "spaces", "subscription", "csv", "crd"}
    BY DEF Stages, Asking
  <2>5. Onward(q, Enter(q, stage))
    BY <1>2, <2>1, <2>3, <2>4, EnterOK DEF OpStages, ChartStages, HelmStages
  <2> QED BY <2>1, <2>2, <2>5 DEF Onward, t
<1>3. CASE spaces = <<>>
  <2>1. /\ after \in ScriptState /\ t = [after EXCEPT !.spaces = spaces]
    BY <1>3 DEF Visit, Onward, LeftOK
  <2> HIDE DEF t
  <2>2. /\ t \in ScriptState /\ t.spaces = spaces /\ t.opt = after.opt /\ t.parts = after.parts
        /\ t.res = after.res /\ t.todo = after.todo /\ t.cur = after.cur /\ t.stage = after.stage
        /\ t.sub = after.sub /\ t.result = after.result
    BY <2>1 DEF ScriptState
  <2>3. LeftOK(t)
    BY <2>2 DEF LeftOK, Onward
  <2>4. PlaceOK(t)
    BY <1>3, <2>2 DEF PlaceOK, Onward
  <2> QED BY <2>2, <2>3, <2>4 DEF Onward, t
<1> QED BY <1>2, <1>3

(* A stage has deleted what it listed.                                      *)
LEMMA LeaveOK ==
  ASSUME NEW s, LeftOK(s), PlaceOK(s), s.todo = <<>>, s.stage \in Deleting
  PROVE  Onward(s, Leave(s))
<1>1. s \in ScriptState /\ s.spaces \in Seq(Columns)
  BY DEF LeftOK, ScriptState
<1>2. s.stage \in {"names"} \cup ChartStages =>
        /\ Tail(s.spaces) \in Seq(Columns)
        /\ ToSet(Tail(s.spaces)) \subseteq ToSet(s.spaces)
  BY <1>1, HeadAndTail DEF PlaceOK
<1>3. CASE s.stage = "names"
  <2>1. Onward(s, NextResource(s)) /\ NextResource(s).stage \notin {"names"} \cup ChartStages
    BY NextResourceOK DEF Firsts, ChartStages, HelmStages
  <2>2. s.res # <<>> /\ Tail(s.spaces) \in Seq(Columns)
    BY <1>2, <1>3 DEF PlaceOK
  <2>3. Onward(s, Visit(s, Tail(s.spaces), "names", NextResource(s)))
    BY <2>1, <2>2, VisitOK
  <2> QED BY <1>3, <2>3 DEF Leave
<1>4. CASE s.stage = "cron"
  <2>1. Onward(s, EndPart(s)) /\ EndPart(s).stage \notin {"names"} \cup ChartStages
    BY EndPartOK DEF Firsts, ChartStages, HelmStages
  <2>2. s.opt.op /\ Tail(s.spaces) \in Seq(Columns) /\ \A ns \in ToSet(Tail(s.spaces)) : HasChart(ns)
    BY <1>2, <1>4 DEF PlaceOK, ChartStages, OpStages
  <2>3. Onward(s, Visit(s, Tail(s.spaces), "tvm", EndPart(s)))
    BY <2>1, <2>2, VisitOK
  <2> QED BY <1>4, <2>3 DEF Leave
<1>5. CASE s.stage = "crd"
  BY <1>5, EndPartOK DEF Leave
<1>6. CASE s.stage \in {"subscription", "csv", "tvm", "manager", "operator"}
  <2> DEFINE stage == After[s.stage]
  <2>1. /\ stage \in {"csv", "charts"} \cup ChartStages /\ stage # "tvm"
        /\ stage = "csv" => s.stage = "subscription"
        /\ stage \in ChartStages => s.stage \in ChartStages
    BY <1>6 DEF After, ChartStages, HelmStages
  <2>2. Leave(s) = Enter(s, stage)
    BY <1>6 DEF Leave
  <2> HIDE DEF stage
  <2>3. stage \in Stages \ Asking /\ stage \in OpStages /\ stage \notin {"probe", "spaces", "names", "subscription", "crd"}
    BY <2>1 DEF Stages, Asking, OpStages, ChartStages, HelmStages
  <2>4. s.opt.op /\ (stage = "csv" => ocp)
    BY <1>6, <2>1 DEF PlaceOK, OpStages, ChartStages, HelmStages
  <2>5. stage \in ChartStages => s.spaces # <<>> /\ \A ns \in ToSet(s.spaces) : HasChart(ns)
    BY <2>1 DEF PlaceOK
  <2>6. Onward(s, Enter(s, stage))
    BY <2>3, <2>4, <2>5, EnterOK
  <2> QED BY <2>2, <2>6
<1> QED BY <1>3, <1>4, <1>5, <1>6 DEF Deleting, Loops, HelmStages

(* The next name is taken up, or the stage is left.                         *)
LEMMA ProceedOK ==
  ASSUME NEW s, LeftOK(s), PlaceOK(s), s.stage \in Deleting
  PROVE  /\ LeftOK(Proceed(s)) /\ PlaceOK(Proceed(s)) /\ ReadOK(Proceed(s)) /\ Proceed(s).opt = s.opt
         /\ Proceed(s).stage \notin Asking
         /\ s.todo = <<>> => Onward(s, Proceed(s))
         /\ s.todo # <<>> =>
              /\ Proceed(s) = [s EXCEPT !.cur = Head(s.todo), !.todo = Tail(s.todo),
                                        !.sub = IF s.stage \in Loops THEN "delete" ELSE "uninstall"]
              /\ Names(Proceed(s)) = ToSet(s.todo)
<1> DEFINE t == Proceed(s)
<1>1. s \in ScriptState /\ s.todo \in Seq(SUBSET Object)
  BY DEF LeftOK, ScriptState
<1>2. CASE s.todo # <<>>
  <2> DEFINE sub == IF s.stage \in Loops THEN "delete" ELSE "uninstall"
  <2>1. /\ Head(s.todo) \in SUBSET Object /\ Tail(s.todo) \in Seq(SUBSET Object)
        /\ ToSet(s.todo) = {Head(s.todo)} \cup ToSet(Tail(s.todo))
    BY <1>1, <1>2, HeadAndTail
  <2>2. /\ sub \in Subs /\ sub \in {"delete", "uninstall"}
        /\ sub = "delete" => s.stage \in Loops
        /\ sub = "uninstall" => s.stage \in HelmStages
    BY DEF Subs, Deleting
  <2>3. t = [s EXCEPT !.cur = Head(s.todo), !.todo = Tail(s.todo), !.sub = sub]
    BY <1>1, <1>2 DEF Proceed, ScriptState
  <2> HIDE DEF sub, t
  <2>4. /\ t \in ScriptState /\ t.opt = s.opt /\ t.parts = s.parts /\ t.res = s.res
        /\ t.spaces = s.spaces /\ t.stage = s.stage /\ t.sub = sub /\ t.result = s.result
        /\ t.cur = Head(s.todo) /\ t.todo = Tail(s.todo)
    BY <1>1, <2>1, <2>2, <2>3 DEF ScriptState
  <2>5. LeftOK(t)
    BY <2>4 DEF LeftOK
  <2>6. PlaceOK(t)
    BY <2>2, <2>4 DEF PlaceOK
  <2>7. Names(t) = ToSet(s.todo)
    BY <2>1, <2>4 DEF Names
  <2>8. ReadOK(t)
    BY <2>2, <2>4 DEF ReadOK
  <2>9. t.stage \notin Asking
    BY <2>4 DEF Deleting, Loops, HelmStages, Asking
  <2> QED BY <1>2, <2>3, <2>4, <2>5, <2>6, <2>7, <2>8, <2>9 DEF t, sub
<1>3. CASE s.todo = <<>>
  <2> DEFINE q == [s EXCEPT !.cur = {}]
  <2>1. /\ q \in ScriptState /\ q.opt = s.opt /\ q.parts = s.parts /\ q.res = s.res /\ q.spaces = s.spaces
        /\ q.stage = s.stage /\ q.result = s.result /\ q.todo = s.todo /\ q.cur = {} /\ q.sub = s.sub
    BY <1>1 DEF ScriptState
  <2>2. t = Leave(q)
    BY <1>3 DEF Proceed
  <2> HIDE DEF q, t
  <2>3. LeftOK(q)
    BY <2>1 DEF LeftOK
  <2>4. PlaceOK(q)
    BY <2>1 DEF PlaceOK
  <2>5. Onward(q, t)
    BY <1>3, <2>1, <2>2, <2>3, <2>4, LeaveOK
  <2>6. Onward(s, t)
    BY <2>1, <2>5 DEF Onward
  <2> QED BY <1>3, <2>6 DEF Onward, ReadOK, t
<1> QED BY <1>2, <1>3

-----------------------------------------------------------------------------
(***************************************************************************)
(* The cluster.                                                             *)
(***************************************************************************)
PhasesOK == phase \in [Object -> Phases] /\ held \subseteq {o \in Object : Visible(o)}

(* What a deletion or a patch of o does: to o, and if it is a CRD to its    *)
(* objects, and to nothing else.                                            *)
Touches(o) ==
  /\ PhasesOK'
  /\ \A p \in Object : /\ phase'[p] = phase[p] \/ phase'[p] \in {"dying", "gone", "orphan"}
                       /\ phase[p] \in {"gone", "orphan"} /\ p # o => phase'[p] = phase[p]
                       /\ phase'[p] = "dying" => p = o \/ phase[p] = "dying"
                       /\ p = o \/ p \in Instances(o) \/ (phase'[p] = phase[p] /\ (p \in held <=> p \in held'))

LEMMA VanishingTouches ==
  ASSUME PhasesOK, NEW o \in Object, Vanishes(o)
  PROVE  Touches(o) /\ phase'[o] = "gone" /\ \A p \in Instances(o) : p # o => phase'[p] = "orphan"
<1>1. phase' = [p \in Object |-> IF p = o THEN "gone"
                                 ELSE IF p \in Instances(o) THEN "orphan" ELSE phase[p]]
  BY DEF Vanishes
<1>2. held' = held \ ({o} \cup Instances(o))
  BY DEF Vanishes
<1>3. phase' \in [Object -> Phases]
  BY <1>1 DEF PhasesOK, Phases
<1>4. held' \subseteq {p \in Object : phase'[p] \in {"live", "dying"}}
  BY <1>1, <1>2 DEF PhasesOK, Visible
<1>5. PhasesOK'
  BY <1>3, <1>4 DEF PhasesOK, Visible
<1>6. \A p \in Instances(o) : p \in Object /\ phase[p] \in {"live", "dying"}
  BY DEF Instances, Visible
<1>7. /\ phase'[o] = "gone"
      /\ \A p \in Object : p \in Instances(o) /\ p # o => phase'[p] = "orphan"
      /\ \A p \in Object : p \notin Instances(o) /\ p # o => phase'[p] = phase[p] /\ (p \in held <=> p \in held')
  BY <1>1, <1>2
<1> HIDE DEF PhasesOK
<1>8. Touches(o)
  BY <1>5, <1>6, <1>7 DEF Touches
<1> QED BY <1>6, <1>7, <1>8

LEMMA DeletionTouches ==
  ASSUME PhasesOK, NEW o \in Object, Visible(o), Deleted(o)
  PROVE  /\ Touches(o)
         /\ phase'[o] = "dying" \/ (phase'[o] = "gone" /\ Vanishes(o) /\ Instances(o) = {} /\ o \notin held)
         /\ phase'[o] = "dying" => phase' = [phase EXCEPT ![o] = "dying"]
<1>1. CASE o \in held \/ Instances(o) # {}
  <2>1. phase' = [phase EXCEPT ![o] = "dying"] /\ held' = held \cup {o}
    BY <1>1 DEF Deleted
  <2>2. PhasesOK'
    BY <2>1 DEF PhasesOK, Phases, Visible
  <2> QED BY <2>1, <2>2 DEF Touches, PhasesOK
<1>2. CASE ~(o \in held \/ Instances(o) # {})
  BY <1>2, VanishingTouches DEF Deleted
<1> QED BY <1>1, <1>2

(* Only a CRD has objects.                                                  *)
LEMMA InstancesOfCrds ==
  /\ \A o \in Object : o.kind # "CRD" => Instances(o) = {}
  /\ \A crd \in Object : \A o \in Instances(crd) : o \in Object /\ o.kind \notin {"CRD", "Release"} /\ Visible(o)
  BY KindAssumption DEF Instances

(* What has ever been there stays so; what is selected stays selected.      *)
LEMMA TouchedAreKnown ==
  ASSUME PhasesOK, NEW o \in Object, Touches(o)
  PROVE  Known \subseteq Known'
  BY DEF Touches, PhasesOK, Known, Ever, Phases

LEMMA SelectedStays ==
  ASSUME Known \subseteq Known', ocp' = ocp, sc'.opt = sc.opt, NEW o \in Object, Selected(o)
  PROVE  Selected(o)'
  BY DEF Selected, SelectedAmong, Known

(* The script may go on when more is known.                                 *)
LEMMA PlacesStay ==
  ASSUME Known \subseteq Known', ocp' = ocp, sc'.opt = sc.opt,
         LeftOK(sc'), PlaceOK(sc'), NamesOK(sc')
  PROVE  PlaceOK(sc)' /\ NamesOK(sc)'
<1>1. \A ns : HasChart(ns) => HasChart(ns)'
  BY DEF HasChart
<1>2. PlaceOK(sc)'
  BY <1>1 DEF PlaceOK
<1>3. \A o \in Object : Ever(o) => Ever(o)'
  BY DEF Known
<1>4. \A o \in Object : Selected(o) => Selected(o)'
  BY SelectedStays
<1>5. \A S \in Names(sc') : S \subseteq Object
  BY DEF LeftOK, ScriptState, Names, ToSet
<1>6. NamesOK(sc)'
  BY <1>3, <1>4, <1>5 DEF NamesOK, Names
<1> QED BY <1>2, <1>6

-----------------------------------------------------------------------------
(***************************************************************************)
(* The invariant of the script: what each of its calls leaves to do.        *)
(***************************************************************************)
Well(t) ==
  /\ LeftOK(t) /\ PlaceOK(t) /\ ReadOK(t) /\ NamesOK(t)
  /\ t.opt = sc.opt /\ t.stage \notin Asking

LEMMA OnwardIsWell ==
  ASSUME NEW t, Onward(sc, t)
  PROVE  Well(t)
<1>1. t.cur = {} /\ t.todo = <<>> /\ ToSet(<<>>) = {}
  BY DEF Onward, ToSet
<1>2. Names(t) = {{}}
  BY <1>1 DEF Names
<1>3. NamesOK(t)
  BY <1>2 DEF NamesOK
<1> QED BY <1>1, <1>3 DEF Onward, Well, ReadOK

(* What a listing finds has been selected.                                  *)
LEMMA ListedIsSelected ==
  ASSUME ScriptInv, NEW stage \in Deleting, sc.stage = stage, NEW o \in Listed(stage)
  PROVE  /\ o \in Object /\ Ever(o) /\ Selected(o)
         /\ stage \in Loops \ {"crd"} => o.kind \notin {"CRD", "Release"}
         /\ stage = "crd" => o.kind = "CRD"
         /\ stage \in HelmStages => o.kind = "Release" /\ o.mark = stage /\ o.ns = Space
<1>1. o \in Object /\ Visible(o) /\ Ever(o) /\ o \in Known
  BY DEF Listed, Visible, Ever, Known
<1>2. LeftOK(sc) /\ PlaceOK(sc) /\ sc \in ScriptState
  BY DEF ScriptInv, LeftOK
<1>3. CASE stage = "names"
  <2>1. o.kind = Kind
    BY <1>3 DEF Listed
  <2>2. sc.res \in Seq(Resources) /\ sc.res # <<>>
    BY <1>2, <1>3 DEF ScriptState, PlaceOK
  <2>3. Kind \in ToSet(sc.res)
    BY <2>2, HeadAndTail DEF Kind
  <2>4. o.kind \in ToSet(sc.opt.res) /\ o.kind \notin {"CRD", "Release"}
    BY <1>2, <2>1, <2>3 DEF LeftOK, Custom
  <2> QED BY <1>1, <1>3, <2>4 DEF Selected, SelectedAmong, HelmStages
<1>4. CASE stage \in {"subscription", "csv"}
  <2>1. o.kind \in {"Subscription", "CSV"} /\ o.ns = OcpNs /\ o.mark = "tvk"
    BY <1>4 DEF Listed
  <2>2. sc.opt.op /\ ocp
    BY <1>2, <1>4 DEF PlaceOK, OpStages
  <2> QED BY <1>1, <1>4, <2>1, <2>2 DEF Selected, SelectedAmong, HelmStages
<1>5. CASE stage \in ChartStages
  <2>1. sc.spaces \in Seq(Columns) /\ sc.spaces # <<>>
    BY <1>2, <1>5 DEF ScriptState, PlaceOK
  <2>2. Space \in ToSet(sc.spaces)
    BY <2>1, HeadAndTail DEF Space
  <2>3. sc.opt.op /\ HasChart(Space)
    BY <1>2, <1>5, <2>2 DEF PlaceOK, OpStages
  <2>4. /\ o.ns = Space
        /\ stage = "tvm" => o.kind = "TriliovaultManager"
        /\ stage = "cron" => o.kind = "CronJob" /\ o.mark = "tvk"
        /\ stage \in HelmStages => o.kind = "Release" /\ o.mark = stage
    BY <1>5 DEF Listed, TvkCron, ChartStages, HelmStages
  <2>5. \E r \in {p \in Object : Ever(p)} : r.kind = "Release" /\ r.mark # "other" /\ r.ns = o.ns
    BY <2>3, <2>4 DEF HasChart, Known
  <2>6. \/ o.kind = "TriliovaultManager"
        \/ o.kind = "Release" /\ o.mark \in {"manager", "operator"}
        \/ o.kind = "CronJob" /\ o.mark = "tvk"
    BY <1>5, <2>4 DEF ChartStages, HelmStages
  <2>7. Selected(o)
    BY <2>3, <2>5, <2>6 DEF Selected, SelectedAmong
  <2>8. stage # "crd" /\ (stage \in Loops \ {"crd"} => o.kind \notin {"CRD", "Release"})
    BY <1>5, <2>4 DEF ChartStages, HelmStages, Loops
  <2> QED BY <1>1, <2>4, <2>7, <2>8
<1>6. CASE stage = "crd"
  <2>1. o.kind = "CRD" /\ o.mark = "tvk" /\ sc.opt.crd
    BY <1>2, <1>6 DEF Listed, PlaceOK
  <2> QED BY <1>1, <1>6, <2>1 DEF Selected, SelectedAmong, HelmStages
<1> QED BY <1>3, <1>4, <1>5, <1>6 DEF Deleting, Loops, ChartStages, HelmStages

(* A stage has made its list.                                               *)
LEMMA ListingIsWell ==
  ASSUME ScriptInv, NEW stage \in Deleting, At(stage, "read"), NEW S \in SUBSET Listed(stage)
  PROVE  Well(Proceed([sc EXCEPT !.todo = Queue(stage, S)]))
<1> DEFINE q == Queue(stage, S)
           s == [sc EXCEPT !.todo = q]
           t == Proceed(s)
<1>1. S \in SUBSET Object
  BY DEF Listed
<1>2. q \in Seq(SUBSET Object) /\ \A N \in ToSet(q) : N \subseteq S
  <2>1. /\ q \in Seq(SUBSET Object)
        /\ ToSet(q) = IF stage \in {"names", "crd"} THEN {{o} : o \in S}
                      ELSE IF S = {} /\ stage # "tvm" THEN {} ELSE {S}
    BY <1>1, QueueType
  <2> HIDE DEF q
  <2> QED BY <2>1
<1>3. LeftOK(sc) /\ PlaceOK(sc) /\ sc \in ScriptState /\ sc.stage = stage
  BY DEF ScriptInv, LeftOK, At
<1> HIDE DEF q
<1>4. /\ s \in ScriptState /\ s.opt = sc.opt /\ s.parts = sc.parts /\ s.res = sc.res /\ s.spaces = sc.spaces
      /\ s.stage = stage /\ s.result = sc.result /\ s.sub = sc.sub /\ s.cur = sc.cur /\ s.todo = q
  BY <1>2, <1>3 DEF ScriptState
<1> HIDE DEF s
<1>5. LeftOK(s)
  BY <1>3, <1>4 DEF LeftOK
<1>6. PlaceOK(s)
  BY <1>3, <1>4 DEF PlaceOK
<1>7. CASE q = <<>>
  <2>1. Onward(s, t)
    BY <1>4, <1>5, <1>6, <1>7, ProceedOK
  <2>2. Onward(sc, t)
    BY <1>4, <2>1 DEF Onward
  <2> QED BY <2>2, OnwardIsWell DEF s, q
<1>8. CASE q # <<>>
  <2>1. /\ LeftOK(t) /\ PlaceOK(t) /\ ReadOK(t) /\ t.opt = sc.opt /\ t.stage \notin Asking
        /\ Names(t) = ToSet(q)
        /\ t = [s EXCEPT !.cur = Head(s.todo), !.todo = Tail(s.todo),
                         !.sub = IF s.stage \in Loops THEN "delete" ELSE "uninstall"]
    BY <1>4, <1>5, <1>6, <1>8, ProceedOK
  <2>2. t.stage = stage /\ t.spaces = sc.spaces
    BY <1>4, <2>1 DEF ScriptState
  <2> HIDE DEF t
  <2>3. NamesOK(t)
    BY <1>2, <1>3, <2>1, <2>2, ListedIsSelected DEF NamesOK, Space
  <2> QED BY <2>1, <2>3 DEF Well, t, s, q
<1> QED BY <1>7, <1>8

(* A name is dealt with.                                                    *)
LEMMA NextIsWell ==
  ASSUME ScriptInv, sc.sub # "read", NEW s, s = sc \/ s = [sc EXCEPT !.status = TRUE]
  PROVE  Well(Proceed(s))
<1> DEFINE t == Proceed(s)
<1>1. LeftOK(sc) /\ PlaceOK(sc) /\ NamesOK(sc) /\ sc \in ScriptState
  BY DEF ScriptInv, LeftOK
<1>2. /\ s \in ScriptState /\ s.opt = sc.opt /\ s.parts = sc.parts /\ s.res = sc.res /\ s.spaces = sc.spaces
      /\ s.stage = sc.stage /\ s.result = sc.result /\ s.sub = sc.sub /\ s.cur = sc.cur /\ s.todo = sc.todo
  BY <1>1 DEF ScriptState
<1>3. LeftOK(s)
  BY <1>1, <1>2 DEF LeftOK
<1>4. PlaceOK(s)
  BY <1>1, <1>2 DEF PlaceOK
<1>5. s.stage \in Deleting
  BY <1>1, <1>2 DEF ScriptState, Subs, PlaceOK, Deleting
<1>6. CASE s.todo = <<>>
  <2>1. Onward(s, t)
    BY <1>3, <1>4, <1>5, <1>6, ProceedOK
  <2>2. Onward(sc, t)
    BY <1>2, <2>1 DEF Onward
  <2> QED BY <2>2, OnwardIsWell
<1>7. CASE s.todo # <<>>
  <2>1. /\ LeftOK(t) /\ PlaceOK(t) /\ ReadOK(t) /\ t.opt = sc.opt /\ t.stage \notin Asking
        /\ Names(t) = ToSet(sc.todo)
        /\ t = [s EXCEPT !.cur = Head(s.todo), !.todo = Tail(s.todo),
                         !.sub = IF s.stage \in Loops THEN "delete" ELSE "uninstall"]
    BY <1>2, <1>3, <1>4, <1>5, <1>7, ProceedOK
  <2>2. t.stage = sc.stage /\ t.spaces = sc.spaces
    BY <1>2, <2>1 DEF ScriptState
  <2> HIDE DEF t
  <2>3. Names(t) \subseteq Names(sc)
    BY <2>1 DEF Names
  <2>4. NamesOK(t)
    BY <1>1, <2>2, <2>3 DEF NamesOK
  <2> QED BY <2>1, <2>4 DEF Well, t
<1> QED BY <1>6, <1>7

(* The same name goes on to its next call.                                  *)
LEMMA SubIsWell ==
  ASSUME ScriptInv, sc.sub # "read", NEW sub \in {"wait", "patch", "get"}, sc.stage \in Loops
  PROVE  Well([sc EXCEPT !.sub = sub])
<1> DEFINE t == [sc EXCEPT !.sub = sub]
<1>1. LeftOK(sc) /\ PlaceOK(sc) /\ NamesOK(sc) /\ sc \in ScriptState
  BY DEF ScriptInv, LeftOK
<1>2. /\ t \in ScriptState /\ t.opt = sc.opt /\ t.parts = sc.parts /\ t.res = sc.res /\ t.spaces = sc.spaces
      /\ t.stage = sc.stage /\ t.result = sc.result /\ t.sub = sub /\ t.cur = sc.cur /\ t.todo = sc.todo
  BY <1>1 DEF ScriptState, Subs
<1> HIDE DEF t
<1>3. LeftOK(t) /\ ReadOK(t)
  BY <1>1, <1>2 DEF LeftOK, ReadOK
<1>4. PlaceOK(t)
  BY <1>1, <1>2 DEF PlaceOK
<1>5. NamesOK(t)
  BY <1>1, <1>2 DEF NamesOK, Names
<1>6. t.stage \notin Asking
  BY <1>2 DEF Loops, Asking
<1> QED BY <1>2, <1>3, <1>4, <1>5, <1>6 DEF Well, t

(* The calls that look.                                                     *)
LEMMA LookIsWell ==
  ASSUME ScriptInv, Look \/ LookFails
  PROVE  Well(sc') /\ sc.stage \notin Asking \cup {"end"} /\ sc.sub = "read"
<1>0. LeftOK(sc) /\ PlaceOK(sc) /\ sc \in ScriptState /\ (sc.sub = "read" => sc.todo = <<>> /\ sc.cur = {})
  BY DEF ScriptInv, LeftOK, ReadOK
<1>1. CASE At("probe", "read")
  <2>1. sc.todo = <<>> /\ sc.stage = "probe" /\ sc.res # <<>> /\ sc.sub = "read"
    BY <1>0, <1>1 DEF At, PlaceOK
  <2>2. sc' = Enter(sc, "spaces") \/ sc' = NextResource(sc)
    BY <2>1 DEF Look, LookFails, At, Loops
  <2>3. Onward(sc, Enter(sc, "spaces"))
    BY <1>0, <2>1, EnterOK DEF Stages, Asking, OpStages, ChartStages, HelmStages
  <2>4. Onward(sc, NextResource(sc))
    BY <1>0, <2>1, NextResourceOK
  <2> QED BY <2>1, <2>2, <2>3, <2>4, OnwardIsWell DEF Asking
<1>2. CASE At("spaces", "read")
  <2> DEFINE S == {p \in Object : Visible(p) /\ p.kind = Kind}
             list == SetToSeq({FirstColumn(o) : o \in S})
  <2>1. sc.todo = <<>> /\ sc.stage = "spaces" /\ sc.res # <<>> /\ sc.sub = "read"
    BY <1>0, <1>2 DEF At, PlaceOK
  <2>2. sc' = Visit(sc, list, "names", NextResource(sc)) \/ sc' = NextResource(sc)
    BY <2>1 DEF Look, LookFails, At, Loops
  <2>3. list \in Seq(Columns)
    BY ColumnsType
  <2> HIDE DEF list
  <2>4. Onward(sc, NextResource(sc)) /\ NextResource(sc).stage \notin {"names"} \cup ChartStages
    BY <1>0, <2>1, NextResourceOK DEF Firsts, ChartStages, HelmStages
  <2>5. Onward(sc, Visit(sc, list, "names", NextResource(sc)))
    BY <1>0, <2>1, <2>3, <2>4, VisitOK
  <2> QED BY <2>1, <2>2, <2>4, <2>5, OnwardIsWell DEF Asking
<1>3. CASE At("ocp", "read")
  <2>1. sc.todo = <<>> /\ sc.stage = "ocp" /\ sc.opt.op /\ sc.sub = "read"
    BY <1>0, <1>3 DEF At, PlaceOK, OpStages
  <2>2. (sc' = Enter(sc, "subscription") /\ ocp) \/ sc' = Enter(sc, "charts")
    BY <2>1 DEF Look, LookFails, At, Loops
  <2>3. ocp => Onward(sc, Enter(sc, "subscription"))
    BY <1>0, <2>1, EnterOK DEF Stages, Asking, OpStages, ChartStages, HelmStages
  <2>4. Onward(sc, Enter(sc, "charts"))
    BY <1>0, <2>1, EnterOK DEF Stages, Asking, OpStages, ChartStages, HelmStages
  <2> QED BY <2>1, <2>2, <2>3, <2>4, OnwardIsWell DEF Asking
<1>4. CASE At("charts", "read")
  <2>1. sc.todo = <<>> /\ sc.stage = "charts" /\ sc.opt.op /\ sc.sub = "read"
    BY <1>0, <1>4 DEF At, PlaceOK, OpStages
  <2>2. (\E list \in ChartSpaces : sc' = Visit(sc, list, "tvm", EndPart(sc))) \/ sc' = EndPart(sc)
    BY <2>1 DEF Look, LookFails, At, Loops
  <2>3. Onward(sc, EndPart(sc)) /\ EndPart(sc).stage \notin {"names"} \cup ChartStages
    BY <1>0, <2>1, EndPartOK DEF Firsts, ChartStages, HelmStages
  <2>4. ASSUME NEW list \in ChartSpaces PROVE Onward(sc, Visit(sc, list, "tvm", EndPart(sc)))
    <3>1. /\ list \in Seq(Columns)
          /\ ToSet(list) = {r.ns : r \in {p \in Object : p.kind = "Release" /\ Visible(p) /\ p.mark # "other"}}
      BY ChartSpacesType
    <3>2. \A ns \in ToSet(list) : HasChart(ns)
      BY <3>1 DEF HasChart, Known, Visible, Ever
    <3> QED BY <1>0, <2>1, <2>3, <3>1, <3>2, VisitOK
  <2> QED BY <2>1, <2>2, <2>3, <2>4, OnwardIsWell DEF Asking
<1>5. ASSUME NEW stage \in Loops \cup HelmStages, At(stage, "read")
      PROVE  Well(sc') /\ sc.stage \notin Asking \cup {"end"} /\ sc.sub = "read"
  <2>1. stage \in Deleting /\ sc.stage = stage /\ sc.sub = "read"
    BY <1>5 DEF Deleting, At
  <2>2. \E S \in SUBSET Listed(stage) : sc' = Proceed([sc EXCEPT !.todo = Queue(stage, S)])
    BY <2>1 DEF Look, LookFails, At, Loops, HelmStages
  <2>3. Well(sc')
    BY <1>5, <2>1, <2>2, ListingIsWell
  <2> QED BY <2>1, <2>3 DEF Deleting, Loops, HelmStages, Asking
<1>6. \/ At("probe", "read") \/ At("spaces", "read") \/ At("ocp", "read") \/ At("charts", "read")
      \/ \E stage \in Loops \cup HelmStages : At(stage, "read")
  BY DEF Look, LookFails, HelmStages
<1> QED BY <1>1, <1>2, <1>3, <1>4, <1>5, <1>6

-----------------------------------------------------------------------------
(***************************************************************************)
(* The invariant of the script is kept.                                     *)
(***************************************************************************)

(* What a step of the script at work has to show.                           *)
LEMMA WorkKeeps ==
  ASSUME ScriptInv, sc.stage \notin Asking \cup {"end"}, Well(sc'),
         PhasesOK', Known \subseteq Known', ocp' = ocp, start' = start,
         blind' \in BOOLEAN, faults' \in 0..MaxFaults,
         \A o \in Object : o.kind = "CRD" /\ phase'[o] = "dying" => phase[o] = "dying" \/ Selected(o)
  PROVE  ScriptInv'
<1>1. sc'.opt = sc.opt /\ sc'.stage \notin Asking
  BY DEF Well
<1>2. LeftOK(sc)' /\ ReadOK(sc)' /\ ArgsOK(sc)'
  BY <1>1 DEF Well, LeftOK, ReadOK, ArgsOK, Asking
<1>3. PlaceOK(sc)' /\ NamesOK(sc)'
  BY <1>1, PlacesStay DEF Well
<1>4. \A o \in Object : Selected(o) => Selected(o)'
  BY <1>1, SelectedStays
<1>5. start # {}
  BY DEF ScriptInv, ClusterOK
<1>6. ClusterOK'
  BY <1>1, <1>4, <1>5 DEF ScriptInv, ClusterOK, PhasesOK
<1> QED BY <1>2, <1>3, <1>6 DEF ScriptInv

(* The object that is being deleted has been selected.                      *)
LEMMA NamedIsSelected ==
  ASSUME ScriptInv, NEW o \in Object, Named(o)
  PROVE  /\ Visible(o) /\ Selected(o)
         /\ sc.stage \in Loops \ {"crd"} => o.kind \notin {"CRD", "Release"}
         /\ sc.stage = "crd" => o.kind = "CRD"
         /\ sc.stage \in HelmStages => o.kind = "Release" /\ o.mark = sc.stage /\ o.ns = Space
  BY DEF ScriptInv, NamesOK, Names, Named, Space

(* The place of a name that is being deleted.                               *)
LEMMA WorkPlace ==
  ASSUME ScriptInv, sc.sub # "read"
  PROVE  /\ sc.stage \in Deleting /\ sc.stage \notin Asking \cup {"end"}
         /\ sc.sub # "uninstall" => sc.stage \in Loops
         /\ sc.sub = "uninstall" => sc.stage \in HelmStages
<1>1. sc.sub \in Subs
  BY DEF ScriptInv, LeftOK, ScriptState
<1> QED BY <1>1 DEF Subs, ScriptInv, PlaceOK, Deleting, Loops, HelmStages, Asking

(* The cluster as far as the script goes on.                                *)
Undisturbed == UNCHANGED <<phase, held>>

Disturbed == \E o \in Object : Named(o) /\ (Deleted(o) \/ Vanishes(o))

Released == UNCHANGED phase /\ \E o \in Object : Named(o) /\ held' = held \ {o}

LEMMA DisturbedIsSelected ==
  ASSUME ScriptInv, Undisturbed \/ Disturbed \/ Released
  PROVE  /\ PhasesOK' /\ Known \subseteq Known'
         /\ \A o \in Object : o.kind = "CRD" /\ phase'[o] = "dying" => phase[o] = "dying" \/ Selected(o)
         /\ \A o \in Object : phase'[o] = phase[o] \/ phase'[o] \in {"dying", "gone", "orphan"}
         /\ \A o \in Object : \/ phase'[o] = phase[o] /\ (o \in held <=> o \in held')
                              \/ Selected(o)
                              \/ \E crd \in Object : Visible(crd) /\ o \in Instances(crd) /\ Selected(crd)
<1>1. PhasesOK
  BY DEF ScriptInv, ClusterOK, PhasesOK
<1>2. CASE Undisturbed
  BY <1>1, <1>2 DEF Undisturbed, PhasesOK, Visible, Known, Ever
<1>3. CASE Disturbed
  <2>1. PICK o \in Object : Named(o) /\ (Deleted(o) \/ Vanishes(o))
    BY <1>3 DEF Disturbed
  <2>2. Visible(o) /\ Selected(o)
    BY <2>1, NamedIsSelected
  <2>3. Touches(o)
    BY <1>1, <2>1, <2>2, DeletionTouches, VanishingTouches
  <2>4. Known \subseteq Known'
    BY <1>1, <2>3, TouchedAreKnown
  <2> QED BY <2>2, <2>3, <2>4 DEF Touches
<1>4. CASE Released
  <2>1. PICK o \in Object : Named(o) /\ held' = held \ {o}
    BY <1>4 DEF Released
  <2>2. phase' = phase
    BY <1>4 DEF Released
  <2>3. Visible(o) /\ Selected(o)
    BY <2>1, NamedIsSelected
  <2>4. PhasesOK' /\ Known \subseteq Known'
    BY <1>1, <2>1, <2>2 DEF PhasesOK, Visible, Known, Ever
  <2> QED BY <1>1, <2>1, <2>2, <2>3, <2>4 DEF PhasesOK
<1> QED BY <1>2, <1>3, <1>4

(* Each call of the script at work does one of these to the cluster.        *)
Works ==
  \/ Look \/ LookFails
  \/ DeleteAccepted \/ DeleteFails \/ WaitEnds \/ WaitTimesOut
  \/ Patch \/ PatchFails \/ GetFinds \/ GetFindsNothing
  \/ Uninstall \/ UninstallFails

LEMMA CallFailsDoes ==
  ASSUME ScriptInv, CallFails
  PROVE  (Undisturbed \/ Disturbed) /\ faults' \in 0..MaxFaults
<1>1. faults \in 0..MaxFaults /\ MaxFaults \in Nat
  BY TvkCleanupAssumption DEF ScriptInv, ClusterOK
<1> QED BY <1>1 DEF CallFails, Fault, Undisturbed, Disturbed

LEMMA WorksDo ==
  ASSUME ScriptInv, Works
  PROVE  /\ sc.stage \notin Asking \cup {"end"} /\ Well(sc')
         /\ ocp' = ocp /\ start' = start /\ blind' \in BOOLEAN /\ faults' \in 0..MaxFaults
         /\ Undisturbed \/ Disturbed \/ Released
<1>1. faults \in 0..MaxFaults /\ MaxFaults \in Nat /\ blind \in BOOLEAN
  BY TvkCleanupAssumption DEF ScriptInv, ClusterOK
<1>2. Fault => faults' \in 0..MaxFaults
  BY <1>1 DEF Fault
<1>3. CASE Look
  BY <1>1, <1>3, LookIsWell DEF Look, clusterVars, Undisturbed
<1>4. CASE LookFails
  BY <1>2, <1>4, LookIsWell DEF LookFails, Undisturbed
<1>5. CASE DeleteAccepted
  <2>1. Well(sc')
    BY <1>5, WorkPlace, SubIsWell DEF DeleteAccepted, Sub
  <2> QED BY <1>1, <1>5, <2>1, WorkPlace DEF DeleteAccepted, Disturbed
<1>6. CASE DeleteFails
  <2>1. Well(sc')
    BY <1>6, WorkPlace, SubIsWell DEF DeleteFails, Sub
  <2> QED BY <1>1, <1>6, <2>1, WorkPlace, CallFailsDoes DEF DeleteFails
<1>7. CASE WaitEnds
  <2>1. Well(sc')
    BY <1>7, NextIsWell DEF WaitEnds
  <2> QED BY <1>1, <1>7, <2>1, WorkPlace DEF WaitEnds, clusterVars, Undisturbed
<1>8. CASE WaitTimesOut
  <2>1. Well(sc')
    BY <1>8, WorkPlace, SubIsWell DEF WaitTimesOut, Sub
  <2> QED BY <1>1, <1>8, <2>1, WorkPlace DEF WaitTimesOut, clusterVars, Undisturbed
<1>9. CASE Patch
  <2>1. Well(sc')
    BY <1>9, WorkPlace, SubIsWell DEF Patch, Sub
  <2>2. Undisturbed \/ Disturbed \/ Released
    BY <1>9 DEF Patch, Undisturbed, Disturbed, Released
  <2> QED BY <1>1, <1>9, <2>1, <2>2, WorkPlace DEF Patch
<1>10. CASE PatchFails
  <2>1. Well(sc')
    BY <1>10, WorkPlace, SubIsWell DEF PatchFails, Sub
  <2> QED BY <1>1, <1>2, <1>10, <2>1, WorkPlace DEF PatchFails, Undisturbed
<1>11. CASE GetFinds
  <2>1. Well(sc')
    BY <1>11, NextIsWell DEF GetFinds
  <2> QED BY <1>1, <1>11, <2>1, WorkPlace DEF GetFinds, clusterVars, Undisturbed
<1>12. CASE GetFindsNothing
  <2>1. Well(sc')
    BY <1>12, NextIsWell DEF GetFindsNothing
  <2> QED BY <1>1, <1>2, <1>12, <2>1, WorkPlace DEF GetFindsNothing, Undisturbed
<1>13. CASE Uninstall
  <2>1. Well(sc')
    BY <1>13, NextIsWell DEF Uninstall
  <2> QED BY <1>1, <1>13, <2>1, WorkPlace DEF Uninstall, Disturbed
<1>14. CASE UninstallFails
  <2>1. Well(sc')
    BY <1>14, NextIsWell DEF UninstallFails
  <2> QED BY <1>1, <1>14, <2>1, WorkPlace, CallFailsDoes DEF UninstallFails
<1> QED BY <1>3, <1>4, <1>5, <1>6, <1>7, <1>8, <1>9, <1>10, <1>11, <1>12, <1>13, <1>14 DEF Works

LEMMA WorksKeep ==
  ASSUME ScriptInv, Works
  PROVE  ScriptInv'
  BY WorksDo, DisturbedIsSelected, WorkKeeps

-----------------------------------------------------------------------------
LEMMA ToSetOfJoined ==
  ASSUME NEW A, NEW p \in Seq(A), NEW q \in Seq(A)
  PROVE  p \o q \in Seq(A) /\ ToSet(p \o q) = ToSet(p) \cup ToSet(q)
<1>1. /\ p \o q \in Seq(A) /\ Len(p \o q) = Len(p) + Len(q) /\ Len(p) \in Nat /\ Len(q) \in Nat
      /\ \A i \in 1..Len(p) + Len(q) : (p \o q)[i] = IF i <= Len(p) THEN p[i] ELSE q[i - Len(p)]
  OBVIOUS
<1>2. DOMAIN p = 1..Len(p) /\ DOMAIN q = 1..Len(q) /\ DOMAIN (p \o q) = 1..(Len(p) + Len(q))
  BY <1>1
<1> DEFINE r == p \o q
<1> HIDE DEF r
<1>3. \A i \in DOMAIN r : (i \in DOMAIN p /\ r[i] = p[i]) \/ (i - Len(p) \in DOMAIN q /\ r[i] = q[i - Len(p)])
  BY <1>1, <1>2 DEF r
<1>4. /\ \A i \in DOMAIN p : i \in DOMAIN r /\ r[i] = p[i]
      /\ \A i \in DOMAIN q : i + Len(p) \in DOMAIN r /\ r[i + Len(p)] = q[i]
  BY <1>1, <1>2 DEF r
<1>5. ToSet(r) \subseteq ToSet(p) \cup ToSet(q)
  BY <1>3 DEF ToSet
<1>6. ToSet(p) \cup ToSet(q) \subseteq ToSet(r)
  BY <1>4 DEF ToSet
<1> QED BY <1>1, <1>5, <1>6 DEF r

(* The options and the consent.                                             *)
LEMMA PartsType ==
  ASSUME NEW opt, opt.res \in Seq(Resources), opt.op \in BOOLEAN, opt.crd \in BOOLEAN
  PROVE  /\ PartsOf(opt) \in Seq({"probe", "ocp", "crd"})
         /\ "probe" \in ToSet(PartsOf(opt)) => opt.res # <<>>
         /\ "ocp" \in ToSet(PartsOf(opt)) => opt.op
         /\ "crd" \in ToSet(PartsOf(opt)) => opt.crd
<1> DEFINE a == Part(opt.res # <<>>, "probe")
           b == Part(opt.op, "ocp")
           c == Part(opt.crd, "crd")
           Three == {"probe", "ocp", "crd"}
<1>0. \A stage \in Three : /\ <<stage>> \in Seq(Three) /\ ToSet(<<stage>>) = {stage}
                           /\ <<>> \in Seq(Three) /\ ToSet(<<>>) = {}
  BY DEF ToSet
<1>1. a \in Seq(Three) /\ ToSet(a) = IF opt.res # <<>> THEN {"probe"} ELSE {}
  BY <1>0 DEF Part
<1>2. b \in Seq(Three) /\ ToSet(b) = IF opt.op THEN {"ocp"} ELSE {}
  BY <1>0 DEF Part
<1>3. c \in Seq(Three) /\ ToSet(c) = IF opt.crd THEN {"crd"} ELSE {}
  BY <1>0 DEF Part
<1>4. PartsOf(opt) = (a \o b) \o c
  BY DEF PartsOf
<1> HIDE DEF a, b, c
<1>5. a \o b \in Seq(Three) /\ ToSet(a \o b) = ToSet(a) \cup ToSet(b)
  BY <1>1, <1>2, ToSetOfJoined
<1> DEFINE ab == a \o b
<1> HIDE DEF ab
<1>6. PartsOf(opt) = ab \o c /\ ab \in Seq(Three) /\ ToSet(ab) = ToSet(a) \cup ToSet(b)
  BY <1>4, <1>5 DEF ab
<1>7. ab \o c \in Seq(Three) /\ ToSet(ab \o c) = ToSet(ab) \cup ToSet(c)
  BY <1>3, <1>6, ToSetOfJoined
<1> QED BY <1>1, <1>2, <1>3, <1>6, <1>7

LEMMA InitScriptInv == Init => ScriptInv
<1> SUFFICES ASSUME Init PROVE ScriptInv
  OBVIOUS
<1>1. PICK args \in Inputs : sc = IF args = <<>> THEN Exit(InitScript(args), "usage") ELSE InitScript(args)
  BY DEF Init
<1>2. /\ sc.opt = NoOptions /\ sc.args = args /\ sc.sub = "read" /\ sc.parts = <<>> /\ sc.res = <<>>
      /\ sc.spaces = <<>> /\ sc.todo = <<>> /\ sc.cur = {} /\ sc.status = FALSE /\ sc.failed = FALSE
      /\ (sc.stage = "options" /\ sc.result = "none") \/ (sc.stage = "end" /\ sc.result = "usage")
      /\ DOMAIN sc = {"opt", "args", "stage", "sub", "parts", "res", "spaces", "todo", "cur",
                      "status", "failed", "result"}
  BY <1>1 DEF InitScript, Exit
<1>3. args \in Seq(Words)
  BY InputsAssumption DEF Words
<1>4. sc \in ScriptState
  <2>1. NoOptions \in [ask : BOOLEAN, res : Seq(Resources), op : BOOLEAN, crd : BOOLEAN]
    BY DEF NoOptions
  <2>2. /\ "options" \in Stages /\ "end" \in Stages /\ "read" \in Subs /\ "none" \in Results /\ "usage" \in Results
    BY DEF Stages, Subs, Results
  <2>3. InitScript(args) \in ScriptState
    BY <1>3, <2>1, <2>2 DEF InitScript, ScriptState
  <2>4. Exit(InitScript(args), "usage") \in ScriptState
    <3> DEFINE r == InitScript(args)
    <3>1. r \in ScriptState /\ <<>> \in Seq({"probe", "ocp", "crd"})
      BY <2>3
    <3> HIDE DEF r
    <3>2. Exit(r, "usage") \in ScriptState
      BY <3>1, <2>2 DEF Exit, ScriptState
    <3> QED BY <3>2 DEF r
  <2> QED BY <1>1, <2>3, <2>4
<1>5. ToSet(<<>>) = {}
  BY DEF ToSet
<1>6. LeftOK(sc)
  BY <1>2, <1>4, <1>5 DEF LeftOK, NoOptions, Custom
<1>7. PlaceOK(sc)
  BY <1>2 DEF PlaceOK, Asking, OpStages, ChartStages, HelmStages
<1>8. ReadOK(sc) /\ NamesOK(sc)
  BY <1>2, <1>5 DEF ReadOK, NamesOK, Names
<1>9. ArgsOK(sc)
  BY <1>2, CustomAssumption DEF ArgsOK, Custom, ToSet
<1>10. ClusterOK
  <2>1. PICK w \in Worlds : /\ phase = [o \in Object |-> IF o \in w.there THEN "live" ELSE "none"]
                            /\ held = w.held /\ ocp = w.ocp
    BY DEF Init
  <2>2. w.held \subseteq w.there /\ w.there \subseteq Object /\ w.there # {} /\ w.ocp \in BOOLEAN
    BY TvkCleanupAssumption
  <2>3. /\ phase \in [Object -> Phases] /\ \A o \in Object : phase[o] \in {"none", "live"}
        /\ \E o \in Object : phase[o] = "live"
    BY <2>1, <2>2 DEF Phases
  <2>4. held \subseteq {o \in Object : Visible(o)}
    BY <2>1, <2>2 DEF Visible
  <2>5. start = {} /\ start \subseteq Known /\ blind \in BOOLEAN /\ faults \in 0..MaxFaults
    <3>1. start = {} /\ blind = FALSE /\ faults = 0
      BY DEF Init
    <3>2. 0 \in 0..MaxFaults
      BY TvkCleanupAssumption
    <3> QED BY <3>1, <3>2
  <2>6. sc.stage \in Asking \cup {"end"}
    BY <1>2 DEF Asking
  <2>7. ocp \in BOOLEAN
    BY <2>1, <2>2
  <2> QED BY <2>3, <2>4, <2>5, <2>6, <2>7 DEF ClusterOK
<1> QED BY <1>6, <1>7, <1>8, <1>9, <1>10 DEF ScriptInv

(* The cluster is left alone, before the work has begun.                    *)
LEMMA AskingKeeps ==
  ASSUME ScriptInv, sc.stage \in Asking, UNCHANGED <<clusterVars, start, blind>>,
         LeftOK(sc'), ArgsOK(sc'), sc'.stage \in Asking \cup {"end"},
         sc'.sub = "read", sc'.cur = {}, sc'.todo = <<>>, sc'.parts = <<>>, sc'.res = <<>>,
         sc'.stage \in Asking => sc'.result = "none"
  PROVE  ScriptInv'
<1>1. UNCHANGED <<phase, held, ocp, start, blind, faults>>
  BY DEF clusterVars
<1>2. LeftOK(sc)' /\ ArgsOK(sc)' /\ ReadOK(sc)'
  BY DEF LeftOK, ArgsOK, ReadOK
<1>3. PlaceOK(sc)'
  BY DEF PlaceOK, Asking, OpStages, ChartStages, HelmStages
<1>4. NamesOK(sc)'
  <2>1. ToSet(<<>>) = {}
    BY DEF ToSet
  <2> QED BY <2>1 DEF NamesOK, Names
<1>5. ClusterOK'
  <2>1. start = {} /\ (\E o \in Object : phase[o] = "live") /\ \A o \in Object : phase[o] \in {"none", "live"}
    BY DEF ScriptInv, ClusterOK
  <2> QED BY <1>1, <2>1 DEF ScriptInv, ClusterOK, Known, Ever, Visible
<1> QED BY <1>2, <1>3, <1>4, <1>5 DEF ScriptInv

(* Out of the questions.                                                    *)
LEMMA ExitKeeps ==
  ASSUME ScriptInv, sc.stage \in Asking, UNCHANGED <<clusterVars, start, blind>>,
         NEW result \in Results, sc' = Exit(sc, result)
  PROVE  ScriptInv'
<1>1. /\ LeftOK(sc) /\ PlaceOK(sc) /\ ReadOK(sc) /\ sc \in ScriptState
      /\ sc.sub = "read" /\ sc.cur = {} /\ sc.todo = <<>> /\ sc.res = <<>>
  <2>1. LeftOK(sc) /\ PlaceOK(sc) /\ ReadOK(sc) /\ sc \in ScriptState /\ sc.sub \in Subs
    BY DEF ScriptInv, LeftOK, ScriptState
  <2>2. sc.sub = "read" /\ sc.res = <<>>
    BY <2>1 DEF PlaceOK, Subs, Asking, Loops, HelmStages
  <2> QED BY <2>1, <2>2 DEF ReadOK
<1>2. <<>> \in Seq({"probe", "ocp", "crd"}) /\ ToSet(<<>>) = {} /\ "end" \in Stages
  BY DEF ToSet, Stages
<1>3. /\ sc' \in ScriptState /\ sc'.stage = "end" /\ sc'.parts = <<>> /\ sc'.opt = sc.opt /\ sc'.res = sc.res
      /\ sc'.sub = sc.sub /\ sc'.cur = sc.cur /\ sc'.todo = sc.todo
  BY <1>1, <1>2 DEF Exit, ScriptState
<1>4. LeftOK(sc') /\ ArgsOK(sc')
  BY <1>1, <1>2, <1>3 DEF LeftOK, ArgsOK
<1> QED BY <1>1, <1>3, <1>4, AskingKeeps DEF Asking

LEMMA ReadOptionKeeps ==
  ASSUME ScriptInv, ReadOption
  PROVE  ScriptInv'
<1> DEFINE word == Head(sc.args)
           rest == Tail(sc.args)
<1>1. /\ LeftOK(sc) /\ PlaceOK(sc) /\ ReadOK(sc) /\ ArgsOK(sc) /\ sc \in ScriptState
      /\ sc.args \in Seq(Words) /\ sc.sub \in Subs
      /\ sc.opt \in [ask : BOOLEAN, res : Seq(Resources), op : BOOLEAN, crd : BOOLEAN]
  BY DEF ScriptInv, LeftOK, ScriptState
<1>2. sc.stage = "options" /\ sc.args # <<>> /\ UNCHANGED <<clusterVars, start, blind>> /\ sc.stage \in Asking
  BY DEF ReadOption, Asking
<1>3. /\ sc.sub = "read" /\ sc.cur = {} /\ sc.todo = <<>> /\ sc.res = <<>> /\ sc.parts = <<>> /\ sc.result = "none"
  <2>1. sc.sub = "read" /\ sc.res = <<>> /\ sc.parts = <<>> /\ sc.result = "none"
    BY <1>1, <1>2 DEF PlaceOK, Subs, Asking, Loops, HelmStages
  <2> QED BY <1>1, <2>1 DEF ReadOK
<1>4. word \in Words /\ rest \in Seq(Words) /\ ToSet(sc.args) = {word} \cup ToSet(rest)
  BY <1>1, <1>2, HeadAndTail
<1>5. ASSUME NEW opt \in [ask : BOOLEAN, res : Seq(Resources), op : BOOLEAN, crd : BOOLEAN], Custom(opt.res),
             NEW left \in Seq(Words), ToSet(left) \subseteq ToSet(sc.args),
             sc' = [sc EXCEPT !.opt = opt, !.args = left]
      PROVE  ScriptInv'
  <2>1. /\ sc' \in ScriptState /\ sc'.stage = "options" /\ sc'.parts = <<>> /\ sc'.opt = opt /\ sc'.res = <<>>
        /\ sc'.sub = "read" /\ sc'.cur = {} /\ sc'.todo = <<>> /\ sc'.args = left /\ sc'.result = "none"
    BY <1>1, <1>2, <1>3, <1>5 DEF ScriptState
  <2>2. ToSet(<<>>) = {}
    BY DEF ToSet
  <2>3. LeftOK(sc')
    BY <1>5, <2>1, <2>2 DEF LeftOK
  <2>4. ArgsOK(sc')
    BY <1>1, <1>2, <1>5, <2>1 DEF ArgsOK
  <2> QED BY <1>2, <2>1, <2>3, <2>4, AskingKeeps DEF Asking
<1>6. Custom(sc.opt.res)
  BY <1>1 DEF LeftOK
<1>7. ToSet(rest) \subseteq ToSet(sc.args)
  BY <1>4
<1>8. Custom(AllResources) /\ AllResources \in Seq(Resources)
  <2>1. DOMAIN AllResources = 1..10 /\ Len(AllResources) = 10
    BY DEF AllResources
  <2>2. \A i \in 1..10 : AllResources[i] \notin {"CRD", "Release"}
    <3> SUFFICES ASSUME NEW i \in 1..10 PROVE AllResources[i] \notin {"CRD", "Release"}
      OBVIOUS
    <3>1. i \in {1, 2, 3, 4, 5, 6, 7, 8, 9, 10}
      OBVIOUS
    <3> QED BY <3>1 DEF AllResources
  <2>3. AllResources \in Seq(ToSet(AllResources))
    <3> DEFINE T == ToSet(AllResources)
    <3>1. \A i \in 1..10 : AllResources[i] \in T
      BY <2>1 DEF ToSet
    <3>2. AllResources = [i \in 1..10 |-> AllResources[i]]
      BY DEF AllResources
    <3> HIDE DEF T
    <3>3. AllResources \in [1..10 -> T]
      BY <3>1, <3>2
    <3>4. \A n \in Nat : \A f \in [1..n -> T] : f \in Seq(T)
      OBVIOUS
    <3>5. AllResources \in Seq(T)
      BY ONLY <3>3, <3>4
    <3> QED BY <3>5 DEF T
  <2> QED BY <2>1, <2>2, <2>3 DEF Custom, ToSet, Resources
<1>9. CASE sc' = Exit(sc, "help") \/ sc' = Exit(sc, "usage")
  BY <1>2, <1>9, ExitKeeps DEF Results
<1>10. CASE sc' = [sc EXCEPT !.opt = [sc.opt EXCEPT !.ask = FALSE], !.args = rest]
  BY <1>1, <1>4, <1>5, <1>6, <1>7, <1>10
<1>11. CASE sc' = [sc EXCEPT !.opt = [sc.opt EXCEPT !.crd = TRUE], !.args = rest]
  BY <1>1, <1>4, <1>5, <1>6, <1>7, <1>11
<1>12. CASE sc' = [sc EXCEPT !.opt = [sc.opt EXCEPT !.op = TRUE], !.args = rest]
  BY <1>1, <1>4, <1>5, <1>6, <1>7, <1>12
<1>13. CASE sc' = [sc EXCEPT !.opt = [sc.opt EXCEPT !.res = AllResources], !.args = rest]
  BY <1>1, <1>4, <1>5, <1>7, <1>8, <1>13
<1>14. CASE /\ rest # <<>>
            /\ sc' = [sc EXCEPT !.opt = [sc.opt EXCEPT !.res = Head(rest).list], !.args = Tail(rest)]
  <2>1. /\ Head(rest) \in Words /\ Tail(rest) \in Seq(Words)
        /\ Head(rest) \in ToSet(rest) /\ ToSet(Tail(rest)) \subseteq ToSet(rest)
    BY <1>4, <1>14, HeadAndTail
  <2>2. Custom(Head(rest).list) /\ Head(rest).list \in Seq(Resources)
    BY <1>1, <1>2, <1>7, <2>1 DEF ArgsOK, Words, Resources
  <2> QED BY <1>1, <1>5, <1>7, <1>14, <2>1, <2>2
<1> QED BY <1>9, <1>10, <1>11, <1>12, <1>13, <1>14 DEF ReadOption

LEMMA OptionsReadKeeps ==
  ASSUME ScriptInv, OptionsRead
  PROVE  ScriptInv'
<1>1. /\ LeftOK(sc) /\ PlaceOK(sc) /\ ReadOK(sc) /\ sc \in ScriptState /\ sc.sub \in Subs
      /\ sc.stage = "options" /\ sc.stage \in Asking
  BY DEF ScriptInv, LeftOK, ScriptState, OptionsRead, Asking
<1>2. /\ sc.sub = "read" /\ sc.cur = {} /\ sc.todo = <<>> /\ sc.res = <<>> /\ sc.parts = <<>> /\ sc.result = "none"
  <2>1. sc.sub = "read" /\ sc.res = <<>> /\ sc.parts = <<>> /\ sc.result = "none"
    BY <1>1 DEF PlaceOK, Subs, Asking, Loops, HelmStages
  <2> QED BY <1>1, <2>1 DEF ReadOK
<1>3. /\ sc' \in ScriptState /\ sc'.stage = "consent" /\ sc'.parts = <<>> /\ sc'.opt = sc.opt /\ sc'.res = <<>>
      /\ sc'.sub = "read" /\ sc'.cur = {} /\ sc'.todo = <<>> /\ sc'.result = "none"
  BY <1>1, <1>2 DEF OptionsRead, ScriptState, Stages
<1>4. LeftOK(sc') /\ ArgsOK(sc')
  BY <1>1, <1>2, <1>3 DEF LeftOK, ArgsOK
<1>5. UNCHANGED <<clusterVars, start, blind>>
  BY DEF OptionsRead
<1> QED BY <1>1, <1>3, <1>4, <1>5, AskingKeeps DEF Asking

(* The work begins with the first of the parts.                             *)
LEMMA ConsentsBegins ==
  ASSUME ScriptInv, Consents
  PROVE  LET e == [sc EXCEPT !.parts = PartsOf(sc.opt), !.res = sc.opt.res] IN
         /\ e \in ScriptState /\ e.parts = PartsOf(sc.opt) /\ e.parts # <<>> /\ e.res = sc.opt.res
         /\ e.opt = sc.opt /\ e.todo = <<>> /\ e.status = sc.status /\ e.failed = sc.failed /\ e.result = sc.result
         /\ sc' = BeginPart(e) /\ Onward(sc, sc')
<1> DEFINE e == [sc EXCEPT !.parts = PartsOf(sc.opt), !.res = sc.opt.res]
<1>1. /\ LeftOK(sc) /\ PlaceOK(sc) /\ ReadOK(sc) /\ sc \in ScriptState /\ sc.sub \in Subs
      /\ sc.stage = "consent" /\ sc.stage \in Asking
      /\ sc.opt \in [ask : BOOLEAN, res : Seq(Resources), op : BOOLEAN, crd : BOOLEAN]
  BY DEF ScriptInv, LeftOK, ScriptState, Consents, Asking
<1>2. sc.sub = "read" /\ sc.cur = {} /\ sc.todo = <<>>
  BY <1>1 DEF PlaceOK, ReadOK, Subs, Asking, Loops, HelmStages
<1>3. /\ PartsOf(sc.opt) \in Seq({"probe", "ocp", "crd"})
      /\ "probe" \in ToSet(PartsOf(sc.opt)) => sc.opt.res # <<>>
      /\ "ocp" \in ToSet(PartsOf(sc.opt)) => sc.opt.op
      /\ "crd" \in ToSet(PartsOf(sc.opt)) => sc.opt.crd
  BY <1>1, PartsType
<1>4. /\ e \in ScriptState /\ e.parts = PartsOf(sc.opt) /\ e.res = sc.opt.res /\ e.opt = sc.opt /\ e.todo = <<>>
      /\ e.status = sc.status /\ e.failed = sc.failed /\ e.result = sc.result
  BY <1>1, <1>2, <1>3 DEF ScriptState
<1>5. sc' = BeginPart(e) /\ PartsOf(sc.opt) # <<>>
  BY DEF Consents
<1> HIDE DEF e
<1>6. LeftOK(e)
  BY <1>1, <1>3, <1>4 DEF LeftOK
<1>7. Onward(sc, sc')
  BY <1>4, <1>5, <1>6, BeginPartOK DEF Onward
<1> QED BY <1>4, <1>5, <1>7 DEF e

LEMMA ConsentsKeeps ==
  ASSUME ScriptInv, Consents
  PROVE  ScriptInv'
<1>1. sc.stage = "consent" /\ sc.stage \in Asking
  BY DEF Consents, Asking
<1>7. Onward(sc, sc')
  BY ConsentsBegins
<1>8. Well(sc')
  BY <1>7, OnwardIsWell
<1>9. UNCHANGED <<phase, held, ocp, blind, faults>> /\ start' = {o \in Object : Visible(o)}
  BY DEF Consents, clusterVars
<1>10. Known' = Known /\ sc'.opt = sc.opt /\ sc'.stage \notin Asking
  BY <1>8, <1>9 DEF Known, Ever, Well
<1>11. LeftOK(sc)' /\ ReadOK(sc)' /\ ArgsOK(sc)'
  BY <1>8, <1>10 DEF Well, LeftOK, ReadOK, ArgsOK, Asking
<1>12. PlaceOK(sc)' /\ NamesOK(sc)'
  BY <1>8, <1>9, <1>10, PlacesStay DEF Well
<1>13. start' # {} /\ start' \subseteq Known' /\ \A o \in Object : phase[o] \in {"none", "live"}
  BY <1>1, <1>9, <1>10 DEF ScriptInv, ClusterOK, Visible, Known, Ever
<1>14. ClusterOK'
  BY <1>9, <1>10, <1>13 DEF ScriptInv, ClusterOK, Visible
<1> QED BY <1>11, <1>12, <1>14 DEF ScriptInv

LEMMA UserKeeps ==
  ASSUME ScriptInv, User
  PROVE  ScriptInv'
<1>1. CASE Consents
  BY <1>1, ConsentsKeeps
<1>2. CASE NothingSelected
  BY <1>2, ExitKeeps DEF NothingSelected, Asking, Results
<1>3. CASE Declines
  BY <1>3, ExitKeeps DEF Declines, Asking, Results
<1> QED BY <1>1, <1>2, <1>3 DEF User

-----------------------------------------------------------------------------
(* The others change the cluster: a dying CRD takes its objects along.      *)
Goes(o) ==
  phase[o] = "live" /\ (phase'[o] # "live" \/ o \in held \ held') =>
    /\ start # {}
    /\ Selected(o) \/ \E crd \in Object : Visible(crd) /\ o \in Instances(crd) /\ Selected(crd)

LEMMA OthersKeep ==
  ASSUME ScriptInv, UNCHANGED <<faults, ocp, sc, start, blind>>,
         PhasesOK', Known \subseteq Known',
         \A o \in Object : o.kind = "CRD" /\ phase'[o] = "dying" => phase[o] = "dying",
         start = {} => \A o \in Object : /\ phase'[o] \in {"none", "live"}
                                         /\ phase[o] = "live" => phase'[o] = "live"
  PROVE  ScriptInv'
<1>1. LeftOK(sc) /\ PlaceOK(sc) /\ ArgsOK(sc) /\ ReadOK(sc) /\ NamesOK(sc) /\ sc' = sc /\ sc'.opt = sc.opt
  BY DEF ScriptInv
<1>2. LeftOK(sc') /\ PlaceOK(sc') /\ NamesOK(sc')
  BY <1>1
<1>3. PlaceOK(sc)' /\ NamesOK(sc)'
  BY <1>1, <1>2, PlacesStay
<1>4. LeftOK(sc)' /\ ArgsOK(sc)' /\ ReadOK(sc)'
  BY <1>1 DEF LeftOK, ArgsOK, ReadOK
<1>5. \A o \in Object : Selected(o) => Selected(o)'
  BY <1>1, SelectedStays
<1>6. ClusterOK'
  BY <1>5 DEF ScriptInv, ClusterOK, PhasesOK
<1> QED BY <1>3, <1>4, <1>6 DEF ScriptInv

LEMMA CrdIsClearedKeeps ==
  ASSUME ScriptInv, NEW crd \in Object, CrdIsCleared(crd)
  PROVE  ScriptInv' /\ \A o \in Object : Goes(o)
<1>1. /\ PhasesOK /\ phase[crd] = "dying" /\ crd.kind = "CRD" /\ Visible(crd) /\ Selected(crd) /\ start # {}
      /\ UNCHANGED <<faults, ocp, sc, start, blind>>
  BY DEF ScriptInv, ClusterOK, PhasesOK, CrdIsCleared, Visible
<1>2. CASE \E o \in Instances(crd) : phase[o] = "live" /\ Deleted(o)
  <2>1. PICK o \in Instances(crd) : phase[o] = "live" /\ Deleted(o)
    BY <1>2
  <2>2. o \in Object /\ o.kind # "CRD" /\ Visible(o) /\ Instances(o) = {}
    BY InstancesOfCrds
  <2>3. Touches(o)
    BY <1>1, <2>1, <2>2, DeletionTouches
  <2>4. Known \subseteq Known'
    BY <1>1, <2>2, <2>3, TouchedAreKnown
  <2>5. ScriptInv'
    BY <1>1, <2>2, <2>3, <2>4, OthersKeep DEF Touches
  <2>6. \A p \in Object : Goes(p)
    BY <1>1, <2>2, <2>3 DEF Touches, Goes
  <2> QED BY <2>5, <2>6
<1>3. CASE Instances(crd) = {} /\ Vanishes(crd)
  <2>1. Touches(crd)
    BY <1>1, <1>3, VanishingTouches
  <2>2. Known \subseteq Known'
    BY <1>1, <2>1, TouchedAreKnown
  <2>3. phase'[crd] = "gone"
    BY <1>1, <1>3, VanishingTouches
  <2>4. ScriptInv'
    BY <1>1, <2>1, <2>2, <2>3, OthersKeep DEF Touches
  <2>5. \A p \in Object : Goes(p)
    BY <1>1, <1>3, <2>1 DEF Touches, Goes
  <2> QED BY <2>4, <2>5
<1> QED BY <1>2, <1>3 DEF CrdIsCleared

LEMMA ControllerReleasesKeeps ==
  ASSUME ScriptInv, NEW o \in Object, ControllerReleases(o)
  PROVE  ScriptInv' /\ \A p \in Object : Goes(p)
<1>1. /\ PhasesOK /\ phase[o] = "dying" /\ o.kind # "CRD" /\ start # {} /\ Vanishes(o)
      /\ UNCHANGED <<faults, ocp, sc, start, blind>>
  BY DEF ScriptInv, ClusterOK, PhasesOK, ControllerReleases
<1>2. Instances(o) = {}
  BY <1>1, InstancesOfCrds
<1>3. Touches(o)
  BY <1>1, VanishingTouches
<1>4. Known \subseteq Known'
  BY <1>1, <1>3, TouchedAreKnown
<1>5. ScriptInv'
  BY <1>1, <1>3, <1>4, OthersKeep DEF Touches
<1>6. \A p \in Object : Goes(p)
  BY <1>1, <1>2, <1>3 DEF Touches, Goes
<1> QED BY <1>5, <1>6

LEMMA GuardsAndCreatesKeep ==
  ASSUME ScriptInv, NEW o \in Object, ControllerGuards(o) \/ Creates(o)
  PROVE  ScriptInv' /\ \A p \in Object : Goes(p)
<1>1. PhasesOK /\ UNCHANGED <<faults, ocp, sc, start, blind>>
  BY DEF ScriptInv, ClusterOK, PhasesOK, ControllerGuards, Creates
<1>2. /\ \A p \in Object : phase'[p] = phase[p] \/ (phase[p] = "none" /\ phase'[p] = "live")
      /\ held \subseteq held' /\ phase' \in [Object -> Phases]
      /\ \A p \in held' : p \in held \/ (p = o /\ phase[o] = "live")
  BY <1>1 DEF ControllerGuards, Creates, PhasesOK, Phases
<1>3. PhasesOK'
  BY <1>1, <1>2 DEF PhasesOK, Visible
<1>4. Known \subseteq Known'
  BY <1>1, <1>2 DEF Known, Ever
<1>5. start = {} => \A p \in Object : phase[p] \in {"none", "live"}
  BY DEF ScriptInv, ClusterOK
<1>6. ScriptInv'
  BY <1>1, <1>2, <1>3, <1>4, <1>5, OthersKeep
<1>7. \A p \in Object : Goes(p)
  BY <1>1, <1>2 DEF Goes
<1> QED BY <1>6, <1>7

LEMMA StutteringKeepsScript ==
  ASSUME ScriptInv, UNCHANGED vars
  PROVE  ScriptInv' /\ \A o \in Object : Goes(o)
<1>1. UNCHANGED <<phase, held, faults, ocp, sc, start, blind>>
  BY DEF vars, clusterVars
<1>2. PhasesOK' /\ Known' = Known
  BY <1>1 DEF ScriptInv, ClusterOK, PhasesOK, Visible, Known, Ever
<1>3. start = {} => \A o \in Object : phase[o] \in {"none", "live"}
  BY DEF ScriptInv, ClusterOK
<1>4. ScriptInv'
  BY <1>1, <1>2, <1>3, OthersKeep
<1> QED BY <1>1, <1>4 DEF Goes

(* The script and the user: only what is selected is touched.               *)
LEMMA ScriptKeeps ==
  ASSUME ScriptInv, Script \/ User
  PROVE  ScriptInv' /\ \A o \in Object : Goes(o)
<1>1. CASE ReadOption \/ OptionsRead \/ User
  <2>1. ScriptInv'
    BY <1>1, ReadOptionKeeps, OptionsReadKeeps, UserKeeps
  <2>2. phase' = phase /\ held' = held
    BY <1>1 DEF ReadOption, OptionsRead, User, Consents, NothingSelected, Declines, clusterVars
  <2> QED BY <2>1, <2>2 DEF Goes
<1>2. CASE Works
  <2>1. ScriptInv'
    BY <1>2, WorksKeep
  <2>2. start # {}
    BY <1>2, WorksDo DEF ScriptInv, ClusterOK
  <2>3. \A o \in Object : \/ phase'[o] = phase[o] /\ (o \in held <=> o \in held')
                          \/ Selected(o)
                          \/ \E crd \in Object : Visible(crd) /\ o \in Instances(crd) /\ Selected(crd)
    BY <1>2, WorksDo, DisturbedIsSelected
  <2> QED BY <2>1, <2>2, <2>3 DEF Goes
<1> QED BY <1>1, <1>2 DEF Script, Works

LEMMA NextKeepsScript == ScriptInv /\ [Next]_vars => ScriptInv' /\ \A o \in Object : Goes(o)
<1> SUFFICES ASSUME ScriptInv, [Next]_vars PROVE ScriptInv' /\ \A o \in Object : Goes(o)
  OBVIOUS
<1>1. CASE Script \/ User
  BY <1>1, ScriptKeeps
<1>2. CASE Environment
  BY <1>2, CrdIsClearedKeeps, ControllerReleasesKeeps, GuardsAndCreatesKeep DEF Environment
<1>3. CASE UNCHANGED vars
  BY <1>3, StutteringKeepsScript
<1> QED BY <1>1, <1>2, <1>3 DEF Next

LEMMA ScriptIsSafe == Spec => []ScriptInv
<1>1. ScriptInv /\ [Next]_vars => ScriptInv'
  BY NextKeepsScript
<1> QED BY <1>1, InitScriptInv, PTL DEF Spec

(* The script and the cluster keep their types, and the script is only ever *)
(* in a loop of a part that was selected and has something left.            *)
THEOREM ScriptTypesHold == Spec => []ScriptTypeOK
<1>1. ScriptInv => ScriptTypeOK
  <2> SUFFICES ASSUME ScriptInv PROVE ScriptTypeOK
    OBVIOUS
  <2>1. sc \in ScriptState /\ PlaceOK(sc) /\ ClusterOK
    BY DEF ScriptInv, LeftOK
  <2>2. sc.stage \in Stages /\ sc.sub \in Subs /\ sc.cur \subseteq Object /\ sc.result \in Results
    BY <2>1 DEF ScriptState
  <2>3. sc.sub # "read" => sc.stage \in Loops \cup {"manager", "operator"}
    BY <2>1, <2>2 DEF PlaceOK, Subs, HelmStages
  <2>4. /\ sc.stage \in {"probe", "spaces", "names"} => sc.res # <<>>
        /\ sc.stage \in {"names", "tvm", "manager", "operator", "cron"} => sc.spaces # <<>>
    BY <2>1 DEF PlaceOK, ChartStages, HelmStages
  <2> QED BY <2>1, <2>2, <2>3, <2>4 DEF ScriptTypeOK, ClusterOK, Phases, Subs, Results, Known
<1> QED BY <1>1, ScriptIsSafe, PTL

(* Whatever fails, and whatever the others do: only what the user selected, *)
(* and only after consent, is deleted or loses a finalizer, or it is an     *)
(* object of a CRD that was selected.                                       *)
THEOREM OnlySelectedGoesHolds == Spec => OnlySelectedGoes
<1> DEFINE Body == \A o \in Object :
      phase[o] = "live" /\ (phase'[o] # "live" \/ o \in held \ held') =>
        /\ start # {}
        /\ Selected(o) \/ \E crd \in Object : Visible(crd) /\ o \in Instances(crd) /\ Selected(crd)
<1>1. ScriptInv /\ [Next]_vars => [Body]_vars
  <2> SUFFICES ASSUME ScriptInv, [Next]_vars PROVE Body
    OBVIOUS
  <2> QED BY NextKeepsScript DEF Goes
<1>2. OnlySelectedGoes <=> [][Body]_vars
  BY DEF OnlySelectedGoes
<1> HIDE DEF Body
<1> QED BY <1>1, <1>2, ScriptIsSafe, PTL DEF Spec

-----------------------------------------------------------------------------
(***************************************************************************)
(* The verdict: a failure is not forgotten and not made up.                 *)
(***************************************************************************)
Judged(s, t) ==
  /\ Bad(t) <=> Bad(s)
  /\ t.stage # "end" => t.result = s.result
  /\ t.stage = "end" => /\ t.result = IF t.failed = TRUE THEN "failed" ELSE "success"
                        /\ t.status = TRUE => t.failed = TRUE

LEMMA BeginPartJudges ==
  ASSUME NEW s \in ScriptState
  PROVE  LET t == BeginPart(s) IN
         /\ t.failed = s.failed
         /\ s.parts # <<>> => t.status = FALSE /\ t.result = s.result /\ t.stage \in {"probe", "ocp", "crd"}
         /\ s.parts = <<>> => /\ t.status = s.status /\ t.stage = "end"
                              /\ t.result = IF s.failed = TRUE THEN "failed" ELSE "success"
<1> DEFINE t == BeginPart(s)
           first == Head(s.parts)
           e == Enter(s, first)
           d == Enter(s, "end")
<1>0. s.parts \in Seq({"probe", "ocp", "crd"}) /\ s.failed \in BOOLEAN
  BY DEF ScriptState
<1>1. CASE s.parts # <<>>
  <2>1. first \in {"probe", "ocp", "crd"}
    BY <1>0, <1>1, HeadAndTail
  <2>2. first \in Stages
    BY <2>1 DEF Stages
  <2>3. /\ e \in ScriptState /\ e.stage = first /\ e.failed = s.failed /\ e.result = s.result
    BY <2>2, EnterType
  <2> HIDE DEF e
  <2>4. t = [e EXCEPT !.parts = Tail(@), !.status = FALSE]
    BY <1>1 DEF BeginPart, e
  <2> HIDE DEF t, first
  <2>5. t.stage = first /\ t.failed = s.failed /\ t.result = s.result /\ t.status = FALSE
    BY <2>3, <2>4 DEF ScriptState
  <2> QED BY <1>1, <2>1, <2>5 DEF t
<1>2. CASE s.parts = <<>>
  <2>1. d \in ScriptState /\ d.failed = s.failed /\ d.status = s.status
    BY EnterType DEF Stages
  <2> DEFINE verdict == IF s.failed = TRUE THEN "failed" ELSE "success"
  <2>2. verdict = IF s.failed THEN "failed" ELSE "success"
    BY <1>0
  <2> HIDE DEF d, verdict
  <2>3. t = [d EXCEPT !.stage = "end", !.result = verdict, !.parts = <<>>]
    BY <1>2, <2>2 DEF BeginPart, Exit, d
  <2> HIDE DEF t
  <2>4. t.stage = "end" /\ t.failed = s.failed /\ t.result = verdict /\ t.status = s.status
    BY <2>1, <2>3 DEF ScriptState
  <2> QED BY <1>2, <2>4 DEF t, verdict
<1> QED BY <1>1, <1>2

LEMMA EndPartJudges ==
  ASSUME NEW s \in ScriptState
  PROVE  Judged(s, EndPart(s))
<1> DEFINE e == [s EXCEPT !.failed = @ \/ s.status]
           t == BeginPart(e)
<1>1. s.failed \in BOOLEAN /\ s.status \in BOOLEAN
  BY DEF ScriptState
<1>2. e \in ScriptState /\ e.failed = (s.failed \/ s.status) /\ e.status = s.status /\ e.result = s.result /\ e.parts = s.parts
  BY DEF ScriptState
<1>3. e.failed = TRUE <=> s.failed = TRUE \/ s.status = TRUE
  BY <1>1, <1>2
<1>4. EndPart(s) = t
  BY DEF EndPart
<1> HIDE DEF e
<1>5. /\ t.failed = e.failed
      /\ e.parts # <<>> => t.status = FALSE /\ t.result = e.result /\ t.stage \in {"probe", "ocp", "crd"}
      /\ e.parts = <<>> => /\ t.status = e.status /\ t.stage = "end"
                           /\ t.result = IF e.failed = TRUE THEN "failed" ELSE "success"
  BY <1>2, BeginPartJudges
<1> HIDE DEF t
<1>6. Judged(s, t)
  BY <1>2, <1>3, <1>5 DEF Judged, Bad
<1> QED BY <1>4, <1>6

LEMMA NextResourceJudges ==
  ASSUME NEW s \in ScriptState
  PROVE  Judged(s, NextResource(s))
<1> DEFINE e == Enter(s, "probe")
           t == NextResource(s)
<1>1. CASE Len(s.res) > 1
  <2>1. e \in ScriptState /\ e.stage = "probe" /\ e.failed = s.failed /\ e.status = s.status /\ e.result = s.result
    BY EnterType DEF Stages
  <2> HIDE DEF e
  <2>2. t = [e EXCEPT !.res = Tail(@)]
    BY <1>1 DEF NextResource, e
  <2> HIDE DEF t
  <2>3. t.stage = "probe" /\ t.failed = s.failed /\ t.status = s.status /\ t.result = s.result
    BY <2>1, <2>2 DEF ScriptState
  <2>4. Judged(s, t)
    BY <2>3 DEF Judged, Bad
  <2> QED BY <2>4 DEF t
<1>2. CASE ~(Len(s.res) > 1)
  BY <1>2, EndPartJudges DEF NextResource
<1> QED BY <1>1, <1>2

LEMMA EnterJudges ==
  ASSUME NEW s \in ScriptState, NEW stage \in Stages \ {"end"}
  PROVE  Judged(s, Enter(s, stage))
<1> DEFINE t == Enter(s, stage)
<1>1. t.stage = stage /\ t.failed = s.failed /\ t.status = s.status /\ t.result = s.result
  BY EnterType
<1> HIDE DEF t
<1>2. Judged(s, t)
  BY <1>1 DEF Judged, Bad
<1> QED BY <1>2 DEF t

LEMMA VisitJudges ==
  ASSUME NEW s \in ScriptState, NEW spaces, NEW stage \in {"names", "tvm"}, NEW after \in ScriptState, Judged(s, after)
  PROVE  Judged(s, Visit(s, spaces, stage, after))
<1> DEFINE q == IF spaces # <<>> THEN Enter(s, stage) ELSE after
           t == Visit(s, spaces, stage, after)
<1>1. stage \in Stages \ {"end"}
  BY DEF Stages
<1>2. q \in ScriptState /\ Judged(s, q)
  BY <1>1, EnterType, EnterJudges
<1>3. t = [q EXCEPT !.spaces = spaces]
  BY DEF Visit
<1> HIDE DEF t, q
<1>4. t.stage = q.stage /\ t.failed = q.failed /\ t.status = q.status /\ t.result = q.result
  BY <1>2, <1>3 DEF ScriptState
<1>5. Judged(s, t)
  BY <1>2, <1>4 DEF Judged, Bad
<1> QED BY <1>5 DEF t

LEMMA LeaveJudges ==
  ASSUME NEW s, LeftOK(s), s.todo = <<>>, s.stage \in Deleting
  PROVE  Judged(s, Leave(s))
<1>0. s \in ScriptState
  BY DEF LeftOK
<1>1. CASE s.stage = "names"
  BY <1>0, <1>1, NextResourceOK, NextResourceJudges, VisitJudges DEF Leave, Onward, LeftOK
<1>2. CASE s.stage = "cron"
  BY <1>0, <1>2, EndPartOK, EndPartJudges, VisitJudges DEF Leave, Onward, LeftOK
<1>3. CASE s.stage = "crd"
  BY <1>0, <1>3, EndPartJudges DEF Leave
<1>4. CASE s.stage \in {"subscription", "csv", "tvm", "manager", "operator"}
  <2>1. After[s.stage] \in Stages \ {"end"}
    BY <1>4 DEF After, Stages
  <2>2. Leave(s) = Enter(s, After[s.stage])
    BY <1>4 DEF Leave
  <2> QED BY <1>0, <2>1, <2>2, EnterJudges
<1> QED BY <1>1, <1>2, <1>3, <1>4 DEF Deleting, Loops, HelmStages

LEMMA ProceedJudges ==
  ASSUME NEW s, LeftOK(s), s.stage \in Deleting
  PROVE  Judged(s, Proceed(s))
<1> DEFINE t == Proceed(s)
<1>0. s \in ScriptState
  BY DEF LeftOK
<1>1. CASE s.todo # <<>>
  <2> DEFINE sub == IF s.stage \in Loops THEN "delete" ELSE "uninstall"
  <2>1. t = [s EXCEPT !.cur = Head(s.todo), !.todo = Tail(s.todo), !.sub = sub]
    BY <1>0, <1>1 DEF Proceed, ScriptState
  <2> HIDE DEF t, sub
  <2>2. t.stage = s.stage /\ t.failed = s.failed /\ t.status = s.status /\ t.result = s.result
    BY <1>0, <2>1 DEF ScriptState
  <2>3. s.stage # "end"
    BY DEF Deleting, Loops, HelmStages
  <2>4. Judged(s, t)
    BY <2>2, <2>3 DEF Judged, Bad
  <2> QED BY <2>4 DEF t
<1>2. CASE s.todo = <<>>
  <2> DEFINE q == [s EXCEPT !.cur = {}]
  <2>1. /\ q \in ScriptState /\ q.opt = s.opt /\ q.parts = s.parts /\ q.res = s.res /\ q.todo = s.todo
        /\ q.stage = s.stage /\ q.failed = s.failed /\ q.status = s.status /\ q.result = s.result
    BY <1>0 DEF ScriptState
  <2>2. t = Leave(q)
    BY <1>2 DEF Proceed
  <2> HIDE DEF q, t
  <2>3. LeftOK(q)
    BY <2>1 DEF LeftOK
  <2>4. Judged(q, t)
    BY <1>2, <2>1, <2>2, <2>3, LeaveJudges
  <2>5. Judged(s, t)
    BY <2>1, <2>4 DEF Judged, Bad
  <2> QED BY <2>5 DEF t
<1> QED BY <1>1, <1>2

-----------------------------------------------------------------------------
(* The verdict is kept.                                                     *)
LEMMA JudgedVerdict ==
  ASSUME NEW s, s.result = "none", NEW t, Judged(s, t)
  PROVE  VerdictOK(t)
  BY DEF Judged, VerdictOK, Bad

(* A name is dealt with: the next one of the loop, or another stage.        *)
LEMMA NextJudged ==
  ASSUME HealthInv, sc.sub # "read", NEW s, s = sc \/ s = [sc EXCEPT !.status = TRUE], sc' = Proceed(s)
  PROVE  VerdictOK(sc') /\ sc'.sub \in {"read", "delete"} /\ (Bad(sc') <=> Bad(s))
<1>1. ScriptInv /\ LeftOK(sc) /\ PlaceOK(sc) /\ sc \in ScriptState /\ VerdictOK(sc)
  BY DEF HealthInv, ScriptInv, LeftOK
<1>2. /\ s \in ScriptState /\ s.opt = sc.opt /\ s.parts = sc.parts /\ s.res = sc.res /\ s.spaces = sc.spaces
      /\ s.stage = sc.stage /\ s.result = sc.result /\ s.sub = sc.sub /\ s.cur = sc.cur /\ s.todo = sc.todo
  BY <1>1 DEF ScriptState
<1>3. LeftOK(s) /\ PlaceOK(s)
  BY <1>1, <1>2 DEF LeftOK, PlaceOK
<1>4. s.stage \in Deleting /\ s.stage # "end" /\ (s.sub = "uninstall" <=> s.stage \in HelmStages)
  BY <1>1, <1>2, WorkPlace DEF Loops, HelmStages
<1>5. Judged(s, sc')
  BY <1>3, <1>4, ProceedJudges
<1>6. s.result = "none"
  BY <1>1, <1>2, <1>4 DEF VerdictOK
<1>7. VerdictOK(sc')
  BY <1>5, <1>6, JudgedVerdict
<1>8. sc'.sub \in {"read", "delete"}
  <2>1. CASE s.todo = <<>>
    BY <2>1, <1>3, <1>4, ProceedOK DEF Onward
  <2>2. CASE s.todo # <<>>
    <3>1. s.stage \in Loops
      BY <1>2, <1>4, <2>2 DEF HealthInv, ReleasesOK, Deleting
    <3>2. sc' = [s EXCEPT !.cur = Head(s.todo), !.todo = Tail(s.todo),
                          !.sub = IF s.stage \in Loops THEN "delete" ELSE "uninstall"]
      BY <2>2, <1>3, <1>4, ProceedOK
    <3> QED BY <1>2, <3>1, <3>2 DEF ScriptState
  <2> QED BY <2>1, <2>2
<1> QED BY <1>5, <1>7, <1>8 DEF Judged

(* The stages of helm list releases, into one argument.                     *)
LEMMA HelmListing ==
  ASSUME HealthInv, NEW stage \in Deleting, At(stage, "read"), NEW S \in SUBSET Listed(stage),
         sc' = Proceed([sc EXCEPT !.todo = Queue(stage, S)]), UNCHANGED phase
  PROVE  /\ sc'.sub \in {"read", "delete", "uninstall"}
         /\ sc'.sub = "uninstall" => sc'.cur # {} /\ sc'.todo = <<>> /\ \A r \in sc'.cur : phase'[r] = "live"
         /\ Judged(sc, sc')
<1> DEFINE q == Queue(stage, S)
           s == [sc EXCEPT !.todo = q]
<1>1. S \in SUBSET Object
  BY DEF Listed
<1>2. q \in Seq(SUBSET Object)
  BY <1>1, QueueType
<1>3. ScriptInv /\ LeftOK(sc) /\ PlaceOK(sc) /\ sc \in ScriptState /\ sc.stage = stage
  BY DEF HealthInv, ScriptInv, LeftOK, At
<1> HIDE DEF q
<1>4. /\ s \in ScriptState /\ s.opt = sc.opt /\ s.parts = sc.parts /\ s.res = sc.res /\ s.spaces = sc.spaces
      /\ s.stage = stage /\ s.result = sc.result /\ s.sub = sc.sub /\ s.cur = sc.cur /\ s.todo = q
      /\ s.status = sc.status /\ s.failed = sc.failed
  BY <1>2, <1>3 DEF ScriptState
<1>5. sc' = Proceed(s)
  BY DEF q
<1> HIDE DEF s
<1>6. LeftOK(s) /\ PlaceOK(s)
  BY <1>3, <1>4 DEF LeftOK, PlaceOK
<1>7. Judged(s, sc')
  BY <1>4, <1>5, <1>6, ProceedJudges
<1>8. Judged(sc, sc')
  BY <1>4, <1>7 DEF Judged, Bad
<1>9. CASE q = <<>>
  <2>1. Onward(s, sc')
    BY <1>4, <1>5, <1>6, <1>9, ProceedOK
  <2> QED BY <2>1, <1>8 DEF Onward
<1>10. CASE q # <<>>
  <2>1. sc' = [s EXCEPT !.cur = Head(s.todo), !.todo = Tail(s.todo),
                        !.sub = IF s.stage \in Loops THEN "delete" ELSE "uninstall"]
    BY <1>4, <1>5, <1>6, <1>10, ProceedOK
  <2>2. sc'.cur = Head(q) /\ sc'.todo = Tail(q) /\ sc'.sub = IF stage \in Loops THEN "delete" ELSE "uninstall"
    BY <1>4, <2>1 DEF ScriptState
  <2>3. ASSUME stage \notin Loops
        PROVE  sc'.cur # {} /\ sc'.todo = <<>> /\ \A r \in sc'.cur : phase'[r] = "live"
    <3>1. stage \in HelmStages /\ stage \notin {"names", "crd", "tvm"}
      BY <2>3 DEF Deleting, Loops, HelmStages
    <3>2. q = <<S>> /\ S # {}
      BY <1>10, <3>1 DEF Queue, q
    <3>3. sc'.cur = S /\ sc'.todo = <<>>
      BY <2>2, <3>2
    <3>4. \A r \in S : r \in Object /\ r.kind = "Release" /\ Visible(r)
      BY <1>3, <3>1, ListedIsSelected DEF Listed
    <3>5. \A r \in S : phase'[r] = "live"
      BY <3>4 DEF HealthInv, ReleasesOK, Visible
    <3> QED BY <3>2, <3>3, <3>5
  <2> QED BY <2>2, <2>3, <1>8
<1> QED BY <1>9, <1>10

LEMMA LookHealth ==
  ASSUME HealthInv, Look \/ LookFails
  PROVE  /\ sc'.sub \in {"read", "delete", "uninstall"}
         /\ sc'.sub = "uninstall" => sc'.cur # {} /\ sc'.todo = <<>> /\ \A r \in sc'.cur : phase'[r] = "live"
         /\ Judged(sc, sc')
<1>0. /\ ScriptInv /\ LeftOK(sc) /\ PlaceOK(sc) /\ sc \in ScriptState /\ (sc.sub = "read" => sc.todo = <<>>)
      /\ phase' = phase /\ Well(sc')
  BY LookIsWell DEF HealthInv, ScriptInv, LeftOK, ReadOK, Look, LookFails, clusterVars
<1>1. CASE At("probe", "read")
  <2>1. sc.todo = <<>> /\ sc.stage = "probe" /\ sc.res # <<>> /\ sc.sub = "read"
    BY <1>0, <1>1 DEF At, PlaceOK
  <2>2. sc' = Enter(sc, "spaces") \/ sc' = NextResource(sc)
    BY <2>1 DEF Look, LookFails, At, Loops
  <2>3. Judged(sc, Enter(sc, "spaces")) /\ Enter(sc, "spaces").sub = "read"
    BY <1>0, EnterJudges, EnterType DEF Stages
  <2>4. Judged(sc, NextResource(sc)) /\ NextResource(sc).sub = "read"
    BY <1>0, <2>1, NextResourceOK, NextResourceJudges DEF Onward
  <2> QED BY <2>2, <2>3, <2>4
<1>2. CASE At("spaces", "read")
  <2> DEFINE list == SetToSeq({FirstColumn(o) : o \in {p \in Object : Visible(p) /\ p.kind = Kind}})
             after == NextResource(sc)
  <2>1. sc.todo = <<>> /\ sc.stage = "spaces" /\ sc.res # <<>> /\ sc.sub = "read"
    BY <1>0, <1>2 DEF At, PlaceOK
  <2>2. sc' = Visit(sc, list, "names", after) \/ sc' = after
    BY <2>1 DEF Look, LookFails, At, Loops
  <2>3. list \in Seq(Columns)
    BY ColumnsType
  <2> HIDE DEF list
  <2>4. /\ Judged(sc, after) /\ Onward(sc, after) /\ after \in ScriptState /\ after.sub = "read"
        /\ after.stage \notin {"names"} \cup ChartStages
    BY <1>0, <2>1, NextResourceOK, NextResourceJudges DEF Onward, LeftOK, Firsts, ChartStages, HelmStages
  <2> HIDE DEF after
  <2>5. Judged(sc, Visit(sc, list, "names", after)) /\ Visit(sc, list, "names", after).sub = "read"
    BY <1>0, <2>1, <2>3, <2>4, VisitOK, VisitJudges DEF Onward
  <2> QED BY <2>2, <2>4, <2>5
<1>3. CASE At("ocp", "read")
  <2>1. sc.stage = "ocp"
    BY <1>3 DEF At
  <2>2. sc' = Enter(sc, "subscription") \/ sc' = Enter(sc, "charts")
    BY <2>1 DEF Look, LookFails, At, Loops
  <2>3. ASSUME NEW stage \in {"subscription", "charts"}
        PROVE  Judged(sc, Enter(sc, stage)) /\ Enter(sc, stage).sub = "read"
    <3>1. stage \in Stages \ {"end"}
      BY DEF Stages
    <3> QED BY <1>0, <3>1, EnterJudges, EnterType
  <2> QED BY <2>2, <2>3
<1>4. CASE At("charts", "read")
  <2> DEFINE after == EndPart(sc)
  <2>1. sc.todo = <<>> /\ sc.stage = "charts" /\ sc.opt.op /\ sc.sub = "read"
    BY <1>0, <1>4 DEF At, PlaceOK, OpStages
  <2>2. (\E list \in ChartSpaces : sc' = Visit(sc, list, "tvm", after)) \/ sc' = after
    BY <2>1 DEF Look, LookFails, At, Loops
  <2>3. /\ Judged(sc, after) /\ Onward(sc, after) /\ after \in ScriptState /\ after.sub = "read"
        /\ after.stage \notin {"names"} \cup ChartStages
    BY <1>0, <2>1, EndPartOK, EndPartJudges DEF Onward, LeftOK, Firsts, ChartStages, HelmStages
  <2> HIDE DEF after
  <2>4. ASSUME NEW list \in ChartSpaces
        PROVE  Judged(sc, Visit(sc, list, "tvm", after)) /\ Visit(sc, list, "tvm", after).sub = "read"
    <3>1. /\ list \in Seq(Columns)
          /\ ToSet(list) = {r.ns : r \in {p \in Object : p.kind = "Release" /\ Visible(p) /\ p.mark # "other"}}
      BY ChartSpacesType
    <3>2. \A ns \in ToSet(list) : HasChart(ns)
      BY <3>1 DEF HasChart, Known, Visible, Ever
    <3>3. Onward(sc, Visit(sc, list, "tvm", after))
      BY <1>0, <2>1, <2>3, <3>1, <3>2, VisitOK
    <3>4. Judged(sc, Visit(sc, list, "tvm", after))
      BY <1>0, <2>3, VisitJudges
    <3> QED BY <3>3, <3>4 DEF Onward
  <2> QED BY <2>2, <2>3, <2>4
<1>5. ASSUME NEW stage \in Loops \cup HelmStages, At(stage, "read")
      PROVE  /\ sc'.sub \in {"read", "delete", "uninstall"}
             /\ sc'.sub = "uninstall" => sc'.cur # {} /\ sc'.todo = <<>> /\ \A r \in sc'.cur : phase'[r] = "live"
             /\ Judged(sc, sc')
  <2>1. stage \in Deleting /\ sc.stage = stage
    BY <1>5 DEF Deleting, At
  <2>2. \E S \in SUBSET Listed(stage) : sc' = Proceed([sc EXCEPT !.todo = Queue(stage, S)])
    BY <2>1 DEF Look, LookFails, At, Loops, HelmStages
  <2> QED BY <1>0, <1>5, <2>1, <2>2, HelmListing
<1>6. \/ At("probe", "read") \/ At("spaces", "read") \/ At("ocp", "read") \/ At("charts", "read")
      \/ \E stage \in Loops \cup HelmStages : At(stage, "read")
  BY DEF Look, LookFails, HelmStages
<1> QED BY <1>1, <1>2, <1>3, <1>4, <1>5, <1>6

(* A loop that deletes does not touch the releases.                         *)
LEMMA LoopsLeaveReleases ==
  ASSUME HealthInv, sc.stage \in Loops, Undisturbed \/ Disturbed \/ Released
  PROVE  \A r \in Object : r.kind = "Release" => phase'[r] = phase[r] /\ r \notin held'
<1>1. ScriptInv /\ PhasesOK /\ \A r \in Object : r.kind = "Release" => r \notin held
  BY DEF HealthInv, ScriptInv, ClusterOK, PhasesOK, ReleasesOK
<1>2. CASE Undisturbed
  BY <1>1, <1>2 DEF Undisturbed
<1>3. CASE Disturbed
  <2>1. PICK o \in Object : Named(o) /\ (Deleted(o) \/ Vanishes(o))
    BY <1>3 DEF Disturbed
  <2>2. Visible(o) /\ o.kind # "Release"
    BY <1>1, <2>1, NamedIsSelected DEF Loops
  <2>3. Touches(o)
    BY <1>1, <2>1, <2>2, DeletionTouches, VanishingTouches
  <2>4. \A r \in Instances(o) : r.kind # "Release"
    BY InstancesOfCrds
  <2> QED BY <1>1, <2>2, <2>3, <2>4 DEF Touches
<1>4. CASE Released
  BY <1>1, <1>4 DEF Released
<1> QED BY <1>2, <1>3, <1>4

(* More is known: two releases stay two.                                    *)
LEMMA TwoStay == TwoReleases /\ Known \subseteq Known' => TwoReleases'
  BY DEF TwoReleases

(* A step of the script at work, told by what it leaves.                    *)
LEMMA HealthFollows ==
  ASSUME HealthInv, Known \subseteq Known', faults' = 0 => faults = 0 /\ (Bad(sc') => Bad(sc) \/ TwoReleases),
         VerdictOK(sc'),
         \A r \in Object : r.kind = "Release" => phase'[r] \in {"none", "live", "gone"} /\ r \notin held',
         sc'.sub = "uninstall" => sc'.cur # {} /\ sc'.todo = <<>> /\ \A r \in sc'.cur : phase'[r] = "live",
         faults' = 0 => \A o \in Object : sc'.cur = {o} =>
                          /\ sc'.sub \in {"wait", "patch"} => phase'[o] # "live"
                          /\ sc'.sub = "get" => phase'[o] \notin {"live", "dying"}
  PROVE  ReleasesOK' /\ HealthyOK' /\ VerdictOK(sc)'
<1>1. ReleasesOK'
  BY DEF ReleasesOK
<1>2. faults' = 0 => (Bad(sc)' => TwoReleases')
  BY TwoStay DEF HealthInv, HealthyOK, Bad
<1>3. HealthyOK'
  BY <1>2 DEF HealthyOK, Visible
<1>4. VerdictOK(sc)'
  BY DEF VerdictOK, Bad
<1> QED BY <1>1, <1>3, <1>4

(* The calls of a loop on one name.                                         *)
LEMMA SubHealth ==
  ASSUME HealthInv, DeleteAccepted \/ DeleteFails \/ WaitTimesOut \/ Patch \/ PatchFails
  PROVE  ReleasesOK' /\ HealthyOK' /\ VerdictOK(sc)'
<1>1. /\ ScriptInv /\ Works /\ sc \in ScriptState /\ PhasesOK /\ HealthyOK /\ VerdictOK(sc)
      /\ faults \in Nat
  BY DEF HealthInv, ScriptInv, LeftOK, Works, ClusterOK, PhasesOK
<1>2. sc.sub \in {"delete", "wait", "patch"} /\ sc.stage \in Loops
  <2>1. sc.sub \in {"delete", "wait", "patch"}
    BY DEF DeleteAccepted, DeleteFails, WaitTimesOut, Patch, PatchFails
  <2> QED BY <1>1, <2>1, WorkPlace
<1>3. /\ Known \subseteq Known' /\ PhasesOK' /\ (Undisturbed \/ Disturbed \/ Released)
  BY <1>1, WorksDo, DisturbedIsSelected
<1>4. PICK sub \in {"wait", "patch", "get"} : sc' = [sc EXCEPT !.sub = sub]
  BY DEF DeleteAccepted, DeleteFails, WaitTimesOut, Patch, PatchFails, Sub
<1>5. /\ sc'.sub = sub /\ sc'.cur = sc.cur /\ sc'.todo = sc.todo /\ sc'.status = sc.status
      /\ sc'.failed = sc.failed /\ sc'.stage = sc.stage /\ sc'.result = sc.result
  BY <1>1, <1>4 DEF ScriptState
<1>6. VerdictOK(sc') /\ (Bad(sc') <=> Bad(sc))
  BY <1>1, <1>5 DEF VerdictOK, Bad
<1>7. \A r \in Object : r.kind = "Release" => phase'[r] \in {"none", "live", "gone"} /\ r \notin held'
  BY <1>2, <1>3, LoopsLeaveReleases DEF HealthInv, ReleasesOK
<1>8. faults' = 0 => faults = 0 /\ ~Fault
  BY <1>1 DEF DeleteAccepted, DeleteFails, CallFails, WaitTimesOut, Patch, PatchFails, Fault, clusterVars
<1>9. ASSUME faults' = 0, NEW o \in Object, sc'.cur = {o}
      PROVE  /\ sub \in {"wait", "patch"} => phase'[o] # "live"
             /\ sub = "get" => phase'[o] \notin {"live", "dying"}
  <2>1. faults = 0 /\ ~Fault /\ sc.cur = {o} /\ \A p \in Object : Named(p) => p = o
    BY <1>5, <1>8, <1>9 DEF Named
  <2>2. CASE DeleteAccepted
    <3>1. Named(o) /\ Deleted(o) /\ sub = "wait"
      BY <1>5, <2>1, <2>2 DEF DeleteAccepted, Sub
    <3> QED BY <1>1, <3>1, DeletionTouches DEF Named
  <2>3. CASE DeleteFails
    <3>1. ~Named(o) /\ UNCHANGED phase /\ sub = "patch"
      BY <1>5, <2>1, <2>3 DEF DeleteFails, CallFails, Sub
    <3> QED BY <2>1, <3>1 DEF Named, Visible
  <2>4. CASE WaitTimesOut
    <3>1. UNCHANGED phase /\ sub = "patch" /\ sc.sub = "wait"
      BY <1>5, <2>4 DEF WaitTimesOut, clusterVars, Sub
    <3> QED BY <1>1, <2>1, <3>1 DEF HealthyOK
  <2>5. CASE Patch
    <3>1. sub = "get" /\ sc.sub = "patch" /\ phase[o] # "live"
      BY <1>1, <1>5, <2>1, <2>5 DEF HealthyOK, Patch, Sub
    <3>2. CASE Named(o)
      <4>1. Vanishes(o)
        BY <2>1, <2>5, <3>1, <3>2 DEF Patch, Named, Visible
      <4> QED BY <1>1, <3>1, <4>1, VanishingTouches
    <3>3. CASE ~Named(o)
      <4>1. UNCHANGED phase /\ ~Visible(o)
        BY <2>1, <2>5, <3>3 DEF Patch, Named
      <4> QED BY <3>1, <4>1 DEF Visible
    <3> QED BY <3>2, <3>3
  <2>6. CASE PatchFails
    BY <2>1, <2>6 DEF PatchFails
  <2> QED BY <2>2, <2>3, <2>4, <2>5, <2>6
<1> QED BY <1>2, <1>3, <1>4, <1>5, <1>6, <1>7, <1>8, <1>9, HealthFollows

(* A name of a loop is dealt with.                                          *)
LEMMA LoopHealth ==
  ASSUME HealthInv, WaitEnds \/ GetFinds \/ GetFindsNothing
  PROVE  ReleasesOK' /\ HealthyOK' /\ VerdictOK(sc)'
<1>1. ScriptInv /\ sc \in ScriptState /\ HealthyOK /\ faults \in Nat /\ Undisturbed
  BY DEF HealthInv, ScriptInv, LeftOK, ClusterOK, WaitEnds, GetFinds, GetFindsNothing, clusterVars, Undisturbed
<1>2. sc.sub \in {"wait", "get"}
  BY DEF WaitEnds, GetFinds, GetFindsNothing
<1>3. PICK s \in {sc, [sc EXCEPT !.status = TRUE]} : sc' = Proceed(s) /\ (s # sc => GetFinds)
  BY DEF WaitEnds, GetFinds, GetFindsNothing
<1>4. VerdictOK(sc') /\ sc'.sub \in {"read", "delete"} /\ (Bad(sc') <=> Bad(s))
  BY <1>2, <1>3, NextJudged
<1>5. faults' = 0 => faults = 0
  BY <1>1 DEF WaitEnds, GetFinds, GetFindsNothing, Fault, clusterVars
<1>6. faults' = 0 => s = sc
  <2> SUFFICES ASSUME faults = 0, GetFinds PROVE FALSE
    BY <1>3, <1>5
  <2> QED BY <1>1 DEF GetFinds, HealthyOK, Named
<1>7. Known \subseteq Known'
  BY <1>1 DEF Undisturbed, Known, Ever
<1> QED BY <1>1, <1>4, <1>5, <1>6, <1>7, HealthFollows DEF Undisturbed, HealthInv, ReleasesOK

(* The releases of one chart in a namespace are uninstalled.                *)
LEMMA UninstallHealth ==
  ASSUME HealthInv, Uninstall \/ UninstallFails
  PROVE  ReleasesOK' /\ HealthyOK' /\ VerdictOK(sc)'
<1>1. /\ ScriptInv /\ Works /\ sc \in ScriptState /\ PhasesOK /\ HealthyOK /\ ReleasesOK /\ faults \in Nat
      /\ sc.sub = "uninstall"
  BY DEF HealthInv, ScriptInv, LeftOK, Works, ClusterOK, PhasesOK, Uninstall, UninstallFails
<1>2. sc.stage \in HelmStages /\ sc.cur # {} /\ sc.cur \subseteq Object /\ \A r \in sc.cur : phase[r] = "live"
  BY <1>1, WorkPlace DEF ReleasesOK, ScriptState
<1>3. Known \subseteq Known'
  BY <1>1, WorksDo, DisturbedIsSelected
<1>4. PICK s \in {sc, [sc EXCEPT !.status = TRUE]} : sc' = Proceed(s) /\ (s # sc => UninstallFails)
  BY DEF Uninstall, UninstallFails
<1>5. VerdictOK(sc') /\ sc'.sub \in {"read", "delete"} /\ (Bad(sc') <=> Bad(s))
  BY <1>1, <1>4, NextJudged
<1>6. ASSUME NEW o \in Object, Named(o), Deleted(o)
      PROVE  \A r \in Object : r.kind = "Release" => phase'[r] \in {"none", "live", "gone"} /\ r \notin held'
  <2>1. o.kind = "Release" /\ phase[o] = "live" /\ o \notin held /\ Instances(o) = {} /\ Visible(o)
    BY <1>1, <1>2, <1>6, NamedIsSelected, InstancesOfCrds DEF Named, ReleasesOK
  <2>2. Vanishes(o)
    BY <1>6, <2>1 DEF Deleted
  <2>3. Touches(o) /\ phase'[o] = "gone"
    BY <1>1, <2>2, VanishingTouches
  <2>4. o \notin held'
    BY <2>2 DEF Vanishes
  <2> QED BY <1>1, <2>1, <2>3, <2>4 DEF Touches, ReleasesOK
<1>7. \A r \in Object : r.kind = "Release" => phase'[r] \in {"none", "live", "gone"} /\ r \notin held'
  <2>1. CASE UNCHANGED <<phase, held>>
    BY <1>1, <2>1 DEF ReleasesOK
  <2> QED BY <1>6, <2>1 DEF Uninstall, UninstallFails, CallFails
<1>8. faults' = 0 => faults = 0
  BY <1>1 DEF Uninstall, UninstallFails, CallFails, Fault
<1>9. ASSUME faults' = 0, UninstallFails PROVE TwoReleases
  <2>1. ~\E o \in Object : Named(o)
    BY <1>1, <1>8, <1>9 DEF UninstallFails, CallFails, Fault
  <2>2. PICK r \in sc.cur : Visible(r)
    BY <1>2 DEF Visible
  <2>3. sc.cur # {r}
    BY <1>2, <2>1, <2>2 DEF Named
  <2>4. PICK p \in sc.cur : p # r
    BY <2>2, <2>3
  <2>5. \A q \in {r, p} : q \in Known /\ q.kind = "Release" /\ q.mark = sc.stage /\ q.ns = Head(sc.spaces)
    BY <1>1, <1>2, <2>2, <2>4 DEF ScriptInv, NamesOK, Names, Known
  <2> QED BY <2>4, <2>5 DEF TwoReleases
<1> QED BY <1>3, <1>4, <1>5, <1>7, <1>8, <1>9, HealthFollows

LEMMA WorksKeepHealth ==
  ASSUME HealthInv, Works
  PROVE  HealthInv'
<1>1. ScriptInv' /\ ScriptInv
  BY WorksKeep DEF HealthInv
<1>2. CASE Look \/ LookFails
  <2>1. /\ Judged(sc, sc') /\ sc'.sub \in {"read", "delete", "uninstall"}
        /\ sc'.sub = "uninstall" => sc'.cur # {} /\ sc'.todo = <<>> /\ \A r \in sc'.cur : phase'[r] = "live"
    BY <1>2, LookHealth
  <2>2. sc.stage # "end" /\ sc.result = "none"
    BY <1>1, <1>2, LookIsWell DEF HealthInv, VerdictOK
  <2>3. VerdictOK(sc')
    BY <2>1, <2>2, JudgedVerdict
  <2>4. Bad(sc') <=> Bad(sc)
    BY <2>1 DEF Judged
  <2>5. UNCHANGED <<phase, held>> /\ faults \in Nat
    BY <1>1, <1>2 DEF Look, LookFails, clusterVars, ScriptInv, ClusterOK
  <2>6. faults' = 0 => faults = 0
    BY <1>2, <2>5 DEF Look, LookFails, clusterVars, Fault
  <2>7. Known \subseteq Known'
    BY <2>5 DEF Known, Ever
  <2> QED BY <1>1, <2>1, <2>3, <2>4, <2>5, <2>6, <2>7, HealthFollows DEF HealthInv, ReleasesOK
<1>3. CASE DeleteAccepted \/ DeleteFails \/ WaitTimesOut \/ Patch \/ PatchFails
  BY <1>1, <1>3, SubHealth DEF HealthInv
<1>4. CASE WaitEnds \/ GetFinds \/ GetFindsNothing
  BY <1>1, <1>4, LoopHealth DEF HealthInv
<1>5. CASE Uninstall \/ UninstallFails
  BY <1>1, <1>5, UninstallHealth DEF HealthInv
<1> QED BY <1>2, <1>3, <1>4, <1>5 DEF Works

-----------------------------------------------------------------------------
(* The questions, and what the others do.                                   *)
LEMMA AskingHealth ==
  ASSUME HealthInv, ReadOption \/ OptionsRead \/ User
  PROVE  HealthInv'
<1>1. ScriptInv' /\ ScriptInv /\ sc \in ScriptState /\ VerdictOK(sc) /\ sc.stage \in Asking
  BY ScriptKeeps DEF HealthInv, ScriptInv, LeftOK, Script, ReadOption, OptionsRead, User, Consents,
                     Declines, NothingSelected, Asking
<1>2. UNCHANGED <<phase, held, faults>> /\ Known' = Known
  BY DEF ReadOption, OptionsRead, User, Consents, Declines, NothingSelected, clusterVars, Known, Ever
<1>3. sc.sub = "read" /\ sc.result = "none" /\ sc.stage # "end"
  BY <1>1 DEF ScriptInv, PlaceOK, ScriptState, Subs, Loops, HelmStages, Asking
<1>4. CASE Consents
  <2> DEFINE e == [sc EXCEPT !.parts = PartsOf(sc.opt), !.res = sc.opt.res]
  <2>1. /\ e \in ScriptState /\ e.parts # <<>> /\ e.status = sc.status /\ e.failed = sc.failed
        /\ e.result = sc.result /\ sc' = BeginPart(e) /\ Onward(sc, sc')
    BY <1>1, <1>4, ConsentsBegins
  <2> HIDE DEF e
  <2>2. sc'.failed = sc.failed /\ sc'.status = FALSE /\ sc'.result = "none" /\ sc'.stage \in {"probe", "ocp", "crd"}
    BY <1>3, <2>1, BeginPartJudges
  <2>3. sc'.sub = "read"
    BY <2>1 DEF Onward
  <2>4. VerdictOK(sc') /\ (Bad(sc') => Bad(sc))
    BY <2>2 DEF VerdictOK, Bad
  <2> QED BY <1>1, <1>2, <2>3, <2>4, HealthFollows DEF HealthInv, ReleasesOK
<1>5. CASE ~Consents
  <2>1. /\ sc'.failed = sc.failed /\ sc'.status = sc.status /\ sc'.sub = "read"
        /\ \/ sc'.stage # "end" /\ sc'.result = "none"
           \/ sc'.stage = "end" /\ sc'.result \in {"help", "usage", "nothing", "declined"}
    <3>1. ASSUME NEW opt, NEW left, sc' = [sc EXCEPT !.opt = opt, !.args = left]
          PROVE  /\ sc'.failed = sc.failed /\ sc'.status = sc.status /\ sc'.sub = "read"
                 /\ sc'.stage # "end" /\ sc'.result = "none"
      BY <1>1, <1>3, <3>1 DEF ScriptState
    <3>2. ASSUME NEW result \in {"help", "usage", "nothing", "declined"}, sc' = Exit(sc, result)
          PROVE  /\ sc'.failed = sc.failed /\ sc'.status = sc.status /\ sc'.sub = "read"
                 /\ sc'.stage = "end" /\ sc'.result \in {"help", "usage", "nothing", "declined"}
      BY <1>1, <1>3, <3>2 DEF ScriptState, Exit
    <3>3. CASE OptionsRead
      BY <1>1, <1>3, <3>3 DEF ScriptState, OptionsRead
    <3>4. CASE ReadOption
      <4> DEFINE Changed(opt, left) == sc' = [sc EXCEPT !.opt = opt, !.args = left]
      <4>1. \/ sc' = Exit(sc, "help") \/ sc' = Exit(sc, "usage")
            \/ Changed([sc.opt EXCEPT !.ask = FALSE], Tail(sc.args))
            \/ Changed([sc.opt EXCEPT !.crd = TRUE], Tail(sc.args))
            \/ Changed([sc.opt EXCEPT !.op = TRUE], Tail(sc.args))
            \/ Changed([sc.opt EXCEPT !.res = AllResources], Tail(sc.args))
            \/ Changed([sc.opt EXCEPT !.res = Head(Tail(sc.args)).list], Tail(Tail(sc.args)))
        BY <3>4 DEF ReadOption
      <4>2. ASSUME NEW opt, NEW left, Changed(opt, left)
            PROVE  /\ sc'.failed = sc.failed /\ sc'.status = sc.status /\ sc'.sub = "read"
                   /\ sc'.stage # "end" /\ sc'.result = "none"
        BY <3>1, <4>2
      <4> HIDE DEF Changed
      <4> QED BY <3>2, <4>1, <4>2
    <3>5. CASE Declines \/ NothingSelected
      BY <3>2, <3>5 DEF Declines, NothingSelected
    <3> QED BY <1>5, <3>3, <3>4, <3>5 DEF User
  <2>2. VerdictOK(sc') /\ (Bad(sc') => Bad(sc))
    BY <2>1 DEF VerdictOK, Bad
  <2> QED BY <1>1, <1>2, <2>1, <2>2, HealthFollows DEF HealthInv, ReleasesOK
<1> QED BY <1>4, <1>5

(* What is on its way is not made live again, and the releases are left.    *)
LEMMA OthersDo ==
  ASSUME HealthInv, NEW x \in Object,
         CrdIsCleared(x) \/ ControllerReleases(x) \/ ControllerGuards(x) \/ Creates(x)
  PROVE  /\ UNCHANGED <<faults, ocp, sc, start, blind>>
         /\ \A p \in Object : Ever(p) => \/ phase'[p] = phase[p]
                                         \/ Visible(p) /\ phase'[p] \in {"dying", "gone", "orphan"}
         /\ \A p \in Object : phase[p] = "none" => phase'[p] \in {"none", "live"}
         /\ \A r \in Object : r.kind = "Release" =>
              /\ phase'[r] = phase[r] \/ (phase[r] = "none" /\ phase'[r] = "live")
              /\ r \notin held'
<1>1. /\ ScriptInv /\ PhasesOK /\ UNCHANGED <<faults, ocp, sc, start, blind>>
      /\ \A r \in Object : r.kind = "Release" => phase[r] \in {"none", "live", "gone"} /\ r \notin held
  BY DEF HealthInv, ScriptInv, ClusterOK, PhasesOK, ReleasesOK, CrdIsCleared, ControllerReleases,
         ControllerGuards, Creates
<1>2. ASSUME NEW o \in Object, o.kind # "Release", Visible(o), Touches(o)
      PROVE  /\ \A p \in Object : Ever(p) => \/ phase'[p] = phase[p]
                                             \/ Visible(p) /\ phase'[p] \in {"dying", "gone", "orphan"}
             /\ \A p \in Object : phase[p] = "none" => phase'[p] = "none"
             /\ \A r \in Object : r.kind = "Release" => phase'[r] = phase[r] /\ r \notin held'
  <2>1. \A p \in Instances(o) : p.kind # "Release" /\ Visible(p)
    BY InstancesOfCrds
  <2>2. \A p \in Object : \/ phase'[p] = phase[p]
                          \/ Visible(p) /\ phase'[p] \in {"dying", "gone", "orphan"}
    BY <1>2, <2>1 DEF Touches
  <2>3. \A r \in Object : r.kind = "Release" => phase'[r] = phase[r] /\ r \notin held'
    BY <1>1, <1>2, <2>1 DEF Touches
  <2> QED BY <2>2, <2>3 DEF Visible
<1>3. CASE CrdIsCleared(x)
  <2>1. phase[x] = "dying" /\ x.kind = "CRD" /\ Visible(x)
    BY <1>3 DEF CrdIsCleared, Visible
  <2>2. CASE Instances(x) = {} /\ Vanishes(x)
    <3>1. Touches(x)
      BY <1>1, <2>2, VanishingTouches
    <3> QED BY <1>1, <1>2, <2>1, <3>1
  <2>3. CASE \E o \in Instances(x) : phase[o] = "live" /\ Deleted(o)
    <3>1. PICK o \in Instances(x) : phase[o] = "live" /\ Deleted(o)
      BY <2>3
    <3>2. o \in Object /\ o.kind # "Release" /\ Visible(o)
      BY InstancesOfCrds
    <3>3. Touches(o)
      BY <1>1, <3>1, <3>2, DeletionTouches
    <3> QED BY <1>1, <1>2, <3>2, <3>3
  <2> QED BY <1>3, <2>2, <2>3 DEF CrdIsCleared
<1>4. CASE ControllerReleases(x)
  <2>1. x.kind # "Release" /\ Visible(x) /\ Vanishes(x)
    BY <1>1, <1>4 DEF ControllerReleases, Visible
  <2>2. Touches(x)
    BY <1>1, <2>1, VanishingTouches
  <2> QED BY <1>1, <1>2, <2>1, <2>2
<1>5. CASE ControllerGuards(x)
  <2>1. x.kind # "Release" /\ phase' = phase /\ held' = held \cup {x}
    BY <1>5, KindAssumption DEF ControllerGuards
  <2> QED BY <1>1, <2>1
<1>6. CASE Creates(x)
  <2>1. phase[x] = "none" /\ phase' = [phase EXCEPT ![x] = "live"] /\ held' = held
    BY <1>6 DEF Creates
  <2> QED BY <1>1, <2>1 DEF PhasesOK, Ever
<1> QED BY <1>3, <1>4, <1>5, <1>6

LEMMA OthersHealth ==
  ASSUME HealthInv, NEW x \in Object,
         CrdIsCleared(x) \/ ControllerReleases(x) \/ ControllerGuards(x) \/ Creates(x)
  PROVE  HealthInv'
<1>1. ScriptInv' /\ ScriptInv /\ sc \in ScriptState
  BY CrdIsClearedKeeps, ControllerReleasesKeeps, GuardsAndCreatesKeep DEF HealthInv, ScriptInv, LeftOK
<1>2. /\ sc' = sc /\ faults' = faults
      /\ \A p \in Object : Ever(p) => \/ phase'[p] = phase[p]
                                      \/ Visible(p) /\ phase'[p] \in {"dying", "gone", "orphan"}
      /\ \A p \in Object : phase[p] = "none" => phase'[p] \in {"none", "live"}
      /\ \A r \in Object : r.kind = "Release" =>
           /\ phase'[r] = phase[r] \/ (phase[r] = "none" /\ phase'[r] = "live")
           /\ r \notin held'
  BY OthersDo
<1>3. Known \subseteq Known'
  BY <1>2 DEF Known, Ever
<1>4. \A r \in Object : r.kind = "Release" => phase'[r] \in {"none", "live", "gone"} /\ r \notin held'
  BY <1>2 DEF HealthInv, ReleasesOK
<1>5. VerdictOK(sc') /\ (Bad(sc') => Bad(sc))
  BY <1>2 DEF HealthInv
<1>6. sc'.sub = "uninstall" => sc'.cur # {} /\ sc'.todo = <<>> /\ \A r \in sc'.cur : phase'[r] = "live"
  <2> SUFFICES ASSUME sc.sub = "uninstall", NEW r \in sc.cur PROVE phase'[r] = "live"
    BY <1>2 DEF HealthInv, ReleasesOK
  <2>1. r \in Object /\ r.kind = "Release" /\ phase[r] = "live"
    BY <1>1, WorkPlace DEF HealthInv, ReleasesOK, ScriptInv, NamesOK, Names, ScriptState
  <2> QED BY <1>2, <2>1
<1>7. ASSUME faults' = 0, NEW o \in Object, sc'.cur = {o}
      PROVE  /\ sc'.sub \in {"wait", "patch"} => phase'[o] # "live"
             /\ sc'.sub = "get" => phase'[o] \notin {"live", "dying"}
  <2>1. Ever(o)
    BY <1>1, <1>2, <1>7 DEF ScriptInv, NamesOK, Names
  <2>2. /\ sc.sub \in {"wait", "patch"} => phase[o] # "live"
        /\ sc.sub = "get" => ~Visible(o)
    BY <1>2, <1>7 DEF HealthInv, HealthyOK
  <2>3. phase'[o] = phase[o] \/ (Visible(o) /\ phase'[o] \in {"dying", "gone", "orphan"})
    BY <1>2, <2>1
  <2> QED BY <1>2, <2>2, <2>3 DEF Visible
<1> QED BY <1>1, <1>2, <1>3, <1>4, <1>5, <1>6, <1>7, HealthFollows DEF HealthInv

LEMMA InitHealth == Init => HealthInv
<1> SUFFICES ASSUME Init PROVE HealthInv
  OBVIOUS
<1>1. ScriptInv
  BY InitScriptInv
<1>2. /\ sc.sub = "read" /\ sc.status = FALSE /\ sc.failed = FALSE
      /\ (sc.stage = "options" /\ sc.result = "none") \/ (sc.stage = "end" /\ sc.result = "usage")
  BY DEF Init, InitScript, Exit
<1>3. PICK w \in Worlds : phase = [o \in Object |-> IF o \in w.there THEN "live" ELSE "none"] /\ held = w.held
  BY DEF Init
<1>4. \A o \in held : o.kind # "Release"
  BY <1>3, KindAssumption
<1>5. ReleasesOK
  BY <1>2, <1>3, <1>4 DEF ReleasesOK
<1>6. HealthyOK /\ VerdictOK(sc)
  BY <1>2 DEF HealthyOK, VerdictOK, Bad
<1> QED BY <1>1, <1>5, <1>6 DEF HealthInv

LEMMA StutteringKeepsHealth ==
  ASSUME HealthInv, UNCHANGED vars
  PROVE  HealthInv'
<1>1. UNCHANGED <<phase, held, faults, ocp, sc, start, blind>> /\ ScriptInv'
  BY StutteringKeepsScript DEF vars, clusterVars, HealthInv
<1>2. ReleasesOK' /\ VerdictOK(sc)'
  BY <1>1 DEF HealthInv, ReleasesOK, VerdictOK, Bad
<1>3. HealthyOK'
  BY <1>1 DEF HealthInv, HealthyOK, Bad, TwoReleases, Known, Ever, Visible
<1> QED BY <1>1, <1>2, <1>3 DEF HealthInv

LEMMA NextKeepsHealth == HealthInv /\ [Next]_vars => HealthInv'
<1> SUFFICES ASSUME HealthInv, [Next]_vars PROVE HealthInv'
  OBVIOUS
<1>1. CASE Works
  BY <1>1, WorksKeepHealth
<1>2. CASE ReadOption \/ OptionsRead \/ User
  BY <1>2, AskingHealth
<1>3. CASE Environment
  BY <1>3, OthersHealth DEF Environment
<1>4. CASE UNCHANGED vars
  BY <1>4, StutteringKeepsHealth
<1> QED BY <1>1, <1>2, <1>3, <1>4 DEF Next, Script, Works

LEMMA HealthIsKept == Spec => []HealthInv
  BY InitHealth, NextKeepsHealth, PTL DEF Spec

(* As long as no call has failed the cleanup does not report a failure,     *)
(* whatever finalizers controllers put on: but for two releases of one      *)
(* chart in a namespace, whose names end up in one argument.                *)
THEOREM HealthyCleanupSucceedsHolds == Spec => []HealthyCleanupSucceeds
<1>1. HealthInv => HealthyCleanupSucceeds
  BY DEF HealthInv, VerdictOK, HealthyOK, Bad, HealthyCleanupSucceeds, TwoReleases, Known
<1> QED BY <1>1, HealthIsKept, PTL

-----------------------------------------------------------------------------
(***************************************************************************)
(* What a success says: where the script goes on, all that is due is due    *)
(* still.                                                                   *)
(***************************************************************************)
PartLists == {<<>>, <<"probe">>, <<"ocp">>, <<"crd">>, <<"probe", "ocp">>, <<"probe", "crd">>,
              <<"ocp", "crd">>, <<"probe", "ocp", "crd">>}

LateParts == {<<>>, <<"ocp">>, <<"crd">>, <<"ocp", "crd">>}

LEMMA ListsOfParts ==
  ASSUME NEW parts \in PartLists
  PROVE  /\ parts \in Seq({"probe", "ocp", "crd"})
         /\ parts = <<>> => ToSet(parts) = {}
         /\ parts # <<>> =>
              /\ Head(parts) \in {"probe", "ocp", "crd"} /\ Tail(parts) \in LateParts
              /\ ToSet(parts) = {Head(parts)} \cup ToSet(Tail(parts))
              /\ Head(parts) = "probe" \/ parts \in LateParts
              /\ Head(parts) = "ocp" => Tail(parts) \in {<<>>, <<"crd">>}
              /\ Head(parts) = "crd" => Tail(parts) = <<>>
         /\ parts \in LateParts => "probe" \notin ToSet(parts)
         /\ parts \in {<<>>, <<"crd">>} => "ocp" \notin ToSet(parts)
<1> DEFINE Three == {"probe", "ocp", "crd"}
<1>1. <<>> \in Seq(Three) /\ ToSet(<<>>) = {}
  BY DEF ToSet
<1>2. \A a \in Three : <<a>> \in Seq(Three) /\ <<a>> # <<>> /\ ToSet(<<a>>) = {a} /\ Head(<<a>>) = a /\ Tail(<<a>>) = <<>>
  BY DEF ToSet
<1>3. ASSUME NEW a \in Three, NEW b \in Three
      PROVE  /\ <<a, b>> \in Seq(Three) /\ <<a, b>> # <<>> /\ Head(<<a, b>>) = a /\ Tail(<<a, b>>) = <<b>>
             /\ ToSet(<<a, b>>) = {a, b}
  <2> DEFINE q == <<a, b>>
  <2>1. q \in Seq(Three) /\ q # <<>> /\ Head(q) = a /\ Tail(q) = <<b>>
    OBVIOUS
  <2> HIDE DEF q
  <2>2. ToSet(q) = {Head(q)} \cup ToSet(Tail(q))
    BY <2>1, HeadAndTail
  <2>3. ToSet(q) = {a, b}
    BY <2>1, <2>2, <1>2
  <2> QED BY <2>1, <2>3 DEF q
<1>4. LET q == <<"probe", "ocp", "crd">> IN
      q \in Seq(Three) /\ q # <<>> /\ Head(q) = "probe" /\ Tail(q) = <<"ocp", "crd">>
  OBVIOUS
<1>5. parts \in Seq(Three)
  BY <1>1, <1>2, <1>3, <1>4 DEF PartLists
<1>6. parts # <<>> => ToSet(parts) = {Head(parts)} \cup ToSet(Tail(parts))
  BY <1>5, HeadAndTail
<1>7. /\ <<"probe">> # <<>> /\ Head(<<"probe">>) = "probe" /\ Tail(<<"probe">>) = <<>>
      /\ <<"ocp">> # <<>> /\ Head(<<"ocp">>) = "ocp" /\ Tail(<<"ocp">>) = <<>>
      /\ <<"crd">> # <<>> /\ Head(<<"crd">>) = "crd" /\ Tail(<<"crd">>) = <<>>
      /\ ToSet(<<"ocp">>) = {"ocp"} /\ ToSet(<<"crd">>) = {"crd"}
  BY <1>2
<1>8. /\ <<"probe", "ocp">> # <<>> /\ Head(<<"probe", "ocp">>) = "probe" /\ Tail(<<"probe", "ocp">>) = <<"ocp">>
      /\ <<"probe", "crd">> # <<>> /\ Head(<<"probe", "crd">>) = "probe" /\ Tail(<<"probe", "crd">>) = <<"crd">>
      /\ <<"ocp", "crd">> # <<>> /\ Head(<<"ocp", "crd">>) = "ocp" /\ Tail(<<"ocp", "crd">>) = <<"crd">>
      /\ ToSet(<<"ocp", "crd">>) = {"ocp", "crd"}
  BY <1>3
<1>9. ASSUME parts # <<>>
      PROVE  /\ Head(parts) \in Three /\ Tail(parts) \in LateParts
             /\ Head(parts) = "probe" \/ parts \in LateParts
             /\ Head(parts) = "ocp" => Tail(parts) \in {<<>>, <<"crd">>}
             /\ Head(parts) = "crd" => Tail(parts) = <<>>
  <2>1. CASE parts \in {<<"probe">>, <<"ocp">>, <<"crd">>}
    BY <2>1, <1>7 DEF LateParts
  <2>2. CASE parts \in {<<"probe", "ocp">>, <<"probe", "crd">>, <<"ocp", "crd">>}
    BY <2>2, <1>8 DEF LateParts
  <2>3. CASE parts = <<"probe", "ocp", "crd">>
    BY <2>3, <1>4 DEF LateParts
  <2> QED BY <1>9, <2>1, <2>2, <2>3 DEF PartLists
<1>10. /\ parts \in LateParts => "probe" \notin ToSet(parts)
       /\ parts \in {<<>>, <<"crd">>} => "ocp" \notin ToSet(parts)
  BY <1>1, <1>7, <1>8 DEF LateParts
<1> QED BY <1>1, <1>5, <1>6, <1>9, <1>10

(* The beginning of a part: a state of its own, and the end with none left. *)
LEMMA BeginPartGives ==
  ASSUME NEW s \in ScriptState
  PROVE  LET t == BeginPart(s) IN
         /\ t.opt = s.opt /\ t.res = s.res /\ t.sub = "read"
         /\ s.parts # <<>> => t.stage = Head(s.parts) /\ t.parts = Tail(s.parts)
         /\ s.parts = <<>> => t.stage = "end" /\ t.parts = <<>>
<1> DEFINE t == BeginPart(s)
           first == Head(s.parts)
           e == Enter(s, first)
           d == Enter(s, "end")
<1>0. s.parts \in Seq({"probe", "ocp", "crd"})
  BY DEF ScriptState
<1>1. CASE s.parts # <<>>
  <2>1. first \in {"probe", "ocp", "crd"} /\ Tail(s.parts) \in Seq({"probe", "ocp", "crd"})
    BY <1>0, <1>1, HeadAndTail
  <2>2. first \in Stages
    BY <2>1 DEF Stages
  <2>3. /\ e \in ScriptState /\ e.stage = first /\ e.opt = s.opt /\ e.res = s.res /\ e.parts = s.parts
        /\ e.sub = "read"
    BY <2>2, EnterType
  <2> HIDE DEF e
  <2>4. t = [e EXCEPT !.parts = Tail(@), !.status = FALSE]
    BY <1>1 DEF BeginPart, e
  <2> HIDE DEF t, first
  <2>5. t.stage = first /\ t.opt = s.opt /\ t.res = s.res /\ t.parts = Tail(s.parts) /\ t.sub = "read"
    BY <2>3, <2>4 DEF ScriptState
  <2> QED BY <1>1, <2>5 DEF t, first
<1>2. CASE s.parts = <<>>
  <2>1. d \in ScriptState /\ d.opt = s.opt /\ d.res = s.res /\ d.sub = "read"
    BY EnterType DEF Stages
  <2> DEFINE verdict == IF s.failed THEN "failed" ELSE "success"
  <2> HIDE DEF d, verdict
  <2>2. t = [d EXCEPT !.stage = "end", !.result = verdict, !.parts = <<>>]
    BY <1>2 DEF BeginPart, Exit, d, verdict
  <2> HIDE DEF t
  <2>3. t.stage = "end" /\ t.opt = s.opt /\ t.res = s.res /\ t.parts = <<>> /\ t.sub = "read"
    BY <2>1, <2>2 DEF ScriptState
  <2> QED BY <1>2, <2>3 DEF t
<1> QED BY <1>1, <1>2

(* The order of the stages is not turned back.                              *)
InOrder(s, t) ==
  /\ OrderOK(t)
  /\ t.stage \notin {"crd", "end"} => s.stage \notin {"crd", "end"}
  /\ t.stage \in Early => s.stage \in Early

Steady(s, t) == InOrder(s, t) /\ t.sub = "read"

(* What is due in the parts that are left.                                  *)
Pending(o, s) ==
  /\ OfOlm(o, s) \/ OfCharts(o, s) => "ocp" \in ToSet(s.parts)
  /\ OfCrds(o, s) => "crd" \in ToSet(s.parts)

LEMMA BeginPartDue ==
  ASSUME NEW s \in ScriptState, s.parts \in PartLists, NEW o \in Object,
         o.kind \in ToSet(s.opt.res) => "probe" \in ToSet(s.parts) /\ o.kind \in ToSet(s.res),
         Pending(o, s)
  PROVE  Due(o, BeginPart(s), Object)
<1> DEFINE t == BeginPart(s)
           first == Head(s.parts)
<1>1. /\ t.opt = s.opt /\ t.res = s.res /\ t.sub = "read"
      /\ s.parts # <<>> => t.stage = first /\ t.parts = Tail(s.parts)
      /\ s.parts = <<>> => t.stage = "end" /\ t.parts = <<>>
  BY BeginPartGives
<1>2. /\ s.parts = <<>> => ToSet(s.parts) = {}
      /\ s.parts # <<>> =>
           /\ first \in {"probe", "ocp", "crd"}
           /\ ToSet(s.parts) = {first} \cup ToSet(Tail(s.parts))
           /\ first = "probe" \/ "probe" \notin ToSet(s.parts)
  BY ListsOfParts
<1> HIDE DEF t, first
<1>3. CASE s.parts = <<>>
  <2>1. /\ o.kind \notin ToSet(s.opt.res) /\ ~OfOlm(o, s) /\ ~OfCharts(o, s) /\ ~OfCrds(o, s)
    BY <1>2, <1>3 DEF Pending
  <2>2. /\ o.kind \notin ToSet(t.opt.res) /\ ~OfOlm(o, t) /\ ~OfCharts(o, t) /\ ~OfCrds(o, t)
    BY <1>1, <2>1 DEF OfOlm, OfCharts, OfCrds
  <2>3. Due(o, t, Object)
    BY <2>2 DEF Due
  <2> QED BY <2>3 DEF t
<1>4. CASE s.parts # <<>>
  <2>1. /\ o.kind \in ToSet(t.opt.res) => DueInRes(o, t, Object)
    BY <1>1, <1>2, <1>4 DEF DueInRes
  <2>2. OfOlm(o, t) => DueInOlm(o, t, Object)
    BY <1>1, <1>2, <1>4 DEF Pending, OfOlm, DueInOlm
  <2>3. OfCharts(o, t) => DueInCharts(o, t, Object)
    <3>1. OfCharts(o, t) => OfCharts(o, s)
      BY <1>1 DEF OfCharts
    <3> QED BY <1>1, <1>2, <1>4, <3>1 DEF Pending, DueInCharts
  <2>4. OfCrds(o, t) => DueInCrd(o, t, Object)
    BY <1>1, <1>2, <1>4 DEF Pending, OfCrds, DueInCrd
  <2> QED BY <2>1, <2>2, <2>3, <2>4 DEF Due, t
<1> QED BY <1>3, <1>4
(* What is due depends on the place of the script only.                     *)
LEMMA SameDue ==
  ASSUME NEW s, NEW t, t.opt = s.opt, t.stage = s.stage, t.parts = s.parts,
         s.stage \in {"probe", "spaces", "names"} => t.res = s.res,
         s.stage \in {"names"} \cup ChartStages => t.spaces = s.spaces,
         NEW o, NEW L, Due(o, s, L)
  PROVE  Due(o, t, L)
<1>1. o.kind \in ToSet(t.opt.res) => DueInRes(o, t, L)
  BY DEF Due, DueInRes
<1>2. OfOlm(o, t) => DueInOlm(o, t, L)
  BY DEF Due, DueInOlm, OfOlm
<1>3. OfCharts(o, t) => DueInCharts(o, t, L)
  <2>1. OfCharts(o, t) => OfCharts(o, s)
    BY DEF OfCharts
  <2> QED BY <2>1 DEF Due, DueInCharts
<1>4. OfCrds(o, t) => DueInCrd(o, t, L)
  BY DEF Due, DueInCrd, OfCrds
<1> QED BY <1>1, <1>2, <1>3, <1>4 DEF Due

LEMMA EndPartDue ==
  ASSUME NEW s \in ScriptState, OrderOK(s), s.stage \notin Asking \cup {"end"}
  PROVE  /\ Steady(s, EndPart(s)) /\ EndPart(s).stage \in {"ocp", "crd", "end"}
         /\ \A o \in Object : o.kind \notin ToSet(s.opt.res) /\ Pending(o, s) => Due(o, EndPart(s), Object)
<1> DEFINE e == [s EXCEPT !.failed = @ \/ s.status]
           t == EndPart(s)
           first == Head(s.parts)
<1>1. /\ e \in ScriptState /\ e.opt = s.opt /\ e.parts = s.parts /\ e.res = s.res /\ e.stage = s.stage
  BY DEF ScriptState
<1>2. t = BeginPart(e)
  BY DEF EndPart
<1> HIDE DEF e
<1>3. /\ t.opt = s.opt /\ t.res = s.res /\ t.sub = "read"
      /\ s.parts # <<>> => t.stage = first /\ t.parts = Tail(s.parts)
      /\ s.parts = <<>> => t.stage = "end" /\ t.parts = <<>>
  BY <1>1, <1>2, BeginPartGives
<1>4. s.parts \in LateParts /\ s.parts \in PartLists /\ (s.stage \in OpStages \cup {"crd"} => s.parts \in {<<>>, <<"crd">>})
  BY DEF OrderOK, LateParts, PartLists
<1>5. /\ s.parts = <<>> => ToSet(s.parts) = {}
      /\ s.parts # <<>> =>
           /\ first \in {"ocp", "crd"} /\ Tail(s.parts) \in LateParts
           /\ ToSet(s.parts) = {first} \cup ToSet(Tail(s.parts))
           /\ first = "ocp" => Tail(s.parts) \in {<<>>, <<"crd">>}
           /\ first = "crd" => Tail(s.parts) = <<>>
      /\ s.parts \in {<<>>, <<"crd">>} => "ocp" \notin ToSet(s.parts)
  BY <1>4, ListsOfParts
<1> HIDE DEF t, first
<1>6. OrderOK(t) /\ t.stage \in {"ocp", "crd", "end"}
  BY <1>3, <1>5 DEF OrderOK, LateParts, OpStages, ChartStages, HelmStages
<1>7. s.stage = "crd" => t.stage = "end"
  BY <1>3, <1>5 DEF OrderOK
<1>8. t.stage = "ocp" => s.stage \in Early \ OpStages
  <2>1. t.stage = "ocp" => s.parts \notin {<<>>, <<"crd">>}
    BY <1>3, <1>5
  <2> QED BY <1>4, <2>1 DEF ScriptState, Stages, Asking, Early, OpStages, ChartStages, HelmStages
<1>9. Steady(s, t)
  BY <1>3, <1>6, <1>7, <1>8 DEF Steady, InOrder, Early
<1>10. ASSUME NEW o \in Object, o.kind \notin ToSet(s.opt.res), Pending(o, s)
       PROVE  Due(o, t, Object)
  <2>1. Pending(o, e)
    <3>1. OfCharts(o, e) => OfCharts(o, s)
      BY <1>1 DEF OfCharts
    <3> QED BY <1>1, <1>10, <3>1 DEF Pending, OfOlm, OfCrds
  <2>2. Due(o, BeginPart(e), Object)
    BY <1>1, <1>4, <1>10, <2>1, BeginPartDue
  <2> QED BY <1>2, <2>2
<1> QED BY <1>6, <1>9, <1>10 DEF t

LEMMA NextResourceDue ==
  ASSUME NEW s \in ScriptState, OrderOK(s), s.stage \in {"probe", "spaces", "names"}, s.res # <<>>
  PROVE  /\ Steady(s, NextResource(s)) /\ NextResource(s).stage \in Firsts
         /\ \A o \in Object : /\ o.kind \in ToSet(s.opt.res) => o.kind \in ToSet(Tail(s.res))
                              /\ Pending(o, s)
                              => Due(o, NextResource(s), Object)
<1> DEFINE e == Enter(s, "probe")
           t == NextResource(s)
<1>0. s.res \in Seq(Resources) /\ s.stage \notin Asking \cup {"end"}
  BY DEF ScriptState, Asking
<1>1. /\ Tail(s.res) \in Seq(Resources) /\ Len(Tail(s.res)) = Len(s.res) - 1 /\ Len(s.res) \in Nat \ {0}
  BY <1>0, HeadAndTail
<1>2. CASE Len(s.res) > 1
  <2>1. e \in ScriptState /\ e.stage = "probe" /\ e.opt = s.opt /\ e.parts = s.parts /\ e.res = s.res /\ e.sub = "read"
    BY EnterType DEF Stages
  <2> HIDE DEF e
  <2>2. t = [e EXCEPT !.res = Tail(@)]
    BY <1>2 DEF NextResource, e
  <2> HIDE DEF t
  <2>3. t.stage = "probe" /\ t.opt = s.opt /\ t.parts = s.parts /\ t.res = Tail(s.res) /\ t.sub = "read"
    BY <2>1, <2>2 DEF ScriptState
  <2>4. Steady(s, t)
    BY <2>3 DEF Steady, InOrder, OrderOK, Early, OpStages, ChartStages, HelmStages
  <2>5. ASSUME NEW o \in Object, o.kind \in ToSet(s.opt.res) => o.kind \in ToSet(Tail(s.res)), Pending(o, s)
        PROVE  Due(o, t, Object)
    <3>1. o.kind \in ToSet(t.opt.res) => DueInRes(o, t, Object)
      BY <2>3, <2>5 DEF DueInRes
    <3>2. OfOlm(o, t) => DueInOlm(o, t, Object)
      BY <2>3, <2>5 DEF DueInOlm, OfOlm, Pending
    <3>3. OfCharts(o, t) => DueInCharts(o, t, Object)
      <4>1. OfCharts(o, t) => OfCharts(o, s)
        BY <2>3 DEF OfCharts
      <4> QED BY <2>3, <2>5, <4>1 DEF DueInCharts, Pending
    <3>4. OfCrds(o, t) => DueInCrd(o, t, Object)
      BY <2>3, <2>5 DEF DueInCrd, OfCrds, Pending
    <3> QED BY <3>1, <3>2, <3>3, <3>4 DEF Due
  <2> QED BY <2>3, <2>4, <2>5 DEF t, Firsts
<1>3. CASE ~(Len(s.res) > 1)
  <2> DEFINE q == Tail(s.res)
             n == Len(s.res)
  <2>1. q \in Seq(Resources) /\ Len(q) = n - 1 /\ n \in Nat \ {0} /\ ~(n > 1)
    BY <1>1, <1>3
  <2> HIDE DEF q, n
  <2>2. q = <<>> /\ ToSet(<<>>) = {}
    <3>1. Len(q) = 0
      BY <2>1
    <3>2. q = <<>>
      BY <2>1, <3>1
    <3> QED BY <3>2 DEF ToSet
  <2>3. ToSet(Tail(s.res)) = {}
    BY <2>2 DEF q
  <2>4. t = EndPart(s)
    BY <1>3 DEF NextResource
  <2> HIDE DEF t
  <2>5. /\ Steady(s, t) /\ t.stage \in {"ocp", "crd", "end"}
        /\ \A o \in Object : o.kind \notin ToSet(s.opt.res) /\ Pending(o, s) => Due(o, t, Object)
    BY <1>0, <2>4, EndPartDue
  <2> QED BY <2>3, <2>5 DEF t, Firsts
<1> QED BY <1>2, <1>3
(* Into a loop over namespaces, or past it.                                 *)
LEMMA VisitGives ==
  ASSUME NEW s \in ScriptState, NEW spaces \in Seq(Columns), NEW after \in ScriptState,
         NEW stage \in {"names", "tvm"}
  PROVE  LET t == Visit(s, spaces, stage, after) IN
         /\ t.spaces = spaces
         /\ spaces # <<>> => /\ t.stage = stage /\ t.sub = "read" /\ t.opt = s.opt /\ t.parts = s.parts
                             /\ t.res = s.res
         /\ spaces = <<>> => /\ t.stage = after.stage /\ t.sub = after.sub /\ t.opt = after.opt
                             /\ t.parts = after.parts /\ t.res = after.res
<1> DEFINE t == Visit(s, spaces, stage, after)
           e == Enter(s, stage)
<1>1. CASE spaces # <<>>
  <2>1. stage \in Stages
    BY DEF Stages
  <2>2. /\ e \in ScriptState /\ e.stage = stage /\ e.sub = "read" /\ e.opt = s.opt /\ e.parts = s.parts
        /\ e.res = s.res
    BY <2>1, EnterType
  <2> HIDE DEF e
  <2>3. t = [e EXCEPT !.spaces = spaces]
    BY <1>1 DEF Visit, e
  <2> HIDE DEF t
  <2>4. /\ t.stage = stage /\ t.sub = "read" /\ t.opt = s.opt /\ t.parts = s.parts /\ t.res = s.res
        /\ t.spaces = spaces
    BY <2>2, <2>3 DEF ScriptState
  <2> QED BY <1>1, <2>4 DEF t
<1>2. CASE spaces = <<>>
  <2>1. t = [after EXCEPT !.spaces = spaces]
    BY <1>2 DEF Visit
  <2> HIDE DEF t
  <2>2. /\ t.stage = after.stage /\ t.sub = after.sub /\ t.opt = after.opt /\ t.parts = after.parts
        /\ t.res = after.res /\ t.spaces = spaces
    BY <2>1 DEF ScriptState
  <2> QED BY <1>2, <2>2 DEF t
<1> QED BY <1>1, <1>2

LEMMA VisitNamesDue ==
  ASSUME NEW s, LeftOK(s), s.todo = <<>>, OrderOK(s), s.stage \in {"spaces", "names"}, s.res # <<>>,
         NEW spaces \in Seq(Columns)
  PROVE  LET t == Visit(s, spaces, "names", NextResource(s)) IN
         /\ Steady(s, t)
         /\ \A o \in Object : /\ o.kind \in ToSet(s.opt.res) =>
                                   \/ o.kind \in ToSet(Tail(s.res))
                                   \/ o.kind = Head(s.res) /\ FirstColumn(o) \in ToSet(spaces)
                              /\ Pending(o, s)
                              => Due(o, t, Object)
<1> DEFINE after == NextResource(s)
           t == Visit(s, spaces, "names", after)
<1>1. s \in ScriptState
  BY DEF LeftOK
<1>2. after \in ScriptState /\ after.opt = s.opt
  BY NextResourceOK DEF Onward, LeftOK
<1>3. /\ Steady(s, after) /\ after.stage \in Firsts
      /\ \A o \in Object : /\ o.kind \in ToSet(s.opt.res) => o.kind \in ToSet(Tail(s.res))
                           /\ Pending(o, s)
                           => Due(o, after, Object)
  BY <1>1, NextResourceDue
<1> HIDE DEF after
<1>4. /\ t.spaces = spaces
      /\ spaces # <<>> => /\ t.stage = "names" /\ t.sub = "read" /\ t.opt = s.opt /\ t.parts = s.parts
                          /\ t.res = s.res
      /\ spaces = <<>> => /\ t.stage = after.stage /\ t.sub = after.sub /\ t.opt = after.opt
                          /\ t.parts = after.parts /\ t.res = after.res
  BY <1>1, <1>2, VisitGives
<1> HIDE DEF t
<1>5. CASE spaces # <<>>
  <2>1. Steady(s, t)
    BY <1>4, <1>5 DEF Steady, InOrder, OrderOK, Early, OpStages, ChartStages, HelmStages
  <2>2. ToSet(spaces) = {Head(spaces)} \cup ToSet(Tail(spaces))
    BY <1>5, HeadAndTail
  <2>3. ASSUME NEW o \in Object, Pending(o, s),
               o.kind \in ToSet(s.opt.res) => \/ o.kind \in ToSet(Tail(s.res))
                                              \/ o.kind = Head(s.res) /\ FirstColumn(o) \in ToSet(spaces)
        PROVE  Due(o, t, Object)
    <3>1. o.kind \in ToSet(t.opt.res) => DueInRes(o, t, Object)
      BY <1>4, <1>5, <2>2, <2>3 DEF DueInRes
    <3>2. OfOlm(o, t) => DueInOlm(o, t, Object)
      BY <1>4, <1>5, <2>3 DEF DueInOlm, OfOlm, Pending
    <3>3. OfCharts(o, t) => DueInCharts(o, t, Object)
      <4>1. OfCharts(o, t) => OfCharts(o, s)
        BY <1>4, <1>5 DEF OfCharts
      <4> QED BY <1>4, <1>5, <2>3, <4>1 DEF DueInCharts, Pending
    <3>4. OfCrds(o, t) => DueInCrd(o, t, Object)
      BY <1>4, <1>5, <2>3 DEF DueInCrd, OfCrds, Pending
    <3> QED BY <3>1, <3>2, <3>3, <3>4 DEF Due
  <2> QED BY <2>1, <2>3 DEF t, after
<1>6. CASE spaces = <<>>
  <2>1. ToSet(<<>>) = {}
    BY DEF ToSet
  <2>2. Steady(s, t)
    BY <1>3, <1>4, <1>6 DEF Steady, InOrder, OrderOK
  <2>3. after.stage \notin {"names"} \cup ChartStages
    BY <1>3 DEF Firsts, ChartStages, HelmStages
  <2>4. ASSUME NEW o \in Object, Pending(o, s),
               o.kind \in ToSet(s.opt.res) => \/ o.kind \in ToSet(Tail(s.res))
                                              \/ o.kind = Head(s.res) /\ FirstColumn(o) \in ToSet(spaces)
        PROVE  Due(o, t, Object)
    <3>1. Due(o, after, Object)
      BY <1>3, <1>6, <2>1, <2>4
    <3> QED BY <1>4, <1>6, <2>3, <3>1, SameDue
  <2> QED BY <2>2, <2>4 DEF t, after
<1> QED BY <1>5, <1>6

LEMMA VisitChartsDue ==
  ASSUME NEW s, LeftOK(s), s.todo = <<>>, OrderOK(s), s.stage \in {"charts", "cron"},
         NEW spaces \in Seq(Columns)
  PROVE  LET t == Visit(s, spaces, "tvm", EndPart(s)) IN
         /\ Steady(s, t)
         /\ \A o \in Object : /\ o.kind \notin ToSet(s.opt.res) /\ ~OfOlm(o, s)
                              /\ OfCharts(o, s) => o.ns \in ToSet(spaces)
                              /\ OfCrds(o, s) => "crd" \in ToSet(s.parts)
                              => Due(o, t, Object)
<1> DEFINE after == EndPart(s)
           t == Visit(s, spaces, "tvm", after)
<1>1. s \in ScriptState /\ s.stage \notin Asking \cup {"end"}
  BY DEF LeftOK, Asking
<1>2. after \in ScriptState /\ after.opt = s.opt
  BY EndPartOK DEF Onward, LeftOK
<1>3. /\ Steady(s, after) /\ after.stage \in {"ocp", "crd", "end"}
      /\ \A o \in Object : o.kind \notin ToSet(s.opt.res) /\ Pending(o, s) => Due(o, after, Object)
  BY <1>1, EndPartDue
<1> HIDE DEF after
<1>4. /\ t.spaces = spaces
      /\ spaces # <<>> => /\ t.stage = "tvm" /\ t.sub = "read" /\ t.opt = s.opt /\ t.parts = s.parts
                          /\ t.res = s.res
      /\ spaces = <<>> => /\ t.stage = after.stage /\ t.sub = after.sub /\ t.opt = after.opt
                          /\ t.parts = after.parts /\ t.res = after.res
  BY <1>1, <1>2, VisitGives
<1> HIDE DEF t
<1>5. CASE spaces # <<>>
  <2>1. Steady(s, t)
    BY <1>4, <1>5 DEF Steady, InOrder, OrderOK, Early, OpStages, ChartStages, HelmStages
  <2>2. ToSet(spaces) = {Head(spaces)} \cup ToSet(Tail(spaces))
    BY <1>5, HeadAndTail
  <2>3. ASSUME NEW o \in Object, o.kind \notin ToSet(s.opt.res), ~OfOlm(o, s),
               OfCharts(o, s) => o.ns \in ToSet(spaces), OfCrds(o, s) => "crd" \in ToSet(s.parts)
        PROVE  Due(o, t, Object)
    <3>1. o.kind \notin ToSet(t.opt.res) /\ ~OfOlm(o, t)
      BY <1>4, <1>5, <2>3 DEF OfOlm
    <3>2. OfCharts(o, t) => DueInCharts(o, t, Object)
      <4> SUFFICES ASSUME OfCharts(o, t) PROVE DueInCharts(o, t, Object)
        OBVIOUS
      <4>1. OfCharts(o, s)
        BY <1>4, <1>5 DEF OfCharts
      <4>2. o.ns \in ToSet(Tail(t.spaces)) \/ o.ns = Head(t.spaces)
        BY <1>4, <2>2, <2>3, <4>1
      <4>3. t.stage \in Before(StageOf(o)) \/ t.stage = StageOf(o)
        BY <1>4, <1>5, <4>1 DEF OfCharts, StageOf, Before
      <4> QED BY <1>4, <1>5, <4>2, <4>3 DEF DueInCharts, ChartStages
    <3>3. OfCrds(o, t) => DueInCrd(o, t, Object)
      BY <1>4, <1>5, <2>3 DEF DueInCrd, OfCrds
    <3> QED BY <3>1, <3>2, <3>3 DEF Due
  <2> QED BY <2>1, <2>3 DEF t, after
<1>6. CASE spaces = <<>>
  <2>1. ToSet(<<>>) = {}
    BY DEF ToSet
  <2>2. Steady(s, t)
    BY <1>3, <1>4, <1>6 DEF Steady, InOrder, OrderOK
  <2>3. after.stage \notin {"probe", "spaces", "names"} \cup ChartStages
    BY <1>3 DEF ChartStages, HelmStages
  <2>4. ASSUME NEW o \in Object, o.kind \notin ToSet(s.opt.res), ~OfOlm(o, s),
               OfCharts(o, s) => o.ns \in ToSet(spaces), OfCrds(o, s) => "crd" \in ToSet(s.parts)
        PROVE  Due(o, t, Object)
    <3>1. Pending(o, s)
      BY <1>6, <2>1, <2>4 DEF Pending
    <3>2. Due(o, after, Object)
      BY <1>3, <2>4, <3>1
    <3> QED BY <1>4, <1>6, <2>3, <3>2, SameDue
  <2> QED BY <2>2, <2>4 DEF t, after
<1> QED BY <1>5, <1>6
(* A stage is left with all it had to deal with dealt with.                 *)
LEMMA LeaveDue ==
  ASSUME NEW s, LeftOK(s), PlaceOK(s), s.todo = <<>>, OrderOK(s), s.stage \in Deleting
  PROVE  /\ Steady(s, Leave(s))
         /\ \A o \in Object : Due(o, s, {}) => Due(o, Leave(s), Object)
<1> DEFINE t == Leave(s)
<1>1. s \in ScriptState /\ s.spaces \in Seq(Columns) /\ s.parts \in PartLists
  BY DEF LeftOK, ScriptState, OrderOK, PartLists
<1>2. s.stage \in {"names"} \cup ChartStages => Tail(s.spaces) \in Seq(Columns)
  BY <1>1, HeadAndTail DEF PlaceOK
<1>3. s.stage \in OpStages \cup {"crd"} => "ocp" \notin ToSet(s.parts)
  BY <1>1, ListsOfParts DEF OrderOK
<1>4. CASE s.stage = "names"
  <2>1. s.res # <<>> /\ t = Visit(s, Tail(s.spaces), "names", NextResource(s)) /\ Tail(s.spaces) \in Seq(Columns)
    BY <1>2, <1>4 DEF PlaceOK, Leave
  <2>2. \A o \in Object : Due(o, s, {}) =>
          /\ o.kind \in ToSet(s.opt.res) => \/ o.kind \in ToSet(Tail(s.res))
                                            \/ o.kind = Head(s.res) /\ FirstColumn(o) \in ToSet(Tail(s.spaces))
          /\ Pending(o, s)
    BY <1>4 DEF Due, DueInRes, DueInOlm, DueInCharts, DueInCrd, Pending, ChartStages, HelmStages
  <2> HIDE DEF t
  <2>3. /\ Steady(s, t)
        /\ \A o \in Object : /\ o.kind \in ToSet(s.opt.res) =>
                                   \/ o.kind \in ToSet(Tail(s.res))
                                   \/ o.kind = Head(s.res) /\ FirstColumn(o) \in ToSet(Tail(s.spaces))
                             /\ Pending(o, s)
                             => Due(o, t, Object)
    BY <1>4, <2>1, VisitNamesDue
  <2> QED BY <2>2, <2>3 DEF t
<1>5. CASE s.stage = "cron"
  <2>1. t = Visit(s, Tail(s.spaces), "tvm", EndPart(s)) /\ Tail(s.spaces) \in Seq(Columns)
    BY <1>2, <1>5 DEF Leave, ChartStages
  <2>2. ASSUME NEW o \in Object, Due(o, s, {})
        PROVE  /\ o.kind \notin ToSet(s.opt.res) /\ ~OfOlm(o, s)
               /\ OfCharts(o, s) => o.ns \in ToSet(Tail(s.spaces))
               /\ OfCrds(o, s) => "crd" \in ToSet(s.parts)
    <3>1. o.kind \notin ToSet(s.opt.res) /\ ~OfOlm(o, s) /\ (OfCrds(o, s) => "crd" \in ToSet(s.parts))
      BY <1>3, <1>5, <2>2 DEF Due, DueInRes, DueInOlm, DueInCrd, OpStages, ChartStages
    <3>2. ASSUME OfCharts(o, s) PROVE o.ns \in ToSet(Tail(s.spaces))
      <4>1. DueInCharts(o, s, {})
        BY <2>2, <3>2 DEF Due
      <4>2. "cron" \notin Before(StageOf(o))
        BY <3>2 DEF OfCharts, StageOf, Before
      <4> QED BY <1>3, <1>5, <4>1, <4>2 DEF DueInCharts, OpStages, ChartStages
    <3> QED BY <3>1, <3>2
  <2> HIDE DEF t
  <2>3. /\ Steady(s, t)
        /\ \A o \in Object : /\ o.kind \notin ToSet(s.opt.res) /\ ~OfOlm(o, s)
                             /\ OfCharts(o, s) => o.ns \in ToSet(Tail(s.spaces))
                             /\ OfCrds(o, s) => "crd" \in ToSet(s.parts)
                             => Due(o, t, Object)
    BY <1>5, <2>1, VisitChartsDue
  <2> QED BY <2>2, <2>3 DEF t
<1>6. CASE s.stage = "crd"
  <2>1. t = EndPart(s) /\ s.stage \notin Asking \cup {"end"}
    BY <1>6 DEF Leave, Asking
  <2>2. \A o \in Object : Due(o, s, {}) => o.kind \notin ToSet(s.opt.res) /\ Pending(o, s)
    BY <1>3, <1>6 DEF Due, DueInRes, DueInOlm, DueInCharts, DueInCrd, Pending, ChartStages, HelmStages
  <2> HIDE DEF t
  <2>3. Steady(s, t) /\ \A o \in Object : o.kind \notin ToSet(s.opt.res) /\ Pending(o, s) => Due(o, t, Object)
    BY <1>1, <2>1, EndPartDue
  <2> QED BY <2>2, <2>3 DEF t
<1>7. CASE s.stage \in {"subscription", "csv", "tvm", "manager", "operator"}
  <2> DEFINE stage == After[s.stage]
  <2>1. /\ s.stage = "subscription" => stage = "csv"
        /\ s.stage = "csv" => stage = "charts"
        /\ s.stage = "tvm" => stage = "manager"
        /\ s.stage = "manager" => stage = "operator"
        /\ s.stage = "operator" => stage = "cron"
    BY DEF After
  <2>2. t = Enter(s, stage)
    BY <1>7 DEF Leave
  <2> HIDE DEF stage, t
  <2>3. stage \in Stages /\ stage \in OpStages \ {"ocp", "subscription"}
    BY <1>7, <2>1 DEF Stages, OpStages, ChartStages, HelmStages
  <2>4. /\ t.stage = stage /\ t.sub = "read" /\ t.opt = s.opt /\ t.parts = s.parts /\ t.res = s.res
        /\ t.spaces = s.spaces
    BY <1>1, <2>2, <2>3, EnterType
  <2>5. s.stage \in OpStages
    BY <1>7 DEF OpStages, ChartStages, HelmStages
  <2>6. Steady(s, t)
    BY <1>7, <2>1, <2>3, <2>4, <2>5 DEF Steady, InOrder, OrderOK, Early, OpStages, ChartStages, HelmStages
  <2>7. ASSUME NEW o \in Object, Due(o, s, {})
        PROVE  Due(o, t, Object)
    <3>1. o.kind \notin ToSet(t.opt.res)
      BY <1>7, <2>4, <2>7 DEF Due, DueInRes
    <3>2. OfOlm(o, t) => DueInOlm(o, t, Object)
      BY <1>3, <1>7, <2>1, <2>4, <2>5, <2>7 DEF Due, DueInOlm, OfOlm
    <3>3. OfCharts(o, t) => DueInCharts(o, t, Object)
      <4> SUFFICES ASSUME OfCharts(o, t) PROVE DueInCharts(o, t, Object)
        OBVIOUS
      <4>1. OfCharts(o, s)
        BY <2>4 DEF OfCharts
      <4>2. DueInCharts(o, s, {})
        BY <2>7, <4>1 DEF Due
      <4>3. CASE s.stage \in {"subscription", "csv"}
        BY <2>1, <2>4, <4>3 DEF DueInCharts
      <4>4. CASE s.stage \in {"tvm", "manager", "operator"}
        <5>1. /\ StageOf(o) \in {"tvm", "manager", "operator", "cron"}
          BY <4>1 DEF OfCharts, StageOf
        <5>2. s.stage \in Before(StageOf(o)) => stage \in Before(StageOf(o)) \/ stage = StageOf(o)
          BY <2>1, <4>4, <5>1 DEF Before
        <5>3. stage \in ChartStages /\ s.stage \in ChartStages
          BY <2>1, <4>4 DEF ChartStages, HelmStages
        <5> QED BY <1>3, <2>4, <2>5, <4>2, <4>4, <5>2, <5>3 DEF DueInCharts
      <4> QED BY <1>7, <4>3, <4>4
    <3>4. OfCrds(o, t) => DueInCrd(o, t, Object)
      BY <1>7, <2>4, <2>7 DEF Due, DueInCrd, OfCrds
    <3> QED BY <3>1, <3>2, <3>3, <3>4 DEF Due
  <2> QED BY <2>6, <2>7 DEF t
<1> QED BY <1>4, <1>5, <1>6, <1>7 DEF Deleting, Loops, HelmStages

(* On to the next name, or out of the stage.                                *)
LEMMA ProceedDue ==
  ASSUME NEW s, LeftOK(s), PlaceOK(s), OrderOK(s), s.stage \in Deleting
  PROVE  LET t == Proceed(s) IN
         /\ InOrder(s, t)
         /\ \A o \in Object : Due(o, s, Among(s, ToSet(s.todo))) => Due(o, t, Now(t))
<1> DEFINE t == Proceed(s)
<1>1. s \in ScriptState /\ s.todo \in Seq(SUBSET Object)
  BY DEF LeftOK, ScriptState
<1>2. CASE s.todo # <<>>
  <2> DEFINE sub == IF s.stage \in Loops THEN "delete" ELSE "uninstall"
  <2>1. /\ t = [s EXCEPT !.cur = Head(s.todo), !.todo = Tail(s.todo), !.sub = sub]
        /\ Names(t) = ToSet(s.todo)
    BY <1>2, ProceedOK
  <2>2. sub # "read"
    OBVIOUS
  <2> HIDE DEF t, sub
  <2>3. /\ t.stage = s.stage /\ t.opt = s.opt /\ t.parts = s.parts /\ t.res = s.res /\ t.spaces = s.spaces
        /\ t.sub = sub
    BY <1>1, <2>1 DEF ScriptState
  <2>4. InOrder(s, t)
    BY <2>3 DEF InOrder, OrderOK
  <2>5. Now(t) = Among(s, ToSet(s.todo))
    BY <2>1, <2>2, <2>3 DEF Now, Among
  <2>6. \A o \in Object : Due(o, s, Among(s, ToSet(s.todo))) => Due(o, t, Now(t))
    BY <2>3, <2>5, SameDue
  <2> QED BY <2>3, <2>4, <2>6 DEF t
<1>3. CASE s.todo = <<>>
  <2> DEFINE q == [s EXCEPT !.cur = {}]
  <2>1. /\ q \in ScriptState /\ q.opt = s.opt /\ q.parts = s.parts /\ q.res = s.res /\ q.spaces = s.spaces
        /\ q.stage = s.stage /\ q.result = s.result /\ q.todo = s.todo /\ q.cur = {} /\ q.sub = s.sub
    BY <1>1 DEF ScriptState
  <2>2. t = Leave(q)
    BY <1>3 DEF Proceed
  <2> HIDE DEF q, t
  <2>3. LeftOK(q) /\ OrderOK(q)
    BY <2>1 DEF LeftOK, OrderOK
  <2>4. PlaceOK(q)
    BY <2>1 DEF PlaceOK
  <2>5. Steady(q, t) /\ \A o \in Object : Due(o, q, {}) => Due(o, t, Object)
    BY <1>3, <2>1, <2>2, <2>3, <2>4, LeaveDue
  <2>6. Among(s, ToSet(s.todo)) = {}
    BY <1>3 DEF Among, ToSet
  <2>7. Now(t) = Object
    BY <2>5 DEF Steady, InOrder, Now
  <2>8. \A o \in Object : Due(o, s, {}) => Due(o, q, {})
    BY <2>1, SameDue
  <2> QED BY <2>1, <2>5, <2>6, <2>7, <2>8 DEF Steady, InOrder, t
<1> QED BY <1>2, <1>3
-----------------------------------------------------------------------------
(* What is owed has been selected, in one of the parts.                     *)
LEMMA OwedIsOf ==
  ASSUME ScriptInv, NEW o \in Owed
  PROVE  /\ o \in Object /\ Ever(o) /\ Alone(o)
         /\ o.kind \in ToSet(sc.opt.res) \/ OfOlm(o, sc) \/ OfCharts(o, sc) \/ OfCrds(o, sc)
<1>1. o \in start /\ start \subseteq Known /\ SelectedAmong(o, start) /\ Alone(o)
  BY DEF Owed, ScriptInv, ClusterOK
<1> QED BY <1>1 DEF Known, SelectedAmong, OfOlm, OfCharts, OfCrds

(* Nothing is out of reach before it has been dealt with.                   *)
LEMMA StillThere ==
  ASSUME SuccessInv, sc.stage # "end", NEW o \in Owed, phase[o] # "gone", Due(o, sc, Now(sc))
  PROVE  Visible(o) /\ (sc.stage # "crd" => HasKind(o.kind))
<1>1. /\ ScriptInv /\ ServedOK /\ OrderOK(sc) /\ phase \in [Object -> Phases]
  BY DEF SuccessInv, HealthInv, ScriptInv, ClusterOK
<1>2. /\ o \in Object /\ Ever(o)
      /\ o.kind \in ToSet(sc.opt.res) \/ OfOlm(o, sc) \/ OfCharts(o, sc) \/ OfCrds(o, sc)
  BY <1>1, OwedIsOf
<1>3. ASSUME sc.stage = "crd" PROVE o.kind = "CRD"
  <2>1. ToSet(sc.parts) = {}
    BY <1>1, <1>3 DEF OrderOK, ToSet
  <2>2. o.kind \notin ToSet(sc.opt.res) /\ ~OfOlm(o, sc) /\ ~OfCharts(o, sc)
    BY <1>3, <2>1 DEF Due, DueInRes, DueInOlm, DueInCharts, ChartStages, HelmStages
  <2> QED BY <1>2, <2>2 DEF OfCrds
<1>4. phase[o] # "orphan"
  BY <1>1, <1>2, <1>3 DEF ServedOK
<1>5. Visible(o)
  BY <1>1, <1>2, <1>4 DEF Phases, Visible, Ever
<1> QED BY <1>1, <1>2, <1>5 DEF ServedOK

LEMMA DueOfOthers ==
  ASSUME NEW o, NEW s, NEW L, NEW M, Due(o, s, L), o \in L => o \in M
  PROVE  Due(o, s, M)
  BY DEF Due, DueInRes, DueInOlm, DueInCharts, DueInCrd

(* A listing finds what is due in its stage, and keeps it apart.            *)
LEMMA ListedIsDue ==
  ASSUME SuccessInv, NEW stage \in Deleting, At(stage, "read"), NEW o \in Owed, Visible(o), Due(o, sc, Object)
  PROVE  Due(o, sc, Listed(stage))
<1>1. /\ ScriptInv /\ OrderOK(sc) /\ sc.stage = stage /\ sc.parts \in PartLists
  BY DEF SuccessInv, HealthInv, OrderOK, At, PartLists
<1>2. o \in Object
  BY <1>1, OwedIsOf
<1>3. o.kind \in ToSet(sc.opt.res) => DueInRes(o, sc, Listed(stage))
  <2> SUFFICES ASSUME o.kind \in ToSet(sc.opt.res), stage = "names", o.kind = Head(sc.res),
                      FirstColumn(o) = Head(sc.spaces)
               PROVE  o \in Listed(stage)
    BY <1>1 DEF Due, DueInRes
  <2> QED BY <1>2 DEF Listed, Kind, Space, FirstColumn
<1>4. OfOlm(o, sc) => DueInOlm(o, sc, Listed(stage))
  <2> SUFFICES ASSUME OfOlm(o, sc), stage \in {"subscription", "csv"}, stage = "subscription" => o.kind # "CSV",
                      stage = "csv" => o.kind = "CSV"
               PROVE  o \in Listed(stage)
    BY <1>1 DEF Due, DueInOlm
  <2> QED BY <1>2 DEF Listed, OfOlm
<1>5. OfCharts(o, sc) => DueInCharts(o, sc, Listed(stage))
  <2> SUFFICES ASSUME OfCharts(o, sc), stage \in ChartStages, stage = StageOf(o), o.ns = Head(sc.spaces)
               PROVE  o \in Listed(stage)
    BY <1>1 DEF Due, DueInCharts
  <2>1. \/ stage = "tvm" /\ o.kind = "TriliovaultManager"
        \/ stage = "cron" /\ o.kind = "CronJob" /\ o.mark = "tvk"
        \/ stage \in HelmStages /\ o.kind = "Release" /\ o.mark = stage
    BY DEF OfCharts, StageOf, HelmStages
  <2> QED BY <1>2, <2>1 DEF Listed, TvkCron, Space, HelmStages
<1>6. OfCrds(o, sc) => DueInCrd(o, sc, Listed(stage))
  <2> SUFFICES ASSUME OfCrds(o, sc), stage = "crd" PROVE o \in Listed(stage)
    BY <1>1 DEF Due, DueInCrd
  <2> QED BY <1>2 DEF Listed, OfCrds
<1> QED BY <1>3, <1>4, <1>5, <1>6 DEF Due

LEMMA ListedIsApart ==
  ASSUME SuccessInv, NEW stage \in Deleting, At(stage, "read"), NEW o \in Owed, o \in Listed(stage)
  PROVE  o \in Among(sc, ToSet(Queue(stage, Listed(stage))))
<1> DEFINE S == Listed(stage)
           names == ToSet(Queue(stage, S))
<1>1. /\ ScriptInv /\ sc.stage = stage
  BY DEF SuccessInv, HealthInv, At
<1>2. o \in Object /\ Alone(o)
  BY <1>1, OwedIsOf
<1>3. S \in SUBSET Object
  BY DEF Listed
<1>4. names = IF stage \in {"names", "crd"} THEN {{p} : p \in S}
              ELSE IF S = {} /\ stage # "tvm" THEN {} ELSE {S}
  BY <1>3, QueueType
<1>5. stage \in {"subscription", "csv", "tvm", "cron"} => S = {o}
  <2> SUFFICES ASSUME stage \in {"subscription", "csv", "tvm", "cron"}, NEW p \in S PROVE p = o
    BY <1>2
  <2>1. /\ p \in Object /\ Ever(p) /\ p.kind = o.kind /\ p.ns = o.ns
        /\ o.kind \in {"Subscription", "CSV", "TriliovaultManager", "CronJob"}
        /\ p.mark = o.mark \/ o.kind = "TriliovaultManager"
    BY DEF Listed, TvkCron, Visible, Ever
  <2> QED BY <1>2, <2>1 DEF Alone
<1> HIDE DEF S, names
<1>6. \E N \in names : o \in N /\ (stage \in Loops => N = {o})
  <2>0. o \in S
    BY DEF S
  <2>1. CASE stage \in {"names", "crd"}
    BY <1>4, <2>0, <2>1
  <2>2. CASE stage \in {"subscription", "csv", "tvm", "cron"}
    BY <1>4, <1>5, <2>0, <2>2
  <2>3. CASE stage \in HelmStages
    BY <1>4, <2>0, <2>3 DEF HelmStages, Loops
  <2> QED BY <2>1, <2>2, <2>3 DEF Deleting, Loops
<1> QED BY <1>1, <1>2, <1>6 DEF Among, names, S
(* The calls that look: they find all that is due, unless they fail.        *)
LEMMA ListingDue ==
  ASSUME SuccessInv, NEW stage \in Deleting, At(stage, "read"), NEW S \in SUBSET Listed(stage)
  PROVE  LET t == Proceed([sc EXCEPT !.todo = Queue(stage, S)]) IN
         /\ InOrder(sc, t)
         /\ S = Listed(stage) => \A o \in Owed : Due(o, sc, Now(sc)) => phase[o] = "gone" \/ Due(o, t, Now(t))
<1> DEFINE q == Queue(stage, S)
           s == [sc EXCEPT !.todo = q]
           t == Proceed(s)
<1>1. S \in SUBSET Object
  BY DEF Listed
<1>2. q \in Seq(SUBSET Object)
  BY <1>1, QueueType
<1>3. /\ ScriptInv /\ LeftOK(sc) /\ PlaceOK(sc) /\ OrderOK(sc) /\ sc \in ScriptState
      /\ sc.stage = stage /\ sc.sub = "read"
  BY DEF SuccessInv, HealthInv, ScriptInv, LeftOK, At
<1> HIDE DEF q
<1>4. /\ s \in ScriptState /\ s.opt = sc.opt /\ s.parts = sc.parts /\ s.res = sc.res /\ s.spaces = sc.spaces
      /\ s.stage = stage /\ s.result = sc.result /\ s.sub = sc.sub /\ s.cur = sc.cur /\ s.todo = q
  BY <1>2, <1>3 DEF ScriptState
<1> HIDE DEF s
<1>5. LeftOK(s) /\ OrderOK(s)
  BY <1>3, <1>4 DEF LeftOK, OrderOK
<1>6. PlaceOK(s)
  BY <1>3, <1>4 DEF PlaceOK
<1>7. InOrder(s, t) /\ \A o \in Object : Due(o, s, Among(s, ToSet(q))) => Due(o, t, Now(t))
  BY <1>4, <1>5, <1>6, ProceedDue
<1> HIDE DEF t
<1>8. InOrder(sc, t)
  BY <1>3, <1>4, <1>7 DEF InOrder
<1>9. ASSUME S = Listed(stage), NEW o \in Owed, phase[o] # "gone", Due(o, sc, Now(sc))
      PROVE  Due(o, t, Now(t))
  <2>1. o \in Object
    BY <1>3, OwedIsOf
  <2>2. sc.stage # "end"
    BY <1>3 DEF Deleting, Loops, HelmStages
  <2>3. Visible(o)
    BY <1>9, <2>2, StillThere
  <2>4. Due(o, sc, Object)
    BY <1>3, <1>9 DEF Now
  <2>5. Due(o, sc, Listed(stage))
    BY <2>3, <2>4, ListedIsDue
  <2>6. o \in Listed(stage) => o \in Among(sc, ToSet(Queue(stage, Listed(stage))))
    BY ListedIsApart
  <2>7. Among(s, ToSet(q)) = Among(sc, ToSet(Queue(stage, Listed(stage))))
    BY <1>3, <1>4, <1>9 DEF Among, q
  <2>8. Due(o, sc, Among(s, ToSet(q)))
    BY <2>5, <2>6, <2>7, DueOfOthers
  <2>9. Due(o, s, Among(s, ToSet(q)))
    BY <1>3, <1>4, <2>8, SameDue
  <2> QED BY <1>7, <2>1, <2>9
<1> QED BY <1>8, <1>9 DEF t, s, q

LEMMA LookDue ==
  ASSUME SuccessInv, Look \/ LookFails
  PROVE  /\ InOrder(sc, sc')
         /\ ~LookFails => \A o \in Owed : Due(o, sc, Now(sc)) => phase[o] = "gone" \/ Due(o, sc', Now(sc'))
<1>0. /\ ScriptInv /\ LeftOK(sc) /\ PlaceOK(sc) /\ OrderOK(sc) /\ ServedOK /\ sc \in ScriptState
      /\ sc.sub = "read" => sc.todo = <<>> /\ Now(sc) = Object
  BY DEF SuccessInv, HealthInv, ScriptInv, LeftOK, ReadOK, Now
<1>1. CASE At("probe", "read")
  <2> DEFINE t == Enter(sc, "spaces")
  <2>1. /\ sc.todo = <<>> /\ sc.stage = "probe" /\ sc.res # <<>> /\ Now(sc) = Object
        /\ sc.res \in Seq(Resources)
    BY <1>0, <1>1 DEF At, PlaceOK, ScriptState
  <2>2. \/ sc' = t
        \/ sc' = NextResource(sc) /\ (~LookFails => ~HasKind(Kind))
    BY <2>1 DEF Look, LookFails, At, Loops
  <2>3. CASE sc' = t
    <3>1. /\ t.stage = "spaces" /\ t.sub = "read" /\ t.opt = sc.opt /\ t.parts = sc.parts /\ t.res = sc.res
      BY <1>0, EnterType DEF Stages
    <3> HIDE DEF t
    <3>2. InOrder(sc, t) /\ Now(t) = Object
      BY <1>0, <2>1, <3>1 DEF InOrder, OrderOK, Early, OpStages, ChartStages, HelmStages, Now
    <3>3. ASSUME NEW o \in Owed, Due(o, sc, Object) PROVE Due(o, t, Object)
      <4>1. o.kind \in ToSet(t.opt.res) => DueInRes(o, t, Object)
        BY <2>1, <3>1, <3>3 DEF Due, DueInRes
      <4>2. OfOlm(o, t) => DueInOlm(o, t, Object)
        BY <2>1, <3>1, <3>3 DEF Due, DueInOlm, OfOlm
      <4>3. OfCharts(o, t) => DueInCharts(o, t, Object)
        <5>1. OfCharts(o, t) => OfCharts(o, sc)
          BY <3>1 DEF OfCharts
        <5> QED BY <2>1, <3>1, <3>3, <5>1 DEF Due, DueInCharts, ChartStages, HelmStages
      <4>4. OfCrds(o, t) => DueInCrd(o, t, Object)
        BY <2>1, <3>1, <3>3 DEF Due, DueInCrd, OfCrds
      <4> QED BY <4>1, <4>2, <4>3, <4>4 DEF Due
    <3> QED BY <2>1, <2>3, <3>2, <3>3
  <2>4. CASE sc' = NextResource(sc) /\ (~LookFails => ~HasKind(Kind))
    <3> DEFINE u == NextResource(sc)
    <3>1. /\ Steady(sc, u)
          /\ \A o \in Object : /\ o.kind \in ToSet(sc.opt.res) => o.kind \in ToSet(Tail(sc.res))
                               /\ Pending(o, sc)
                               => Due(o, u, Object)
      BY <1>0, <2>1, NextResourceDue
    <3> HIDE DEF u
    <3>2. InOrder(sc, u) /\ Now(u) = Object
      BY <3>1 DEF Steady, Now
    <3>3. ToSet(sc.res) = {Head(sc.res)} \cup ToSet(Tail(sc.res))
      BY <2>1, HeadAndTail
    <3>4. ASSUME ~LookFails, NEW o \in Owed, Due(o, sc, Object), phase[o] # "gone"
          PROVE  Due(o, u, Object)
      <4>1. o \in Object
        BY <1>0, OwedIsOf
      <4>2. HasKind(o.kind)
        BY <2>1, <3>4, StillThere
      <4>3. o.kind # Head(sc.res)
        BY <2>4, <3>4, <4>2 DEF Kind
      <4>4. o.kind \in ToSet(sc.opt.res) => o.kind \in ToSet(Tail(sc.res))
        BY <2>1, <3>3, <3>4, <4>3 DEF Due, DueInRes
      <4>5. Pending(o, sc)
        BY <2>1, <3>4 DEF Due, DueInOlm, DueInCharts, DueInCrd, Pending, ChartStages, HelmStages
      <4> QED BY <3>1, <4>1, <4>4, <4>5
    <3> QED BY <2>1, <2>4, <3>2, <3>4 DEF u
  <2> QED BY <2>2, <2>3, <2>4
<1>2. CASE At("spaces", "read")
  <2> DEFINE S == {p \in Object : Visible(p) /\ p.kind = Kind}
             list == SetToSeq({FirstColumn(o) : o \in S})
             t == Visit(sc, list, "names", NextResource(sc))
             u == NextResource(sc)
  <2>1. /\ sc.todo = <<>> /\ sc.stage = "spaces" /\ sc.res # <<>> /\ Now(sc) = Object
        /\ sc.res \in Seq(Resources)
    BY <1>0, <1>2 DEF At, PlaceOK, ScriptState
  <2>2. sc' = t \/ (sc' = u /\ LookFails)
    BY <2>1 DEF Look, LookFails, At, Loops
  <2>3. list \in Seq(Columns) /\ ToSet(list) = {FirstColumn(o) : o \in S}
    BY ColumnsType
  <2> HIDE DEF list
  <2>4. /\ Steady(sc, t)
        /\ \A o \in Object : /\ o.kind \in ToSet(sc.opt.res) =>
                                   \/ o.kind \in ToSet(Tail(sc.res))
                                   \/ o.kind = Head(sc.res) /\ FirstColumn(o) \in ToSet(list)
                             /\ Pending(o, sc)
                             => Due(o, t, Object)
    BY <1>0, <2>1, <2>3, VisitNamesDue
  <2>5. Steady(sc, u)
    BY <1>0, <2>1, NextResourceDue
  <2> HIDE DEF t, u
  <2>6. InOrder(sc, t) /\ InOrder(sc, u) /\ Now(t) = Object
    BY <2>4, <2>5 DEF Steady, Now
  <2>7. ToSet(sc.res) = {Head(sc.res)} \cup ToSet(Tail(sc.res))
    BY <2>1, HeadAndTail
  <2>8. ASSUME NEW o \in Owed, Due(o, sc, Object), phase[o] # "gone"
        PROVE  Due(o, t, Object)
    <3>1. o \in Object
      BY <1>0, OwedIsOf
    <3>2. Visible(o)
      BY <2>1, <2>8, StillThere
    <3>3. o.kind = Head(sc.res) => FirstColumn(o) \in ToSet(list)
      BY <2>3, <3>1, <3>2 DEF Kind
    <3>4. o.kind \in ToSet(sc.opt.res) => \/ o.kind \in ToSet(Tail(sc.res))
                                          \/ o.kind = Head(sc.res) /\ FirstColumn(o) \in ToSet(list)
      BY <2>1, <2>7, <2>8, <3>3 DEF Due, DueInRes
    <3>5. Pending(o, sc)
      BY <2>1, <2>8 DEF Due, DueInOlm, DueInCharts, DueInCrd, Pending, ChartStages, HelmStages
    <3> QED BY <2>4, <3>1, <3>4, <3>5
  <2> QED BY <2>1, <2>2, <2>6, <2>8
<1>3. CASE At("ocp", "read")
  <2>1. sc.stage = "ocp" /\ Now(sc) = Object /\ sc.parts \in {<<>>, <<"crd">>}
    BY <1>0, <1>3 DEF At, OrderOK, OpStages
  <2>2. PICK stage \in {"subscription", "charts"} :
          sc' = Enter(sc, stage) /\ (~LookFails /\ ocp => stage = "subscription")
    BY <2>1 DEF Look, LookFails, At, Loops
  <2> DEFINE t == Enter(sc, stage)
  <2>3. t.stage = stage /\ t.sub = "read" /\ t.opt = sc.opt /\ t.parts = sc.parts
    BY <1>0, EnterType DEF Stages
  <2> HIDE DEF t
  <2>4. InOrder(sc, t) /\ Now(t) = Object
    BY <2>1, <2>3 DEF InOrder, OrderOK, Early, OpStages, ChartStages, HelmStages, Now
  <2>5. ASSUME ~LookFails, NEW o \in Owed, Due(o, sc, Object) PROVE Due(o, t, Object)
    <3>1. o.kind \notin ToSet(t.opt.res)
      BY <2>1, <2>3, <2>5 DEF Due, DueInRes
    <3>2. OfOlm(o, t) => DueInOlm(o, t, Object)
      <4>1. o \in Object
        BY <1>0, OwedIsOf
      <4> QED BY <2>2, <2>3, <2>5, <4>1 DEF OfOlm, DueInOlm
    <3>3. DueInCharts(o, t, Object)
      BY <2>3 DEF DueInCharts
    <3>4. OfCrds(o, t) => DueInCrd(o, t, Object)
      BY <2>1, <2>3, <2>5 DEF Due, DueInCrd, OfCrds
    <3> QED BY <3>1, <3>2, <3>3, <3>4 DEF Due
  <2> QED BY <2>1, <2>2, <2>4, <2>5 DEF t
<1>4. CASE At("charts", "read")
  <2> DEFINE u == EndPart(sc)
  <2>1. /\ sc.todo = <<>> /\ sc.stage = "charts" /\ Now(sc) = Object
        /\ sc.parts \in {<<>>, <<"crd">>} /\ sc.parts \in PartLists
    BY <1>0, <1>4 DEF At, OrderOK, OpStages, PartLists
  <2>2. (\E list \in ChartSpaces : sc' = Visit(sc, list, "tvm", EndPart(sc))) \/ (sc' = u /\ LookFails)
    BY <2>1 DEF Look, LookFails, At, Loops
  <2>3. InOrder(sc, u)
    BY <1>0, <2>1, EndPartDue DEF Steady, Asking
  <2>4. ASSUME NEW list \in ChartSpaces, sc' = Visit(sc, list, "tvm", EndPart(sc))
        PROVE  /\ InOrder(sc, sc')
               /\ \A o \in Owed : Due(o, sc, Object) => Due(o, sc', Now(sc'))
    <3>1. /\ list \in Seq(Columns)
          /\ ToSet(list) = {r.ns : r \in {p \in Object : p.kind = "Release" /\ Visible(p) /\ p.mark # "other"}}
      BY ChartSpacesType
    <3>2. /\ Steady(sc, sc')
          /\ \A o \in Object : /\ o.kind \notin ToSet(sc.opt.res) /\ ~OfOlm(o, sc)
                               /\ OfCharts(o, sc) => o.ns \in ToSet(list)
                               /\ OfCrds(o, sc) => "crd" \in ToSet(sc.parts)
                               => Due(o, sc', Object)
      BY <1>0, <2>1, <2>4, <3>1, VisitChartsDue
    <3>3. InOrder(sc, sc') /\ Now(sc') = Object
      BY <3>2 DEF Steady, Now
    <3>4. ASSUME NEW o \in Owed, Due(o, sc, Object) PROVE Due(o, sc', Object)
      <4>1. o \in Object
        BY <1>0, OwedIsOf
      <4>2. "ocp" \notin ToSet(sc.parts)
        BY <2>1, ListsOfParts
      <4>3. o.kind \notin ToSet(sc.opt.res) /\ ~OfOlm(o, sc) /\ (OfCrds(o, sc) => "crd" \in ToSet(sc.parts))
        BY <2>1, <3>4, <4>2 DEF Due, DueInRes, DueInOlm, DueInCrd
      <4>4. OfCharts(o, sc) => o.ns \in ToSet(list)
        <5> SUFFICES ASSUME OfCharts(o, sc) PROVE o.ns \in ToSet(list)
          OBVIOUS
        <5>1. PICK r \in start : r.kind = "Release" /\ r.mark # "other" /\ r.ns = o.ns
          BY DEF OfCharts
        <5>2. r \in Object /\ Visible(r)
          BY <1>0, <2>1, <5>1 DEF ServedOK, Early, ScriptInv, ClusterOK, Known, Visible
        <5> QED BY <3>1, <5>1, <5>2
      <4> QED BY <3>2, <4>1, <4>3, <4>4
    <3> QED BY <3>3, <3>4
  <2> QED BY <2>1, <2>2, <2>3, <2>4
<1>5. ASSUME NEW stage \in Loops \cup HelmStages, At(stage, "read")
      PROVE  /\ InOrder(sc, sc')
             /\ ~LookFails => \A o \in Owed : Due(o, sc, Now(sc)) => phase[o] = "gone" \/ Due(o, sc', Now(sc'))
  <2>1. stage \in Deleting /\ sc.stage = stage
    BY <1>5 DEF Deleting, At
  <2>2. PICK S \in {Listed(stage), {}} :
          sc' = Proceed([sc EXCEPT !.todo = Queue(stage, S)]) /\ (~LookFails => S = Listed(stage))
    BY <2>1 DEF Look, LookFails, At, Loops, HelmStages
  <2>3. S \in SUBSET Listed(stage)
    BY <2>2
  <2> QED BY <1>5, <2>1, <2>2, <2>3, ListingDue
<1>6. \/ At("probe", "read") \/ At("spaces", "read") \/ At("ocp", "read") \/ At("charts", "read")
      \/ \E stage \in Loops \cup HelmStages : At(stage, "read")
  BY DEF Look, LookFails, HelmStages
<1> QED BY <1>1, <1>2, <1>3, <1>4, <1>5, <1>6
-----------------------------------------------------------------------------
(* What a call does to the store: an object it deletes is not left behind.  *)
LEMMA WorkServes ==
  ASSUME SuccessInv, Works
  PROVE  /\ \A p \in Object : phase[p] = "gone" => phase'[p] = "gone"
         /\ \A p \in Object : p.kind = "CRD" => phase'[p] # "orphan"
         /\ sc.stage \notin {"crd", "end"} =>
              \A p \in Object : /\ phase'[p] = phase[p] \/ (Visible(p) /\ p.kind # "CRD" /\ phase'[p] \in {"dying", "gone"})
         /\ sc.stage \in Early => \A r \in Object : r.kind = "Release" => phase'[r] = phase[r]
<1>1. /\ HealthInv /\ ScriptInv /\ ServedOK /\ PhasesOK /\ sc \in ScriptState
      /\ sc.sub = "read" => sc.cur = {}
  BY DEF SuccessInv, HealthInv, ScriptInv, ClusterOK, PhasesOK, LeftOK, ReadOK
<1>2. Undisturbed \/ Disturbed \/ Released
  BY <1>1, WorksDo
<1>3. CASE Undisturbed \/ Released
  BY <1>1, <1>3 DEF Undisturbed, Released, ServedOK
<1>4. CASE Disturbed
  <2>1. PICK o \in Object : Named(o) /\ (Deleted(o) \/ Vanishes(o))
    BY <1>4 DEF Disturbed
  <2>2. /\ Visible(o)
        /\ sc.stage \in Loops \ {"crd"} => o.kind \notin {"CRD", "Release"}
        /\ sc.stage = "crd" => o.kind = "CRD"
        /\ sc.stage \in HelmStages => o.kind = "Release"
    BY <1>1, <2>1, NamedIsSelected
  <2>3. sc.sub # "read"
    BY <1>1, <2>1 DEF Named
  <2>4. sc.stage \in Loops \cup HelmStages
    BY <1>1, <2>3, WorkPlace DEF Deleting
  <2>5. Touches(o) /\ phase'[o] \in {"dying", "gone"}
    BY <1>1, <2>1, <2>2, DeletionTouches, VanishingTouches
  <2>6. /\ o.kind # "CRD" => Instances(o) = {}
        /\ \A p \in Instances(o) : p \in Object /\ p.kind \notin {"CRD", "Release"} /\ Visible(p)
    BY InstancesOfCrds
  <2>7. \A p \in Object : phase[p] = "gone" => phase'[p] = "gone"
    BY <2>2, <2>5, <2>6 DEF Touches, Visible
  <2>8. \A p \in Object : p.kind = "CRD" => phase'[p] # "orphan"
    BY <1>1, <2>5, <2>6 DEF Touches, ServedOK
  <2>9. sc.stage \notin {"crd", "end"} =>
          \A p \in Object : phase'[p] = phase[p] \/ (Visible(p) /\ p.kind # "CRD" /\ phase'[p] \in {"dying", "gone"})
    <3> SUFFICES ASSUME sc.stage \notin {"crd", "end"}, NEW p \in Object
                 PROVE  phase'[p] = phase[p] \/ (Visible(p) /\ p.kind # "CRD" /\ phase'[p] \in {"dying", "gone"})
      OBVIOUS
    <3>1. o.kind # "CRD" /\ Instances(o) = {}
      BY <2>2, <2>4, <2>6
    <3> QED BY <2>2, <2>5, <3>1 DEF Touches
  <2>10. ASSUME sc.stage \in Early PROVE \A r \in Object : r.kind = "Release" => phase'[r] = phase[r]
    <3>1. sc.stage \in Loops
      BY <2>4, <2>10 DEF Early, HelmStages
    <3> QED BY <1>1, <1>4, <3>1, LoopsLeaveReleases
  <2> QED BY <2>7, <2>8, <2>9, <2>10
<1> QED BY <1>2, <1>3, <1>4

(* What has its CRD keeps it.                                               *)
LEMMA ServedFollows ==
  ASSUME ServedOK, InOrder(sc, sc'), start \subseteq Object, start' = start,
         \A p \in Object : p.kind = "CRD" => phase'[p] # "orphan",
         sc.stage \notin {"crd", "end"} =>
           \A p \in Object : \/ phase'[p] = phase[p]
                             \/ Visible(p) /\ p.kind # "CRD" /\ phase'[p] \in {"dying", "gone"}
                             \/ phase[p] = "none" /\ phase'[p] = "live" /\ HasKind(p.kind),
         sc.stage \in Early => \A r \in start : r.kind = "Release" => phase'[r] = phase[r]
  PROVE  ServedOK'
<1>1. ASSUME sc.stage \notin {"crd", "end"}
      PROVE  \A o \in Object : /\ phase'[o] # "orphan"
                               /\ phase'[o] \in {"live", "dying"} => HasKind(o.kind)'
                               /\ o.kind = "CRD" => phase'[o] \in {"none", "live"}
  <2> TAKE o \in Object
  <2>1. \A crd \in Object : crd.kind = "CRD" => phase'[crd] = phase[crd] \/ (phase[crd] = "none" /\ phase'[crd] = "live")
    BY <1>1
  <2>2. \A crd \in Object : crd.kind = "CRD" /\ phase[crd] \in {"live", "dying"} => phase'[crd] \in {"live", "dying"}
    BY <2>1
  <2>3. HasKind(o.kind) => HasKind(o.kind)'
    BY <2>2 DEF HasKind, Visible
  <2>4. phase'[o] \in {"live", "dying"} => HasKind(o.kind)
    BY <1>1 DEF ServedOK, Visible
  <2>5. phase'[o] # "orphan" /\ (o.kind = "CRD" => phase'[o] \in {"none", "live"})
    BY <1>1, <2>1 DEF ServedOK
  <2> QED BY <2>3, <2>4, <2>5
<1>2. sc.stage \in Early => \A r \in start : r.kind = "Release" => phase'[r] = "live"
  BY DEF ServedOK
<1>3. sc'.stage \notin {"crd", "end"} =>
        \A o \in Object : /\ phase'[o] # "orphan" /\ (Visible(o)' => HasKind(o.kind)')
                          /\ o.kind = "CRD" => phase'[o] \in {"none", "live"}
  BY <1>1 DEF InOrder, Visible
<1>4. sc'.stage \in Early => \A r \in start' : r.kind = "Release" => phase'[r] = "live"
  BY <1>2 DEF InOrder
<1> QED BY <1>3, <1>4 DEF ServedOK

(* What is due by the new state of the script is due in the new state.      *)
LEMMA DueStays ==
  ASSUME ocp' = ocp, start' = start, NEW o, Due(o, sc', Now(sc'))
  PROVE  Due(o, sc, Now(sc))'
<1>1. OfOlm(o, sc)' <=> OfOlm(o, sc')
  BY DEF OfOlm
<1>2. OfCharts(o, sc)' <=> OfCharts(o, sc')
  BY DEF OfCharts
<1>3. OfCrds(o, sc)' <=> OfCrds(o, sc')
  BY DEF OfCrds
<1>4. Now(sc)' = Now(sc')
  BY DEF Now, Among, Names
<1> QED BY <1>1, <1>2, <1>3, <1>4 DEF Due, DueInRes, DueInOlm, DueInCharts, DueInCrd, FirstColumn

LEMMA OwedStays ==
  ASSUME ocp' = ocp, start' = start, sc'.opt = sc.opt, Known \subseteq Known'
  PROVE  Owed' \subseteq Owed
<1> SUFFICES ASSUME NEW o \in start, SelectedAmong(o, start)', Alone(o)' PROVE SelectedAmong(o, start) /\ Alone(o)
  BY DEF Owed
<1>1. SelectedAmong(o, start)
  BY DEF SelectedAmong
<1>2. \A p \in Object : Ever(p) => Ever(p)'
  BY DEF Known
<1>3. Alone(o)
  BY <1>2 DEF Alone
<1> QED BY <1>1, <1>3

LEMMA SuccessFollows ==
  ASSUME SuccessInv, HealthInv', ServedOK', OrderOK(sc'),
         ocp' = ocp, start' = start, sc'.opt = sc.opt, Known \subseteq Known',
         \A p \in Object : phase[p] = "gone" => phase'[p] = "gone",
         Clean' => /\ Clean
                   /\ \A o \in Owed : Due(o, sc, Now(sc)) => phase'[o] = "gone" \/ Due(o, sc', Now(sc'))
  PROVE  SuccessInv'
<1>1. OrderOK(sc)'
  BY DEF OrderOK
<1>2. Owed' \subseteq Owed
  BY OwedStays
<1>3. Owed \subseteq Object
  BY OwedIsOf DEF SuccessInv, HealthInv
<1>4. ASSUME Clean', NEW o \in Owed' PROVE phase'[o] = "gone" \/ Due(o, sc, Now(sc))'
  <2>1. o \in Owed /\ o \in Object
    BY <1>2, <1>3, <1>4
  <2>2. phase[o] = "gone" \/ Due(o, sc, Now(sc))
    BY <1>4, <2>1 DEF SuccessInv
  <2>3. phase'[o] = "gone" \/ Due(o, sc', Now(sc'))
    BY <1>4, <2>1, <2>2
  <2> QED BY <2>3, DueStays
<1> QED BY <1>1, <1>4 DEF SuccessInv
(* A name is dealt with: what is still due is among the others, or later.   *)
LEMMA NextDue ==
  ASSUME SuccessInv, sc.sub # "read", NEW s, s = sc \/ s = [sc EXCEPT !.status = TRUE]
  PROVE  LET t == Proceed(s) IN
         /\ InOrder(sc, t)
         /\ \A o \in Owed : Due(o, sc, Now(sc)) =>
              Due(o, t, Now(t)) \/ (o \in sc.cur /\ (sc.stage \in Loops => sc.cur = {o}))
<1> DEFINE t == Proceed(s)
<1>1. ScriptInv /\ LeftOK(sc) /\ PlaceOK(sc) /\ OrderOK(sc) /\ sc \in ScriptState
  BY DEF SuccessInv, HealthInv, ScriptInv, LeftOK
<1>2. /\ s \in ScriptState /\ s.opt = sc.opt /\ s.parts = sc.parts /\ s.res = sc.res /\ s.spaces = sc.spaces
      /\ s.stage = sc.stage /\ s.result = sc.result /\ s.sub = sc.sub /\ s.cur = sc.cur /\ s.todo = sc.todo
  BY <1>1 DEF ScriptState
<1>3. LeftOK(s) /\ PlaceOK(s)
  BY <1>1, <1>2 DEF LeftOK, PlaceOK
<1>4. OrderOK(s)
  BY <1>1, <1>2 DEF OrderOK
<1>5. s.stage \in Deleting
  BY <1>1, <1>2, WorkPlace
<1>6. InOrder(s, t) /\ \A o \in Object : Due(o, s, Among(s, ToSet(s.todo))) => Due(o, t, Now(t))
  BY <1>3, <1>4, <1>5, ProceedDue
<1> HIDE DEF t
<1>7. InOrder(sc, t)
  BY <1>2, <1>6 DEF InOrder
<1>8. ASSUME NEW o \in Owed, Due(o, sc, Now(sc)), ~(o \in sc.cur /\ (sc.stage \in Loops => sc.cur = {o}))
      PROVE  Due(o, t, Now(t))
  <2>1. o \in Object
    BY <1>1, OwedIsOf
  <2>2. o \in Now(sc) => o \in Among(s, ToSet(s.todo))
    BY <1>2, <1>8 DEF Now, Among, Names
  <2>3. Due(o, sc, Among(s, ToSet(s.todo)))
    BY <1>8, <2>2, DueOfOthers
  <2>4. Due(o, s, Among(s, ToSet(s.todo)))
    BY <1>2, <2>3, SameDue
  <2> QED BY <1>6, <2>1, <2>4
<1> QED BY <1>7, <1>8 DEF t

(* The calls of the script at work: what is due by its new state.           *)
DoneBy ==
  /\ InOrder(sc, sc')
  /\ Clean' => /\ Clean
               /\ \A o \in Owed : Due(o, sc, Now(sc)) => phase'[o] = "gone" \/ Due(o, sc', Now(sc'))

LEMMA LookIsDone ==
  ASSUME SuccessInv, Look \/ LookFails
  PROVE  DoneBy
<1>1. /\ InOrder(sc, sc')
      /\ ~LookFails => \A o \in Owed : Due(o, sc, Now(sc)) => phase[o] = "gone" \/ Due(o, sc', Now(sc'))
  BY LookDue
<1>2. Bad(sc') <=> Bad(sc)
  BY LookHealth DEF SuccessInv, Judged
<1>3. LookFails => blind' = TRUE
  BY DEF LookFails
<1>4. ~LookFails => UNCHANGED <<phase, blind>>
  BY DEF Look, clusterVars
<1>5. Clean' => Clean /\ ~LookFails
  BY <1>2, <1>3, <1>4 DEF Clean, Bad
<1> QED BY <1>1, <1>4, <1>5 DEF DoneBy

LEMMA SubIsDone ==
  ASSUME SuccessInv, DeleteAccepted \/ DeleteFails \/ WaitTimesOut \/ Patch \/ PatchFails
  PROVE  DoneBy
<1>1. sc \in ScriptState /\ OrderOK(sc)
  BY DEF SuccessInv, HealthInv, ScriptInv, LeftOK
<1>2. sc.sub \in {"delete", "wait", "patch"} /\ blind' = blind
  BY DEF DeleteAccepted, DeleteFails, WaitTimesOut, Patch, PatchFails
<1>3. PICK sub \in {"wait", "patch", "get"} : sc' = [sc EXCEPT !.sub = sub]
  BY DEF DeleteAccepted, DeleteFails, WaitTimesOut, Patch, PatchFails, Sub
<1>4. /\ sc'.sub = sub /\ sc'.cur = sc.cur /\ sc'.todo = sc.todo /\ sc'.status = sc.status
      /\ sc'.failed = sc.failed /\ sc'.stage = sc.stage /\ sc'.opt = sc.opt /\ sc'.parts = sc.parts
      /\ sc'.res = sc.res /\ sc'.spaces = sc.spaces
  BY <1>1, <1>3 DEF ScriptState
<1>5. InOrder(sc, sc')
  BY <1>1, <1>4 DEF InOrder, OrderOK
<1>6. Clean' => Clean
  BY <1>2, <1>4 DEF Clean, Bad
<1>7. Now(sc') = Now(sc)
  BY <1>2, <1>4 DEF Now, Among, Names
<1>8. \A o \in Owed : Due(o, sc, Now(sc)) => Due(o, sc', Now(sc'))
  BY <1>4, <1>7, SameDue
<1> QED BY <1>5, <1>6, <1>8 DEF DoneBy

LEMMA NextIsDone ==
  ASSUME SuccessInv, WaitEnds \/ GetFinds \/ GetFindsNothing \/ Uninstall \/ UninstallFails
  PROVE  DoneBy
<1>1. /\ HealthInv /\ ScriptInv /\ PhasesOK /\ ReleasesOK /\ sc \in ScriptState
  BY DEF SuccessInv, HealthInv, ScriptInv, LeftOK, ClusterOK, PhasesOK
<1>2. sc.sub \in {"wait", "get", "uninstall"}
  BY DEF WaitEnds, GetFinds, GetFindsNothing, Uninstall, UninstallFails
<1>3. PICK s \in {sc, [sc EXCEPT !.status = TRUE]} :
        sc' = Proceed(s) /\ (GetFinds \/ UninstallFails => s = [sc EXCEPT !.status = TRUE])
  <2>1. CASE GetFinds \/ UninstallFails
    BY <2>1 DEF GetFinds, UninstallFails
  <2>2. CASE ~(GetFinds \/ UninstallFails)
    BY <2>2 DEF WaitEnds, GetFindsNothing, Uninstall
  <2> QED BY <2>1, <2>2
<1>4. Bad(sc') <=> Bad(s)
  BY <1>1, <1>2, <1>3, NextJudged
<1>5. /\ InOrder(sc, sc')
      /\ \A o \in Owed : Due(o, sc, Now(sc)) =>
           Due(o, sc', Now(sc')) \/ (o \in sc.cur /\ (sc.stage \in Loops => sc.cur = {o}))
  BY <1>2, <1>3, NextDue
<1>6. Bad(sc) => Bad(s)
  BY <1>1, <1>3 DEF Bad, ScriptState
<1>7. GetFinds \/ UninstallFails => Bad(s)
  BY <1>1, <1>3 DEF Bad, ScriptState
<1>8. Clean' => /\ Clean /\ ~GetFinds /\ ~UninstallFails
                /\ WaitEnds \/ (GetFindsNothing /\ ~\E o \in Object : Named(o)) \/ Uninstall
  <2>1. Clean' => ~Bad(s) /\ blind' = FALSE
    BY <1>4 DEF Clean, Bad
  <2>2. blind' = FALSE => blind = FALSE
    BY DEF WaitEnds, GetFinds, GetFindsNothing, Uninstall, UninstallFails
  <2>3. blind' = FALSE /\ GetFindsNothing => ~\E o \in Object : Named(o)
    BY DEF GetFindsNothing
  <2> QED BY <1>6, <1>7, <2>1, <2>2, <2>3 DEF Clean
<1>9. ASSUME Clean', NEW o \in Owed, Due(o, sc, Now(sc)), phase[o] # "gone", ~Due(o, sc', Now(sc'))
      PROVE  phase'[o] = "gone"
  <2>1. o \in sc.cur /\ (sc.stage \in Loops => sc.cur = {o}) /\ o \in Object
    BY <1>1, <1>5, <1>9, OwedIsOf
  <2>2. sc.stage # "end"
    BY <1>1, <1>2, WorkPlace
  <2>3. Visible(o)
    BY <1>9, <2>2, StillThere
  <2>4. CASE WaitEnds \/ (GetFindsNothing /\ ~\E p \in Object : Named(p))
    <3>1. sc.stage \in Loops /\ ~\E p \in Object : Named(p)
      BY <1>1, <2>4, WorkPlace DEF WaitEnds, GetFindsNothing
    <3> QED BY <2>1, <2>3, <3>1 DEF Named
  <2>5. CASE Uninstall
    <3>1. PICK r \in Object : Named(r) /\ Deleted(r)
      BY <2>5 DEF Uninstall
    <3>2. r = o /\ sc.stage \in HelmStages
      BY <1>1, <2>1, <2>5, <3>1, WorkPlace DEF Named, Uninstall
    <3>3. o.kind = "Release"
      BY <1>1, <3>1, <3>2, NamedIsSelected
    <3>4. o \notin held /\ Instances(o) = {}
      BY <1>1, <2>1, <3>3, InstancesOfCrds DEF ReleasesOK
    <3>5. Vanishes(o)
      BY <3>1, <3>2, <3>4 DEF Deleted
    <3> QED BY <1>1, <2>1, <3>5, VanishingTouches
  <2> QED BY <1>8, <1>9, <2>4, <2>5
<1>10. \A o \in Object : phase[o] = "gone" => phase'[o] = "gone"
  BY WorkServes DEF Works
<1>11. Owed \subseteq Object
  BY <1>1, OwedIsOf
<1> QED BY <1>5, <1>8, <1>9, <1>10, <1>11 DEF DoneBy

LEMMA WorksSucceed ==
  ASSUME SuccessInv, Works
  PROVE  SuccessInv'
<1>1. HealthInv /\ ScriptInv /\ ServedOK /\ HealthInv'
  BY WorksKeepHealth DEF SuccessInv, HealthInv
<1>2. DoneBy
  BY LookIsDone, SubIsDone, NextIsDone DEF Works
<1>3. ocp' = ocp /\ start' = start /\ sc'.opt = sc.opt /\ Known \subseteq Known'
  BY <1>1, WorksDo, DisturbedIsSelected DEF Well
<1>4. /\ \A p \in Object : phase[p] = "gone" => phase'[p] = "gone"
      /\ \A p \in Object : p.kind = "CRD" => phase'[p] # "orphan"
      /\ sc.stage \notin {"crd", "end"} =>
           \A p \in Object : phase'[p] = phase[p] \/ (Visible(p) /\ p.kind # "CRD" /\ phase'[p] \in {"dying", "gone"})
      /\ sc.stage \in Early => \A r \in Object : r.kind = "Release" => phase'[r] = phase[r]
  BY WorkServes
<1>5. start \subseteq Object
  BY <1>1 DEF ScriptInv, ClusterOK, Known
<1>6. InOrder(sc, sc')
  BY <1>2 DEF DoneBy
<1>7. ServedOK'
  BY <1>1, <1>3, <1>4, <1>5, <1>6, ServedFollows
<1>8. OrderOK(sc')
  BY <1>6 DEF InOrder
<1>9. /\ Clean' => /\ Clean
                   /\ \A o \in Owed : Due(o, sc, Now(sc)) => phase'[o] = "gone" \/ Due(o, sc', Now(sc'))
  BY <1>2 DEF DoneBy
<1> QED BY <1>1, <1>3, <1>4, <1>7, <1>8, <1>9, SuccessFollows
-----------------------------------------------------------------------------
(* A list with one more behind, and the literal lists of two and of three.  *)
LEMMA Joined ==
  ASSUME NEW A, NEW p \in Seq(A), NEW b \in A
  PROVE  /\ p \o <<b>> \in Seq(A) /\ Len(p \o <<b>>) = Len(p) + 1
         /\ \A i \in 1..Len(p) : (p \o <<b>>)[i] = p[i]
         /\ (p \o <<b>>)[Len(p) + 1] = b
<1> DEFINE q == <<b>>
           u == p \o q
           n == Len(p)
<1>1. n \in Nat
  OBVIOUS
<1>2. q \in Seq(A) /\ Len(q) = 1 /\ q[1] = b
  OBVIOUS
<1>3. q \in Seq(A)
  BY <1>2
<1> HIDE DEF q
<1>4. /\ u \in Seq(A) /\ Len(u) = n + Len(q)
      /\ \A i \in 1..(n + Len(q)) : u[i] = IF i <= n THEN p[i] ELSE q[i - n]
  BY <1>3
<1> HIDE DEF u, n
<1>5. /\ \A i \in 1..n : u[i] = p[i]
      /\ u[n + 1] = b
  BY <1>1, <1>2, <1>4
<1> QED BY <1>2, <1>4, <1>5 DEF u, q, n

LEMMA JoinTwo ==
  ASSUME NEW A, NEW a \in A, NEW b \in A
  PROVE  <<a>> \o <<b>> = <<a, b>>
<1> DEFINE p == <<a>>
           r == <<a, b>>
           u == p \o <<b>>
<1>1. p \in Seq(A) /\ Len(p) = 1 /\ p[1] = a
  OBVIOUS
<1>2. r \in Seq(A) /\ Len(r) = 2 /\ r[1] = a /\ r[2] = b
  OBVIOUS
<1> HIDE DEF p, r
<1>3. /\ u \in Seq(A) /\ Len(u) = Len(p) + 1
      /\ \A i \in 1..Len(p) : u[i] = p[i]
      /\ u[Len(p) + 1] = b
  BY <1>1, Joined
<1> HIDE DEF u
<1>4. u \in Seq(A) /\ Len(u) = 2 /\ u[1] = a /\ u[2] = b
  BY <1>1, <1>3
<1>5. \A i \in 1..2 : u[i] = r[i]
  BY <1>2, <1>4
<1>6. u = r
  BY <1>2, <1>4, <1>5
<1> QED BY <1>6 DEF p, r, u

LEMMA JoinThree ==
  ASSUME NEW A, NEW a \in A, NEW b \in A, NEW c \in A
  PROVE  <<a, b>> \o <<c>> = <<a, b, c>>
<1> DEFINE p == <<a, b>>
           r == <<a, b, c>>
           u == p \o <<c>>
<1>1. p \in Seq(A) /\ Len(p) = 2 /\ p[1] = a /\ p[2] = b
  OBVIOUS
<1>2. r \in Seq(A) /\ Len(r) = 3 /\ r[1] = a /\ r[2] = b /\ r[3] = c
  OBVIOUS
<1> HIDE DEF p, r
<1>3. /\ u \in Seq(A) /\ Len(u) = Len(p) + 1
      /\ \A i \in 1..Len(p) : u[i] = p[i]
      /\ u[Len(p) + 1] = c
  BY <1>1, Joined
<1> HIDE DEF u
<1>4. u \in Seq(A) /\ Len(u) = 3 /\ u[1] = a /\ u[2] = b /\ u[3] = c
  BY <1>1, <1>3
<1>5. \A i \in 1..3 : u[i] = r[i]
  BY <1>2, <1>4
<1>6. u = r
  BY <1>2, <1>4, <1>5
<1> QED BY <1>6 DEF p, r, u

(* Before the work begins nothing is owed; then all of it is due.           *)
LEMMA PartsOfOptions ==
  ASSUME NEW opt, opt.op \in BOOLEAN, opt.crd \in BOOLEAN
  PROVE  /\ PartsOf(opt) \in PartLists
         /\ opt.res # <<>> => "probe" \in ToSet(PartsOf(opt))
         /\ opt.op => "ocp" \in ToSet(PartsOf(opt))
         /\ opt.crd => "crd" \in ToSet(PartsOf(opt))
<1> DEFINE Three == {"probe", "ocp", "crd"}
           a == Part(opt.res # <<>>, "probe")
           b == Part(opt.op, "ocp")
           c == Part(opt.crd, "crd")
<1>0. /\ <<"probe">> \in Seq(Three) /\ ToSet(<<"probe">>) = {"probe"}
      /\ <<"ocp">> \in Seq(Three) /\ ToSet(<<"ocp">>) = {"ocp"}
      /\ <<"crd">> \in Seq(Three) /\ ToSet(<<"crd">>) = {"crd"}
      /\ <<>> \in Seq(Three)
  <2>1. \A stage \in Three : <<stage>> \in Seq(Three) /\ ToSet(<<stage>>) = {stage}
    BY DEF ToSet
  <2> QED BY <2>1
<1>1. a = (IF opt.res # <<>> THEN <<"probe">> ELSE <<>>)
  BY DEF Part
<1>2. b = (IF opt.op THEN <<"ocp">> ELSE <<>>)
  BY DEF Part
<1>3. c = (IF opt.crd THEN <<"crd">> ELSE <<>>)
  BY DEF Part
<1>4. PartsOf(opt) = (a \o b) \o c
  BY DEF PartsOf
<1> HIDE DEF a, b, c
<1>5. a \in Seq(Three) /\ b \in Seq(Three) /\ c \in Seq(Three)
  BY <1>0, <1>1, <1>2, <1>3
<1> DEFINE ab == a \o b
<1>6. ab \in Seq(Three) /\ ToSet(ab) = ToSet(a) \cup ToSet(b)
  BY <1>5, ToSetOfJoined
<1>7. ab \in {<<>>, <<"probe">>, <<"ocp">>, <<"probe", "ocp">>}
  <2>1. \A q \in Seq(Three) : q \o <<>> = q /\ <<>> \o q = q
    OBVIOUS
  <2>2. <<"probe">> \o <<"ocp">> = <<"probe", "ocp">>
    <3>1. \A x, y \in Three : <<x>> \o <<y>> = <<x, y>>
      BY JoinTwo
    <3>2. "probe" \in Three /\ "ocp" \in Three
      OBVIOUS
    <3> HIDE DEF Three
    <3> QED BY <3>1, <3>2, Zenon
  <2> QED BY <1>1, <1>2, <1>5, <2>1, <2>2
<1> HIDE DEF ab
<1>8. ab \o c \in Seq(Three) /\ ToSet(ab \o c) = ToSet(ab) \cup ToSet(c)
  BY <1>5, <1>6, ToSetOfJoined
<1>9. ab \o c \in PartLists
  <2>1. CASE c = <<>>
    <3>1. ab \o <<>> = ab
      BY <1>6
    <3> QED BY <1>7, <2>1, <3>1 DEF PartLists
  <2>2. CASE c = <<"crd">>
    <3>1. /\ <<>> \o <<"crd">> = <<"crd">>
          /\ <<"probe">> \o <<"crd">> = <<"probe", "crd">>
          /\ <<"ocp">> \o <<"crd">> = <<"ocp", "crd">>
          /\ <<"probe", "ocp">> \o <<"crd">> = <<"probe", "ocp", "crd">>
      <4>1. \A x, y, z \in Three : <<x>> \o <<y>> = <<x, y>> /\ <<x, y>> \o <<z>> = <<x, y, z>>
        BY JoinTwo, JoinThree
      <4>2. \A q \in Seq(Three) : <<>> \o q = q
        OBVIOUS
      <4>3. <<"crd">> \in Seq(Three)
        OBVIOUS
      <4>4. <<>> \o <<"crd">> = <<"crd">>
        BY <4>2, <4>3
      <4>5. "probe" \in Three /\ "ocp" \in Three /\ "crd" \in Three
        OBVIOUS
      <4> HIDE DEF Three
      <4> QED BY <4>1, <4>4, <4>5, Zenon
    <3> QED BY <1>7, <2>2, <3>1 DEF PartLists
  <2> QED BY <1>3, <2>1, <2>2
<1>10. PartsOf(opt) = ab \o c
  BY <1>4 DEF ab
<1>11. /\ opt.res # <<>> => "probe" \in ToSet(a)
       /\ opt.op => "ocp" \in ToSet(b)
       /\ opt.crd => "crd" \in ToSet(c)
  BY <1>0, <1>1, <1>2, <1>3
<1> QED BY <1>6, <1>8, <1>9, <1>10, <1>11

LEMMA ConsentsSucceeds ==
  ASSUME SuccessInv, Consents
  PROVE  SuccessInv'
<1> DEFINE e == [sc EXCEPT !.parts = PartsOf(sc.opt), !.res = sc.opt.res]
           first == Head(e.parts)
<1>1. /\ HealthInv /\ ScriptInv /\ ServedOK /\ HealthInv' /\ sc \in ScriptState /\ sc.stage = "consent"
      /\ ReleasesOK /\ sc.opt.op \in BOOLEAN /\ sc.opt.crd \in BOOLEAN
  BY AskingHealth DEF SuccessInv, HealthInv, ScriptInv, LeftOK, ScriptState, Consents, User
<1>2. /\ e \in ScriptState /\ e.parts = PartsOf(sc.opt) /\ e.parts # <<>> /\ e.res = sc.opt.res
      /\ e.opt = sc.opt /\ sc' = BeginPart(e)
  BY <1>1, ConsentsBegins
<1>3. /\ e.parts \in PartLists
      /\ sc.opt.res # <<>> => "probe" \in ToSet(e.parts)
      /\ sc.opt.op => "ocp" \in ToSet(e.parts)
      /\ sc.opt.crd => "crd" \in ToSet(e.parts)
  BY <1>1, <1>2, PartsOfOptions
<1> HIDE DEF e
<1>4. /\ first \in {"probe", "ocp", "crd"} /\ Tail(e.parts) \in LateParts
      /\ ToSet(e.parts) = {first} \cup ToSet(Tail(e.parts))
      /\ "probe" \in ToSet(e.parts) => first = "probe"
      /\ first = "ocp" => Tail(e.parts) \in {<<>>, <<"crd">>}
      /\ first = "crd" => Tail(e.parts) = <<>>
  BY <1>2, <1>3, ListsOfParts
<1>5. /\ sc'.opt = sc.opt /\ sc'.res = sc.opt.res /\ sc'.sub = "read"
      /\ sc'.stage = first /\ sc'.parts = Tail(e.parts)
  BY <1>2, BeginPartGives
<1> HIDE DEF first
<1>6. UNCHANGED <<phase, ocp>> /\ start' = {o \in Object : Visible(o)}
  BY DEF Consents, clusterVars
<1>7. OrderOK(sc)'
  BY <1>4, <1>5 DEF OrderOK, LateParts, OpStages, ChartStages, HelmStages
<1>8. ServedOK'
  <2>1. \A o \in Object : /\ phase[o] # "orphan" /\ (Visible(o) => HasKind(o.kind))
                          /\ o.kind = "CRD" => phase[o] \in {"none", "live"}
    BY <1>1 DEF ServedOK
  <2>2. \A r \in start' : r.kind = "Release" => phase'[r] = "live"
    BY <1>1, <1>6 DEF ReleasesOK, Visible
  <2>3. \A o \in Object : /\ Visible(o)' <=> Visible(o)
                          /\ HasKind(o.kind)' <=> HasKind(o.kind)
    BY <1>6 DEF Visible, HasKind
  <2> QED BY <1>6, <2>1, <2>2, <2>3 DEF ServedOK
<1>9. Owed' \subseteq Object
  BY <1>6 DEF Owed
<1>10. ASSUME NEW o \in Object PROVE Due(o, sc, Object)'
  <2>1. (o.kind \in ToSet(sc.opt.res) => DueInRes(o, sc, Object))'
    <3>1. o.kind \in ToSet(sc.opt.res) => sc.opt.res # <<>>
      BY DEF ToSet
    <3> QED BY <1>3, <1>4, <1>5, <3>1 DEF DueInRes
  <2>2. (OfOlm(o, sc) => DueInOlm(o, sc, Object))'
    BY <1>3, <1>4, <1>5 DEF OfOlm, DueInOlm
  <2>3. (OfCharts(o, sc) => DueInCharts(o, sc, Object))'
    <3>1. OfCharts(o, sc)' => sc.opt.op
      BY <1>5 DEF OfCharts
    <3> QED BY <1>3, <1>4, <1>5, <3>1 DEF DueInCharts
  <2>4. (OfCrds(o, sc) => DueInCrd(o, sc, Object))'
    BY <1>3, <1>4, <1>5 DEF OfCrds, DueInCrd
  <2> QED BY <2>1, <2>2, <2>3, <2>4 DEF Due
<1>11. Now(sc)' = Object
  BY <1>5 DEF Now
<1>12. \A o \in Owed' : Due(o, sc, Now(sc))'
  BY <1>9, <1>10, <1>11 DEF Due, DueInRes, DueInOlm, DueInCharts, DueInCrd
<1> QED BY <1>1, <1>7, <1>8, <1>12 DEF SuccessInv

LEMMA AskingSucceeds ==
  ASSUME SuccessInv, ReadOption \/ OptionsRead \/ Declines \/ NothingSelected
  PROVE  SuccessInv'
<1>1. /\ HealthInv /\ ScriptInv /\ ServedOK /\ HealthInv' /\ ScriptInv' /\ sc \in ScriptState
      /\ sc.stage \in Asking /\ start = {}
  BY AskingHealth DEF SuccessInv, HealthInv, ScriptInv, LeftOK, ReadOption, OptionsRead,
                      Declines, NothingSelected, Asking, User, ClusterOK
<1>2. UNCHANGED <<phase, start>>
  BY DEF ReadOption, OptionsRead, Declines, NothingSelected, clusterVars
<1>3. sc'.stage \in Asking \cup {"end"} /\ (sc'.stage \in Asking => sc'.parts = <<>>)
  BY <1>1, <1>2 DEF ScriptInv, ClusterOK, PlaceOK
<1>4. sc'.parts = <<>>
  <2>1. sc.parts = <<>>
    BY <1>1 DEF ScriptInv, PlaceOK
  <2>2. ASSUME NEW opt, NEW left, sc' = [sc EXCEPT !.opt = opt, !.args = left]
        PROVE  sc'.parts = <<>>
    BY <1>1, <2>1, <2>2 DEF ScriptState
  <2>3. ASSUME NEW result, sc' = Exit(sc, result)
        PROVE  sc'.parts = <<>>
    BY <1>1, <2>3 DEF ScriptState, Exit
  <2>4. CASE OptionsRead
    BY <1>1, <2>1, <2>4 DEF ScriptState, OptionsRead
  <2>5. CASE ReadOption
    <3> DEFINE Changed(opt, left) == sc' = [sc EXCEPT !.opt = opt, !.args = left]
    <3>1. \/ sc' = Exit(sc, "help") \/ sc' = Exit(sc, "usage")
          \/ Changed([sc.opt EXCEPT !.ask = FALSE], Tail(sc.args))
          \/ Changed([sc.opt EXCEPT !.crd = TRUE], Tail(sc.args))
          \/ Changed([sc.opt EXCEPT !.op = TRUE], Tail(sc.args))
          \/ Changed([sc.opt EXCEPT !.res = AllResources], Tail(sc.args))
          \/ Changed([sc.opt EXCEPT !.res = Head(Tail(sc.args)).list], Tail(Tail(sc.args)))
      BY <2>5 DEF ReadOption
    <3>2. ASSUME NEW opt, NEW left, Changed(opt, left) PROVE sc'.parts = <<>>
      BY <2>2, <3>2
    <3> HIDE DEF Changed
    <3> QED BY <2>3, <3>1, <3>2
  <2>6. CASE Declines \/ NothingSelected
    BY <2>3, <2>6 DEF Declines, NothingSelected
  <2> QED BY <2>4, <2>5, <2>6
<1>5. OrderOK(sc)'
  BY <1>3, <1>4 DEF OrderOK, Asking, OpStages, ChartStages, HelmStages
<1>6. ServedOK'
  <2>1. \A o \in Object : /\ phase[o] # "orphan" /\ (Visible(o) => HasKind(o.kind))
                          /\ o.kind = "CRD" => phase[o] \in {"none", "live"}
    BY <1>1 DEF ServedOK, Asking
  <2>2. \A o \in Object : /\ Visible(o)' <=> Visible(o)
                          /\ HasKind(o.kind)' <=> HasKind(o.kind)
    BY <1>2 DEF Visible, HasKind
  <2> QED BY <1>1, <1>2, <2>1, <2>2 DEF ServedOK
<1>7. Owed' = {}
  BY <1>1, <1>2 DEF Owed
<1> QED BY <1>1, <1>5, <1>6, <1>7 DEF SuccessInv

(* What the others do: they bring nothing back, and leave nothing behind.   *)
LEMMA OthersServe ==
  ASSUME SuccessInv, NEW x \in Object,
         CrdIsCleared(x) \/ ControllerReleases(x) \/ ControllerGuards(x) \/ Creates(x)
  PROVE  /\ \A p \in Object : p.kind = "CRD" => phase'[p] # "orphan"
         /\ sc.stage \notin {"crd", "end"} =>
              \A p \in Object : \/ phase'[p] = phase[p]
                                \/ Visible(p) /\ p.kind # "CRD" /\ phase'[p] \in {"dying", "gone"}
                                \/ phase[p] = "none" /\ phase'[p] = "live" /\ HasKind(p.kind)
<1>1. /\ PhasesOK /\ ServedOK
      /\ \A p \in Object : p.kind = "CRD" => phase[p] # "orphan"
  BY DEF SuccessInv, HealthInv, ScriptInv, ClusterOK, PhasesOK, ServedOK
<1>2. ASSUME NEW o \in Object, Touches(o), phase'[o] \in {"dying", "gone"}
      PROVE  \A p \in Object : p.kind = "CRD" => phase'[p] # "orphan"
  BY <1>1, <1>2, InstancesOfCrds DEF Touches
<1>3. CASE CrdIsCleared(x)
  <2>1. phase[x] = "dying" /\ x.kind = "CRD" /\ Visible(x)
    BY <1>3 DEF CrdIsCleared, Visible
  <2>2. sc.stage \in {"crd", "end"}
    BY <1>1, <2>1 DEF ServedOK
  <2>3. CASE Instances(x) = {} /\ Vanishes(x)
    BY <1>1, <1>2, <2>2, <2>3, VanishingTouches
  <2>4. CASE \E o \in Instances(x) : phase[o] = "live" /\ Deleted(o)
    <3>1. PICK o \in Instances(x) : phase[o] = "live" /\ Deleted(o)
      BY <2>4
    <3>2. o \in Object /\ Visible(o)
      BY InstancesOfCrds
    <3>3. Touches(o) /\ phase'[o] \in {"dying", "gone"}
      BY <1>1, <3>1, <3>2, DeletionTouches
    <3> QED BY <1>2, <2>2, <3>2, <3>3
  <2> QED BY <1>3, <2>3, <2>4 DEF CrdIsCleared
<1>4. CASE ControllerReleases(x)
  <2>1. x.kind # "CRD" /\ Visible(x) /\ Vanishes(x)
    BY <1>4 DEF ControllerReleases, Visible
  <2>2. Touches(x) /\ phase'[x] = "gone" /\ Instances(x) = {}
    BY <1>1, <2>1, VanishingTouches, InstancesOfCrds
  <2>3. \A p \in Object : p = x \/ phase'[p] = phase[p]
    BY <2>2 DEF Touches
  <2> QED BY <1>1, <2>1, <2>2, <2>3
<1>5. CASE ControllerGuards(x)
  BY <1>1, <1>5 DEF ControllerGuards
<1>6. CASE Creates(x)
  <2>1. phase[x] = "none" /\ phase' = [phase EXCEPT ![x] = "live"] /\ HasKind(x.kind)
    BY <1>6 DEF Creates
  <2> QED BY <1>1, <2>1 DEF PhasesOK
<1> QED BY <1>3, <1>4, <1>5, <1>6

LEMMA OthersSucceed ==
  ASSUME SuccessInv, NEW x \in Object,
         CrdIsCleared(x) \/ ControllerReleases(x) \/ ControllerGuards(x) \/ Creates(x)
  PROVE  SuccessInv'
<1>1. HealthInv /\ ScriptInv /\ ServedOK /\ OrderOK(sc) /\ HealthInv' /\ start \subseteq Object
  BY OthersHealth DEF SuccessInv, HealthInv, ScriptInv, ClusterOK, Known
<1>2. /\ UNCHANGED <<ocp, sc, start, blind>>
      /\ \A p \in Object : Ever(p) => phase'[p] = phase[p] \/ (Visible(p) /\ phase'[p] \in {"dying", "gone", "orphan"})
      /\ \A r \in Object : r.kind = "Release" =>
           phase'[r] = phase[r] \/ (phase[r] = "none" /\ phase'[r] = "live")
  BY <1>1, OthersDo
<1>3. \A r \in start : r.kind = "Release" => Ever(r)
  BY <1>1 DEF ScriptInv, ClusterOK, Known
<1>4. \A r \in start : r.kind = "Release" => phase'[r] = phase[r]
  BY <1>1, <1>2, <1>3 DEF Ever
<1>5. InOrder(sc, sc')
  BY <1>1, <1>2 DEF InOrder
<1>6. ServedOK'
  BY <1>1, <1>2, <1>4, <1>5, OthersServe, ServedFollows
<1>7. Known \subseteq Known' /\ \A p \in Object : phase[p] = "gone" => phase'[p] = "gone"
  BY <1>2 DEF Known, Ever, Visible
<1>8. Clean' => Clean /\ \A o \in Owed : Due(o, sc, Now(sc)) => Due(o, sc', Now(sc'))
  BY <1>2 DEF Clean, Bad
<1> QED BY <1>1, <1>2, <1>6, <1>7, <1>8, SuccessFollows
LEMMA InitSuccess == Init => SuccessInv
<1> SUFFICES ASSUME Init PROVE SuccessInv
  OBVIOUS
<1>1. HealthInv
  BY InitHealth
<1>2. /\ sc.parts = <<>> /\ start = {}
      /\ sc.stage \in {"options", "end"}
  BY DEF Init, InitScript, Exit
<1>3. PICK w \in Worlds : phase = [o \in Object |-> IF o \in w.there THEN "live" ELSE "none"]
  BY DEF Init
<1>4. ServedOK
  <2>1. w.there \subseteq Object
    BY <1>3, TvkCleanupAssumption
  <2>2. \A o \in Object : (Visible(o) <=> o \in w.there) /\ phase[o] \in {"none", "live"}
    BY <1>3 DEF Visible
  <2>3. ASSUME NEW o \in w.there PROVE HasKind(o.kind)
    <3>1. SUFFICES ASSUME o.kind \in CustomKind
                   PROVE  \E crd \in Object : crd.kind = "CRD" /\ crd.name = o.kind /\ Visible(crd)
      BY DEF HasKind
    <3>2. PICK crd \in w.there : crd.kind = "CRD" /\ crd.name = o.kind
      BY <1>3, <2>3, <3>1, CustomAssumption
    <3> QED BY <2>1, <2>2, <3>2
  <2> QED BY <1>2, <2>2, <2>3 DEF ServedOK
<1>5. OrderOK(sc)
  BY <1>2 DEF OrderOK, OpStages, ChartStages, HelmStages
<1>6. Owed = {}
  BY <1>2 DEF Owed
<1> QED BY <1>1, <1>4, <1>5, <1>6 DEF SuccessInv

LEMMA StutteringKeepsSuccess ==
  ASSUME SuccessInv, UNCHANGED vars
  PROVE  SuccessInv'
<1>1. UNCHANGED <<phase, held, faults, ocp, sc, start, blind>> /\ HealthInv' /\ ServedOK /\ OrderOK(sc)
  BY StutteringKeepsHealth DEF vars, clusterVars, SuccessInv
<1>2. ServedOK'
  BY <1>1 DEF ServedOK, Visible, HasKind
<1>3. OrderOK(sc')
  BY <1>1
<1>4. Known' = Known
  BY <1>1 DEF Known, Ever
<1>5. Clean' => Clean /\ \A o \in Owed : Due(o, sc, Now(sc)) => Due(o, sc', Now(sc'))
  BY <1>1 DEF Clean, Bad
<1> QED BY <1>1, <1>2, <1>3, <1>4, <1>5, SuccessFollows

LEMMA NextKeepsSuccess == SuccessInv /\ [Next]_vars => SuccessInv'
<1> SUFFICES ASSUME SuccessInv, [Next]_vars PROVE SuccessInv'
  OBVIOUS
<1>1. CASE Works
  BY <1>1, WorksSucceed
<1>2. CASE Consents
  BY <1>2, ConsentsSucceeds
<1>3. CASE ReadOption \/ OptionsRead \/ Declines \/ NothingSelected
  BY <1>3, AskingSucceeds
<1>4. CASE Environment
  BY <1>4, OthersSucceed DEF Environment
<1>5. CASE UNCHANGED vars
  BY <1>5, StutteringKeepsSuccess
<1> QED BY <1>1, <1>2, <1>3, <1>4, <1>5 DEF Next, Script, User, Works

LEMMA SuccessIsKept == Spec => []SuccessInv
  BY InitSuccess, NextKeepsSuccess, PTL DEF Spec

(* When the script reports success, and no call that only looks has failed, *)
(* every object it was told to delete and found there at its start is gone, *)
(* and was not lost with its CRD, whatever deletions and patches have       *)
(* failed and controllers and users have done in between.                   *)
THEOREM SuccessMeansGoneHolds == Spec => []SuccessMeansGone
<1>1. SuccessInv => SuccessMeansGone
  <2> SUFFICES ASSUME SuccessInv, sc.result = "success", ~blind,
                      NEW o \in start, SelectedAmong(o, start), Alone(o)
               PROVE  phase[o] = "gone"
    BY DEF SuccessMeansGone
  <2>1. ScriptInv /\ VerdictOK(sc) /\ OrderOK(sc)
    BY DEF SuccessInv, HealthInv
  <2>2. blind \in BOOLEAN
    BY <2>1 DEF ScriptInv, ClusterOK
  <2>3. Clean /\ sc.stage = "end"
    BY <2>1, <2>2 DEF VerdictOK, Clean
  <2>4. sc.parts = <<>>
    BY <2>1, <2>3 DEF OrderOK
  <2>5. ToSet(sc.parts) = {}
    BY <2>4 DEF ToSet
  <2>6. o \in Owed
    BY DEF Owed
  <2>7. o.kind \in ToSet(sc.opt.res) \/ OfOlm(o, sc) \/ OfCharts(o, sc) \/ OfCrds(o, sc)
    BY <2>1, <2>6, OwedIsOf
  <2>8. ~Due(o, sc, Now(sc))
    BY <2>3, <2>5, <2>7 DEF Due, DueInRes, DueInOlm, DueInCharts, DueInCrd, ChartStages, HelmStages
  <2> QED BY <2>3, <2>6, <2>8 DEF SuccessInv
<1> QED BY <1>1, SuccessIsKept, PTL
=============================================================================
