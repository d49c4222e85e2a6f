------------------------------ MODULE MCCleanup ------------------------------
(***************************************************************************)
(* Instances of CleanupSystem for TLC.                                      *)
(***************************************************************************)
EXTENDS CleanupSystem, TLC

CONSTANTS u1, u2, nsA, nsB

TwoNs  == [r \in Run |-> IF r = u1 THEN nsA ELSE nsB]
OneNs  == [r \in Run |-> nsA]

O(r, role) == [run |-> r, role |-> role]

(* Two cleaners over leftovers of u1 of every kind.                         *)
TwoStale == {O(u1, "srcPvc"), O(u1, "srcPod"), O(u1, "snap")}
TwoFin   == PvcRole
AllCrds  == {Crd}
Cleaners == Permutations(Cleaner)

(* One cleaner over leftovers of u1, one of which no UID selects, beside a  *)
(* run u2 in another namespace that is still creating objects and CRDs.     *)
OneStale == {O(u1, "srcPvc"), O(u1, "snap"), O(u1, "cap0")}
OneFresh == {O(u2, "unmntSnap"), O(u2, "dns")}
OneFin   == PvcRole \cup {"cap0"}
SomeCrds == {{}, {"classes"}, Crd}
=============================================================================
