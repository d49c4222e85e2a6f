------------------------- MODULE LogCollectorInputs -------------------------
(***************************************************************************)
(* The options of kubectl tvk-log-collector: those of the config file, the  *)
(* flags that override them, and what preRun of cmd/log-collector makes of  *)
(* both.  Flags are a function on the names of the flags that were given.   *)
(***************************************************************************)
EXTENDS Integers, Sequences

CONSTANTS
  DefaultNs,    (* The namespace read when none is named.                    *)
  Preferred     (* The preferred version of each API group of the server.    *)

(* The fields of a LogCollector before a config file is read, which are     *)
(* also the default values of the flags.                                    *)
NoInputs ==
  [clustered |-> FALSE, namespaces |-> <<>>, keep |-> FALSE, gvks |-> {}, labels |-> {}]

FlagOr(flags, name, value) == IF name \in DOMAIN flags THEN flags[name] ELSE value

(* A GVK without a version gets the preferred one of its group, if the      *)
(* server has that group.                                                   *)
FixVersion(gvk) ==
  IF gvk.version = "" /\ gvk.group \in DOMAIN Preferred
  THEN [gvk EXCEPT !.version = Preferred[gvk.group]] ELSE gvk

(* The namespaces of the file count only for a clustered collection.        *)
NamespacesOf(file, flags, clustered) ==
  IF "namespaces" \in DOMAIN flags \/ ~clustered
  THEN FlagOr(flags, "namespaces", NoInputs.namespaces)
  ELSE file.namespaces

(* The file's values, overridden by the flags that were given.              *)
Merged(file, flags) ==
  LET clustered == FlagOr(flags, "clustered", file.clustered)
      gvks      == FlagOr(flags, "gvks", file.gvks)
  IN  [clustered  |-> clustered,
       namespaces |-> NamespacesOf(file, flags, clustered),
       keep       |-> FlagOr(flags, "keep", file.keep),
       gvks       |-> {FixVersion(gvk) : gvk \in gvks},
       labels     |-> FlagOr(flags, "labels", file.labels)]

(* What preRun ends the program for.                                        *)
Refused(file, flags) ==
  \/ \E gvk \in FlagOr(flags, "gvks", file.gvks) : gvk.kind = ""
  \/ Merged(file, flags).clustered /\ Merged(file, flags).namespaces # <<>>

(* The options the collection is started with.                              *)
Resolved(file, flags) ==
  LET opt == Merged(file, flags)
  IN  IF ~opt.clustered /\ opt.namespaces = <<>>
      THEN [opt EXCEPT !.namespaces = <<DefaultNs>>] ELSE opt
=============================================================================
