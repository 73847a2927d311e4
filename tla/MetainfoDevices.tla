-------------------------- MODULE MetainfoDevices ---------------------------
(***************************************************************************)
(* src/update_metainfo_xml.py: the PCI device ids listed in the AppStream  *)
(* metainfo file.  The loop reads src/cl_device_data.h line by line; a     *)
(* line matching '#define PCI_CHIP_<NAME> 0x<ID>' is a device.  Devices    *)
(* are taken from the first one whose name contains IVYBRIDGE onward (the  *)
(* file lists the older, unsupported ones first).  The ids, upper-cased    *)
(* and sorted, are substituted into the template, and the result written   *)
(* to the output file, which open(..., "w") truncates first.               *)
(*                                                                         *)
(* A header line is a record: a device define with a chip family and an   *)
(* id, or any other line.  An id is a number: upper() makes the case of    *)
(* its hex digits irrelevant, and for ids of the same number of digits the *)
(* order of the strings is the order of the numbers.                       *)
(***************************************************************************)
EXTENDS Integers, Sequences, SequencesExt

CONSTANTS
  HeaderFiles,    \* the cl_device_data.h contents a run may read
  Families        \* the chip families of the defines; "IVYBRIDGE" is one

HLine == [kind : {"define"}, family : Families, id : Nat] \cup [kind : {"other"}]

ASSUME MetainfoAssumption ==
  /\ HeaderFiles \subseteq Seq(HLine)
  /\ "IVYBRIDGE" \in Families

VARIABLES
  src,            \* the header file of this run
  pc,             \* "loop", "write", "done" or "aborted"
  line,           \* the index of the next header line
  supported,      \* the flag of line 15
  device_ids,     \* the ids appended so far
  out             \* the output metainfo file

vars == <<src, pc, line, supported, device_ids, out>>

(* The output file: absent, left by a previous run, truncated by open,     *)
(* or holding the modalias list of this run.                               *)
Absent == [absent |-> TRUE]
Prior == [prior |-> TRUE]
Truncated == [truncated |-> TRUE]
Written(ids) == [modalias |-> ids]

TypeOK ==
  /\ src \in HeaderFiles
  /\ pc \in {"loop", "write", "done", "aborted"}
  /\ line \in 1 .. Len(src) + 1
  /\ supported \in BOOLEAN
  /\ device_ids \in Seq(Nat)
  /\ out \in {Absent, Prior, Truncated} \cup [modalias : Seq(Nat)]

Init ==
  /\ src \in HeaderFiles
  /\ pc = "loop"
  /\ line = 1
  /\ supported = FALSE
  /\ device_ids = << >>
  /\ out \in {Absent, Prior}

(* A line that is not a device define is skipped (lines 16-19).            *)
SkipLine ==
  /\ pc = "loop"
  /\ line <= Len(src)
  /\ src[line].kind = "other"
  /\ line' = line + 1
  /\ UNCHANGED <<src, pc, supported, device_ids, out>>

(* Mutants: the flag set only on an IVYBRIDGE line, and the line after a  *)
(* define consumed with it.                                                *)
DeviceLine_not_sticky ==
  /\ pc = "loop"
  /\ line <= Len(src)
  /\ src[line].kind = "define"
  /\ LET sup == src[line].family = "IVYBRIDGE"
     IN  /\ supported' = sup
         /\ device_ids' = IF sup THEN Append(device_ids, src[line].id) ELSE device_ids
  /\ line' = line + 1
  /\ UNCHANGED <<src, pc, out>>

DeviceLine_skip ==
  /\ pc = "loop"
  /\ line <= Len(src)
  /\ src[line].kind = "define"
  /\ LET sup == supported \/ src[line].family = "IVYBRIDGE"
     IN  /\ supported' = sup
         /\ device_ids' = IF sup THEN Append(device_ids, src[line].id) ELSE device_ids
  /\ line' = line + 2
  /\ UNCHANGED <<src, pc, out>>

(* A device define (lines 16-17, 20-23).                                   *)
DeviceLine ==
  /\ pc = "loop"
  /\ line <= Len(src)
  /\ src[line].kind = "define"
  /\ LET sup == supported \/ src[line].family = "IVYBRIDGE"
     IN  /\ supported' = sup
         /\ device_ids' = IF sup THEN Append(device_ids, src[line].id) ELSE device_ids
  /\ line' = line + 1
  /\ UNCHANGED <<src, pc, out>>

(* The header is read; the template is read and substituted, and the      *)
(* output file opened for writing, which truncates it (lines 24-30).      *)
OpenOut ==
  /\ pc = "loop"
  /\ line = Len(src) + 1
  /\ pc' = "write"
  /\ out' = Truncated
  /\ UNCHANGED <<src, line, supported, device_ids>>

(***************************************************************************)
(* sorted(device_ids) (line 25): the list reordered by a permutation of   *)
(* its positions under which it is non-decreasing.                         *)
(***************************************************************************)
OrdersSeq(s, p) == \A i, j \in 1 .. Len(s) : i < j => s[p[i]] <= s[p[j]]

sorted(s) ==
  LET p == CHOOSE p \in Bijection(1 .. Len(s), 1 .. Len(s)) : OrdersSeq(s, p)
  IN  [i \in 1 .. Len(s) |-> s[p[i]]]

(* metadata_file_out.write and close (lines 31-32): the ids sorted at 25. *)
WriteOut ==
  /\ pc = "write"
  /\ pc' = "done"
  /\ out' = Written(sorted(device_ids))
  /\ UNCHANGED <<src, line, supported, device_ids>>

(* The process is killed from outside while it runs.                       *)
Kill ==
  /\ pc \in {"loop", "write"}
  /\ pc' = "aborted"
  /\ UNCHANGED <<src, line, supported, device_ids, out>>

Next == SkipLine \/ DeviceLine \/ OpenOut \/ WriteOut \/ Kill

Spec == Init /\ [][Next]_vars

(***************************************************************************)
(* The ids the file stands for, stated over positions rather than by the   *)
(* flag: those of the defines at or after the first IVYBRIDGE define.      *)
(***************************************************************************)
FirstIvy(h) ==
  LET I == {k \in 1 .. Len(h) : h[k].kind = "define" /\ h[k].family = "IVYBRIDGE"}
  IN  IF I = {} THEN Len(h) + 1 ELSE CHOOSE k \in I : \A j \in I : k <= j

(* The id line k adds, and the ids of the first m lines, in file order.   *)
IdOf(h, k) ==
  IF k >= FirstIvy(h) /\ h[k].kind = "define" THEN << h[k].id >> ELSE << >>

IdsTo(h) ==
  LET I[m \in 0 .. Len(h)] == IF m = 0 THEN << >> ELSE I[m - 1] \o IdOf(h, m)
  IN  I

SupportedIds(h) == IdsTo(h)[Len(h)]

(* A written metainfo file lists, in increasing order, the id of every     *)
(* define from the first IVYBRIDGE one to the end of cl_device_data.h and  *)
(* no other: the supported flag, once set, stays set, and an older family *)
(* listed after IVYBRIDGE is still listed.                                 *)
ModaliasListsSupported ==
  out \in [modalias : Seq(Nat)] =>
    /\ \A i, j \in DOMAIN out.modalias : i < j => out.modalias[i] <= out.modalias[j]
    /\ ToBag(out.modalias) = ToBag(SupportedIds(src))

=============================================================================
