---------------------------- MODULE BlobTemplate ----------------------------
(***************************************************************************)
(* src/backend/src/update_blob_ocl_header.py: the lines a template and a   *)
(* blob are made of, the files the script writes, and the blob a template *)
(* stands for.  BlobHeader models the copy loop that builds it, and        *)
(* BlobPublish what one run promises of the published file.                *)
(***************************************************************************)
EXTENDS Integers, Sequences

(* header_segments (line 34); "" is the code's matched_header = "" (44).   *)
header_segments == <<"vector", "as", "convert", "common_defines">>
Segs == {header_segments[k] : k \in 1 .. Len(header_segments)}
NoSeg == ""

Begin(h) == [kind |-> "begin", seg |-> h]
End(h) == [kind |-> "end", seg |-> h]
TLine == [kind : {"begin", "end"}, seg : Segs] \cup [kind : {"text"}, id : Nat]

(* A segment header that does not exist.                                   *)
Missing == -1

Absent == [absent |-> TRUE]
Prior == [prior |-> TRUE]
(* A file this run wrote.                                                  *)
Written(ls) == [lines |-> ls]
BLine == TLine \cup [seg : Segs, n : Nat]

(* The lines of ocl_<h>.h the loop of lines 52-55 copies: all but the      *)
(* first two.                                                              *)
FragBody(h, len) == [k \in 1 .. len - 2 |-> [seg |-> h, n |-> k + 2]]

(***************************************************************************)
(* The blob a template stands for, stated over positions rather than by    *)
(* the loop: the region of a BEGIN line at b runs to the first END line of *)
(* its segment after b, or to the end of the template if there is none,  *)
(* since only that END line is looked for while the segment is open.      *)
(* A line strictly inside a region is dropped; every other line is kept,   *)
(* and a kept BEGIN line is followed by the body of its segment header.   *)
(***************************************************************************)
RegionEnd(t, b) ==
  LET E == {e \in b + 1 .. Len(t) : t[e] = End(t[b].seg)}
  IN  IF E = {} THEN Len(t) + 1 ELSE CHOOSE e \in E : \A x \in E : e <= x

(* b opens a region when it is a BEGIN line not inside an earlier region. *)
Opens(t) ==
  LET O[b \in 1 .. Len(t)] ==
        /\ t[b].kind = "begin"
        /\ ~ \E a \in 1 .. b - 1 : O[a] /\ b < RegionEnd(t, a)
  IN  O

Openers(t) == {b \in 1 .. Len(t) : Opens(t)[b]}

Inside(t, k) == \E b \in Openers(t) : b < k /\ k < RegionEnd(t, b)

(* What line k stands for in the blob: nothing inside a region, else the  *)
(* line itself, followed by the segment's header body for a BEGIN line.   *)
Piece(t, fl, k) ==
  IF Inside(t, k) THEN << >>
  ELSE << t[k] >> \o (IF t[k].kind = "begin" THEN FragBody(t[k].seg, fl[t[k].seg])
                                            ELSE << >>)

(* The pieces of the first m lines, in template order, and of all lines.  *)
ExpandTo(t, fl) ==
  LET E[m \in 0 .. Len(t)] == IF m = 0 THEN << >> ELSE E[m - 1] \o Piece(t, fl, m)
  IN  E

Expand(t, fl) == ExpandTo(t, fl)[Len(t)]

=============================================================================
