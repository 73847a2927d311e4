----------------------------- MODULE BlobHeader -----------------------------
(***************************************************************************)
(* src/backend/src/update_blob_ocl_header.py: one run of the header-blob   *)
(* assembler.  It removes the published blob, copies the template line by *)
(* line into a temporary file, and where a '// ##BEGIN_<SEG>##' line names *)
(* one of the header segments it copies the segment's generated header    *)
(* ocl_<seg>.h (less its two banner lines) and drops the template's lines  *)
(* up to the matching '// ##END_<SEG>##' line, which it keeps.  The       *)
(* temporary file is renamed over the blob at the end.                     *)
(*                                                                         *)
(* A template line is a record: a BEGIN or END marker of a segment, or a  *)
(* text line with an identity.  A line of a segment header is the record   *)
(* [seg, n], its n-th line.                                                *)
(***************************************************************************)
EXTENDS BlobTemplate

CONSTANTS
  Templates,      \* the templates a run may be given
  FragLengths     \* the line counts a generated segment header may have

ASSUME BlobAssumption ==
  /\ Templates \subseteq Seq(TLine)
  /\ FragLengths \subseteq Nat

VARIABLES
  tmpl,           \* the template of this run
  frag,           \* the line count of each ocl_<seg>.h, or Missing
  pc,             \* "start", "loop", "done" or "aborted"
  line,           \* the index of the next template line
  matched_header, \* the segment whose END line is awaited, or NoSeg
  temp,           \* the temporary blob: a sequence of lines, or Absent
  blob            \* the published blob: a sequence of lines, Absent or Prior

vars == <<tmpl, frag, pc, line, matched_header, temp, blob>>

TypeOK ==
  /\ tmpl \in Templates
  /\ frag \in [Segs -> FragLengths \cup {Missing}]
  /\ pc \in {"start", "loop", "done", "aborted"}
  /\ line \in 1 .. Len(tmpl) + 1
  /\ matched_header \in Segs \cup {NoSeg}
  /\ temp \in {Absent} \cup [lines : Seq(BLine)]
  /\ blob \in {Absent, Prior} \cup [lines : Seq(BLine)]

Init ==
  /\ tmpl \in Templates
  /\ frag \in [Segs -> FragLengths \cup {Missing}]
  /\ pc = "start"
  /\ line = 1
  /\ matched_header = NoSeg
  /\ temp \in {Absent, Written(<< >>)}
  /\ blob \in {Absent, Prior}

(* safeUnlink(blobFileName) and open(blobTempName, 'w') (lines 37-39).     *)
Start ==
  /\ pc = "start"
  /\ pc' = "loop"
  /\ blob' = Absent
  /\ temp' = Written(<< >>)
  /\ UNCHANGED <<tmpl, frag, line, matched_header>>

ReadLine ==
  /\ pc = "loop"
  /\ line <= Len(tmpl)

(* Outside a segment the line is copied (lines 45-47), and a BEGIN line   *)
(* also copies the segment header (lines 48-57).                           *)
(* Mutant: the index advanced past the next line.                          *)
CopyLine_skip ==
  /\ ReadLine
  /\ matched_header = NoSeg
  /\ tmpl[line].kind # "begin"
  /\ temp' = Written(Append(temp.lines, tmpl[line]))
  /\ line' = line + 2
  /\ UNCHANGED <<tmpl, frag, pc, matched_header, blob>>

CopyLine ==
  /\ ReadLine
  /\ matched_header = NoSeg
  /\ tmpl[line].kind # "begin"
  /\ temp' = Written(Append(temp.lines, tmpl[line]))
  /\ line' = line + 1
  /\ UNCHANGED <<tmpl, frag, pc, matched_header, blob>>

BeginSegment ==
  /\ ReadLine
  /\ matched_header = NoSeg
  /\ tmpl[line].kind = "begin"
  /\ frag[tmpl[line].seg] # Missing
  /\ temp' = Written(Append(temp.lines, tmpl[line])
                     \o FragBody(tmpl[line].seg, frag[tmpl[line].seg]))
  /\ matched_header' = tmpl[line].seg
  /\ line' = line + 1
  /\ UNCHANGED <<tmpl, frag, pc, blob>>

(* open(path + '/ocl_' + header + '.h') (line 50) raises IOError.          *)
BeginMissing ==
  /\ ReadLine
  /\ matched_header = NoSeg
  /\ tmpl[line].kind = "begin"
  /\ frag[tmpl[line].seg] = Missing
  /\ temp' = Written(Append(temp.lines, tmpl[line]))
  /\ pc' = "aborted"
  /\ UNCHANGED <<tmpl, frag, line, matched_header, blob>>

(* Mutant: the END line copied without closing the segment.               *)
RegionLine_keep_open ==
  /\ ReadLine
  /\ matched_header # NoSeg
  /\ IF tmpl[line] = End(matched_header)
       THEN temp' = Written(Append(temp.lines, tmpl[line]))
       ELSE UNCHANGED temp
  /\ line' = line + 1
  /\ UNCHANGED <<tmpl, frag, pc, matched_header, blob>>

(* Inside a segment only its END line is copied, and ends it (58-61).      *)
RegionLine ==
  /\ ReadLine
  /\ matched_header # NoSeg
  /\ IF tmpl[line] = End(matched_header)
       THEN /\ temp' = Written(Append(temp.lines, tmpl[line]))
            /\ matched_header' = NoSeg
       ELSE UNCHANGED <<temp, matched_header>>
  /\ line' = line + 1
  /\ UNCHANGED <<tmpl, frag, pc, blob>>

(* Mutant: the rename done before the loop has read the whole template.   *)
Finish_early ==
  /\ pc = "loop"
  /\ pc' = "done"
  /\ blob' = temp
  /\ temp' = Absent
  /\ UNCHANGED <<tmpl, frag, line, matched_header>>

(* blob.close() and os.rename (lines 63-65).                               *)
Finish ==
  /\ pc = "loop"
  /\ line = Len(tmpl) + 1
  /\ pc' = "done"
  /\ blob' = temp
  /\ temp' = Absent
  /\ UNCHANGED <<tmpl, frag, line, matched_header>>

(* The process is killed from outside while it runs.                       *)
Kill ==
  /\ pc \in {"start", "loop"}
  /\ pc' = "aborted"
  /\ UNCHANGED <<tmpl, frag, line, matched_header, temp, blob>>

Next == Start \/ CopyLine \/ BeginSegment \/ BeginMissing \/ RegionLine \/ Finish \/ Kill

Spec == Init /\ [][Next]_vars

(* A published blob is the template with every segment region replaced by *)
(* the segment's generated header, and every line outside the regions     *)
(* kept in order: the matched_header state machine of the copy loop never *)
(* loses or repeats a line, and the rename never publishes a blob the loop *)
(* has not finished.                                                       *)
BlobIsExpansion ==
  blob \notin {Absent, Prior} => blob.lines = Expand(tmpl, frag)

(***************************************************************************)
(* The refinement mapping: the abstract run is idle before the unlink,    *)
(* running while the loop copies, and done or failed after.  The loop's    *)
(* steps, which touch only the temporary file, are stutters of BlobPublish. *)
(***************************************************************************)
RunOf ==
  CASE pc = "start"   -> "idle"
    [] pc = "loop"    -> "running"
    [] pc = "done"    -> "done"
    [] pc = "aborted" -> "failed"

BP == INSTANCE BlobPublish WITH run <- RunOf

(* The script implements BlobPublish: the published blob changes only at   *)
(* the unlink of line 37, to nothing, and at the rename of line 65, to the *)
(* full expansion of the template, which happens only when every segment  *)
(* header it opens exists; a raise or a kill publishes nothing.            *)
BlobRefines == BP!Spec

=============================================================================
