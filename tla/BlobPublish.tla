---------------------------- MODULE BlobPublish -----------------------------
(***************************************************************************)
(* What one run of src/backend/src/update_blob_ocl_header.py promises of  *)
(* the published blob, with the copy loop left out: the run removes the   *)
(* blob it finds when it starts, and later either publishes, in one step, *)
(* the template with every segment region replaced by its generated       *)
(* header, or fails and publishes nothing.  It can publish only when the  *)
(* header of every segment the template opens exists.                      *)
(***************************************************************************)
EXTENDS BlobTemplate

CONSTANTS Templates, FragLengths

VARIABLES
  tmpl,           \* the template of this run
  frag,           \* the line count of each ocl_<seg>.h, or Missing
  run,            \* "idle", "running", "done" or "failed"
  blob            \* the published blob: a sequence of lines, Absent or Prior

avars == <<tmpl, frag, run, blob>>

Init ==
  /\ tmpl \in Templates
  /\ frag \in [Segs -> FragLengths \cup {Missing}]
  /\ run = "idle"
  /\ blob \in {Absent, Prior}

(* safeUnlink(blobFileName) (line 37).                                     *)
Unlink ==
  /\ run = "idle"
  /\ run' = "running"
  /\ blob' = Absent
  /\ UNCHANGED <<tmpl, frag>>

(* The loop of lines 45-61 and the rename of line 65, as one step.         *)
Publish ==
  /\ run = "running"
  /\ \A b \in Openers(tmpl) : frag[tmpl[b].seg] # Missing
  /\ run' = "done"
  /\ blob' = Written(Expand(tmpl, frag))
  /\ UNCHANGED <<tmpl, frag>>

(* A raise or a kill before the rename.                                    *)
Fail ==
  /\ run \in {"idle", "running"}
  /\ run' = "failed"
  /\ UNCHANGED <<tmpl, frag, blob>>

Next == Unlink \/ Publish \/ Fail

Spec == Init /\ [][Next]_avars
=============================================================================
