---------------------------- MODULE MCBlobHeader ----------------------------
(***************************************************************************)
(* Templates for model checking BlobHeader: every sequence of up to four   *)
(* lines drawn from a text line and the BEGIN and END markers of two       *)
(* segments, which covers well-formed regions, nested and crossed markers, *)
(* an END without a BEGIN and a BEGIN whose END is missing.                *)
(***************************************************************************)
EXTENDS BlobHeader

MCLines == {[kind |-> "text", id |-> 1], Begin("vector"), End("vector"),
            Begin("as"), End("as")}

MCTemplates == UNION {[1 .. n -> MCLines] : n \in 0 .. 4}

MCFragLengths == {2, 4}
=============================================================================
