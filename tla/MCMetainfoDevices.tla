------------------------ MODULE MCMetainfoDevices ---------------------------
(***************************************************************************)
(* Header files for model checking MetainfoDevices: every sequence of up   *)
(* to four lines drawn from an unrelated line and the defines of an older  *)
(* family and of IVYBRIDGE with two ids, which covers no IVYBRIDGE define, *)
(* older defines after it, and an id listed twice.                         *)
(***************************************************************************)
EXTENDS MetainfoDevices

MCFamilies == {"IVYBRIDGE", "GEN6"}

MCLines == {[kind |-> "other"]}
           \cup {[kind |-> "define", family |-> f, id |-> i] : f \in MCFamilies, i \in {1, 2}}

MCHeaderFiles == UNION {[1 .. n -> MCLines] : n \in 0 .. 4}
=============================================================================
