---------------------------- MODULE MCGenVector -----------------------------
(***************************************************************************)
(* Spec files for model checking GenVector.  The prototype lines are       *)
(* builtins of the OpenCL families the registry serves, tokenised the way  *)
(* init_from_line splits them; they include pointer parameters, scalar     *)
(* broadcast operands, the paired integer and relational classes, the two  *)
(* select variants, a line whose parameters have no names and a line with  *)
(* no parameters.                                                          *)
(***************************************************************************)
EXTENDS GenVector, FiniteSets

Sec(w) == [kind |-> "section", words |-> w]
P(t) == [kind |-> "proto", toks |-> t]
BlankLine == [kind |-> "blank"]
CommentLine == [kind |-> "comment"]

Sections == {"math", "integer", "relational", "common"}

Protos ==
  { <<"gentype", "acos", "gentype", "x">>,
    <<"gentype", "fract", "gentype", "x", "__global", "gentype", "*iptr">>,
    <<"floatn", "frexp", "floatn", "x", "__global", "intn", "*exp">>,
    <<"floatn", "ldexp", "floatn", "x", "int", "k">>,
    <<"ugentype", "abs_diff", "gentype", "x", "gentype", "y">>,
    <<"gentype", "clamp", "gentype", "x", "sgentype", "minval", "sgentype", "maxval">>,
    <<"shortn", "upsample", "charn", "hi", "ucharn", "lo">>,
    <<"intn", "isequal", "floatn", "x", "floatn", "y">>,
    <<"int", "any", "igentype", "x">>,
    <<"gentype", "select", "gentype", "a", "gentype", "b", "igentype", "c">>,
    <<"gentype", "select", "gentype", "a", "gentype", "b", "ugentype", "c">>,
    <<"gentype", "bitselect", "gentype", "a", "gentype", "b", "gentype", "c">>,
    <<"gentype", "step", "float", "edge", "gentype", "x">>,
    <<"gentype", "copysign", "gentype", "gentype">>,
    <<"floatn", "nan">> }

(* The lines a second prototype line is tried after: the two mask kinds   *)
(* of select, which must not collide, and lines of the integer and         *)
(* relational classes, whose negation and promotion depend on the prefix   *)
(* kept from the line before.                                              *)
Seconds ==
  { <<"gentype", "select", "gentype", "a", "gentype", "b", "ugentype", "c">>,
    <<"intn", "isequal", "floatn", "x", "floatn", "y">>,
    <<"ugentype", "abs_diff", "gentype", "x", "gentype", "y">> }

Pairs == {ab \in Protos \X Seconds : ab[1] # ab[2]}

(* Every prototype under every section, alone, after another line of the  *)
(* same section or after a section change, and before any section.        *)
MCSpecFiles ==
  {<<Sec(<<s>>), P(a)>> : s \in Sections, a \in Protos}
  \cup {<<Sec(<<s>>), P(ab[1]), P(ab[2])>> : s \in Sections, ab \in Pairs}
  \cup {<<Sec(<<s>>), P(ab[1]), Sec(<<t>>), P(ab[2])>> :
          s \in {"math", "relational"}, t \in {"integer", "relational"}, ab \in Pairs}
  \cup {<<P(a)>> : a \in Protos}
  \cup {<<CommentLine, Sec(<<>>), P(a)>> : a \in Protos}
  \cup {<<BlankLine, Sec(<<"relational", "functions">>), CommentLine, P(a), BlankLine>>
          : a \in Protos}

(* A spec file with a prototype before any section, which raises, and one *)
(* that completes: a run of either finds the header of an earlier run.     *)
AtomicityFiles ==
  {<<P(<<"gentype", "acos", "gentype", "x">>)>>,
   <<Sec(<<"math">>), P(<<"gentype", "acos", "gentype", "x">>)>>}

(* The spec file of the acos example: one line in the math section.        *)
AcosFiles == {<<Sec(<<"math", "functions">>), P(<<"gentype", "acos", "gentype", "x">>)>>}

(* Spec, section 8: the line gentype acos(gentype x) yields exactly four   *)
(* overloads, for float at widths 2, 4, 8 and 16, the scalar and the       *)
(* double ones being skipped by gen_proto_str_1.                           *)
AcosEmitsFour ==
  header \notin {Absent, Prior} =>
    /\ Cardinality(Places(header)) = 4
    /\ {Ov(header, p).ret.width : p \in Places(header)} = {2, 4, 8, 16}

(* The spec file of the select line with an unsigned mask.                 *)
SelectFiles ==
  {<<Sec(<<"relational", "functions">>),
     P(<<"gentype", "select", "gentype", "a", "gentype", "b", "ugentype", "c">>)>>}

(* Spec, section 8: match_signed undoes match_unsigned on every integer    *)
(* type; here, on every integer parameter type of the overloads written,   *)
(* among them the unsigned masks fixup_type builds with match_unsigned.    *)
SignedOfUnsignedRoundTrip ==
  temp \notin {Absent} =>
    \A p \in Places(temp) : \A n \in DOMAIN Ov(temp, p).params :
      LET t == Ov(temp, p).params[n]
      IN  t.base \notin {"float", "double"} => match_signed(match_unsigned(t)) = t
=============================================================================
