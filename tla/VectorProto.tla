---------------------------- MODULE VectorProto -----------------------------
(***************************************************************************)
(* One spec line through builtinProto (gen_builtin_vector.py, lines        *)
(* 109-349): parsing the line into a prototype, fixup_type, which          *)
(* resolves the concrete type of a slot at an overload index, and          *)
(* gen_proto_str, which yields one overload, a skip or a failure per       *)
(* index.  Overload indexes are 0-based, as in the code.                   *)
(***************************************************************************)
EXTENDS BuiltinTypes

(***************************************************************************)
(* _prefix: a name containing "gentype" is qualified by the section        *)
(* prefix.  GentypeTokens are the spec-file tokens containing "gentype".   *)
(***************************************************************************)
GentypeTokens == {"gentype", "igentype", "ugentype", "sgentype", "gentypef",
                  "gentyped", "gentypem", "gentypen", "ugentypem", "ugentypen"}

prefix_(prefix, dtype) ==
  IF dtype \in GentypeTokens THEN prefix \o "_" \o dtype ELSE dtype

(***************************************************************************)
(* init_from_line (lines 225-254).  The line split at ',', ' ' and '(' is  *)
(* a sequence of tokens.  idx, the position less the memory-space tokens  *)
(* set aside so far, is 0 for the return type and 1 for the function name *)
(* (nothing is set aside before position 2); from there on an even idx is *)
(* a type and an odd one a parameter name, and a memory-space keyword at   *)
(* an even idx is kept for the next type and not counted.                  *)
(* Scan[k] is the state of the loop after k tokens.                        *)
(***************************************************************************)
MemKeywords == MemSpaces

ParamTokens(toks) ==
  LET Scan[k \in 0 .. Len(toks)] ==
        IF k = 0 THEN [params |-> << >>, stripped |-> 0, memSpace |-> NoMem]
        ELSE LET s   == Scan[k - 1]
                 idx == (k - 1) - s.stripped
             IN  IF idx < 2 \/ (idx % 2) = 1 THEN s
                 ELSE IF toks[k] \in MemKeywords
                        THEN [s EXCEPT !.memSpace = toks[k], !.stripped = @ + 1]
                 ELSE [s EXCEPT !.params = Append(@, [mem |-> s.memSpace, cls |-> toks[k]]),
                                !.memSpace = NoMem]
  IN  Scan[Len(toks)].params

(* The prototype, its type names qualified by the section prefix.          *)
Parse(toks, prefix) ==
  LET ps == ParamTokens(toks)
  IN  [ret    |-> IF Len(toks) >= 1 THEN prefix_(prefix, toks[1]) ELSE "",
       name   |-> IF Len(toks) >= 2 THEN toks[2] ELSE "",
       params |-> [n \in DOMAIN ps |-> [mem |-> ps[n].mem,
                                        cls |-> prefix_(prefix, ps[n].cls)]]]

(***************************************************************************)
(* fixup_type (lines 155-191): the type the list dstType takes at index n, *)
(* srcType being the other side of the relation.  The rules are tried in   *)
(* the code's order; an index past the end of a list is an IndexError.     *)
(***************************************************************************)
At(list, n) == IF n < Len(list) THEN list[n + 1] ELSE Fail

Lift(F(_), t) == IF t = Fail THEN Fail ELSE F(t)

fixup_type(dstType, srcType, n) ==
  LET D(name) == dstType = type_dict[name]
      S(name) == srcType = type_dict[name]
  IN
  IF dstType = srcType THEN At(dstType, n)
  ELSE IF Len(dstType) = 1 THEN dstType[1]
  ELSE IF Len(srcType) = 1 THEN At(dstType, n)
  ELSE IF D("integer_sgentype") /\ S("integer_gentype")
    THEN Lift(match_scalar, At(srcType, n))
  ELSE IF D("integer_gentype") /\ (S("integer_sgentype") \/ S("integer_ugentype"))
    THEN At(dstType, n)
  ELSE IF D("integer_ugentype") /\ S("integer_gentype")
    THEN Lift(match_unsigned, At(srcType, n))
  ELSE IF D("relational_igentype") /\ S("relational_gentype")
    THEN Lift(match_signed, At(srcType, n))
  ELSE IF D("relational_ugentype") /\ S("relational_gentype")
    THEN Lift(match_unsigned, At(srcType, n))
  ELSE IF D("relational_gentype")
          /\ (S("relational_igentype") \/ S("relational_ugentype"))
    THEN At(dstType, n)
  ELSE IF Len(dstType) = Len(srcType) THEN At(dstType, n)
  ELSE Fail

(***************************************************************************)
(* gen_proto_str (lines 336-349) and gen_proto_str_1 (lines 256-326).      *)
(***************************************************************************)
Skip == [skip |-> TRUE]

(* How parameter n is passed to the scalar function in every lane.         *)
Modes == {"addr", "broadcast", "ptrlane", "signmask", "lane"}

Overload == [name : STRING, ret : Type, params : Seq(Type), cast : Type,
             modes : Seq(Modes), negate : BOOLEAN]

(* check_type: every name, its memory space stripped, is registered.       *)
TypesKnown(proto) ==
  /\ proto.ret \in Registered
  /\ \A n \in 1 .. Len(proto.params) : proto.params[n].cls \in Registered

(* The largest of a non-empty finite set of integers.                      *)
Largest(S) == CHOOSE m \in S : \A x \in S : x <= m
Least(S) == CHOOSE m \in S : \A x \in S : m <= x

(* The overload index ranges over 0 .. OverloadCount(proto) - 1.           *)
OverloadCount(proto) ==
  Largest({Len(type_dict[proto.ret])}
          \cup {Len(type_dict[proto.params[n].cls]) : n \in 1 .. Len(proto.params)})

(* The outcome of the two loops of gen_proto_str_1 (lines 257-323), given *)
(* the resolved types ptype[n] and vtype[n] of every parameter; the body   *)
(* loop recomputes the same fixup_type results as the signature loop.      *)
ProtoOutcome(proto, prefix, ptype, vtype) ==
  LET N == Len(ptype)
      failed(n) == ptype[n] = Fail \/ vtype[n] = Fail
      \* the early returns of the signature loop, in the order they are tried
      stops(n) == \/ failed(n)
                  \/ "double" \in {ptype[n].base, vtype[n].base}
                  \/ vtype[n].width = 1
      Stops == {n \in 1 .. N : stops(n)}
      isPointer(n) == ptype[n].mem # NoMem
      mode(n) ==
        IF vtype[n].width # ptype[n].width
          THEN IF isPointer(n) THEN "addr" ELSE "broadcast"
        ELSE IF isPointer(n) THEN "ptrlane"
        ELSE IF proto.name = "select" /\ n = 3 THEN "signmask"
        ELSE "lane"
      \* "parameter is not a scalar but has different width"
      laneMismatch == \E n \in 1 .. N : /\ vtype[n].width # ptype[n].width
                                        /\ ptype[n].width # 1
  IN
  IF N = 0 THEN Fail     \* formatStr is never bound: UnboundLocalError
  ELSE IF Stops # {} THEN (IF failed(Least(Stops)) THEN Fail ELSE Skip)
  ELSE IF laneMismatch THEN Fail
  ELSE [name   |-> proto.name,
        ret    |-> vtype[1],
        params |-> ptype,
        cast   |-> vtype[N],
        modes  |-> [n \in 1 .. N |-> mode(n)],
        negate |-> prefix = "relational" /\ proto.name \notin {"bitselect", "select"}]

(* gen_proto_str_1(vtypeSeq, ptypeSeqs, i): the outcome at index i, for a  *)
(* prototype whose names are all registered and a section prefix.          *)
gen_proto_str_1(proto, prefix, vtypeSeq, ptypeSeqs, i) ==
  ProtoOutcome(proto, prefix,
               [n \in DOMAIN ptypeSeqs |-> fixup_type(ptypeSeqs[n], vtypeSeq, i)],
               [n \in DOMAIN ptypeSeqs |-> fixup_type(vtypeSeq, ptypeSeqs[n], i)])

(* A raise at any index leaves the loop of gen_proto_str: nothing of the   *)
(* line reaches the file.                                                  *)
AllOrFail(outs) == IF \E k \in DOMAIN outs : outs[k] = Fail THEN Fail ELSE outs

(* gen_proto_str for the line with tokens toks under the section prefix:   *)
(* Fail if check_type or any index raises, else the sequence whose k-th    *)
(* element is the outcome at index k - 1.                                  *)
gen_proto_str(toks, prefix) ==
  LET proto     == Parse(toks, prefix)
      vtypeSeq  == type_dict[proto.ret]
      ptypeSeqs == [n \in DOMAIN proto.params |->
                      set_vector_memspace(type_dict[proto.params[n].cls],
                                          proto.params[n].mem)]
  IN  IF ~TypesKnown(proto) THEN Fail
      ELSE AllOrFail([k \in 1 .. OverloadCount(proto) |->
                        gen_proto_str_1(proto, prefix, vtypeSeq, ptypeSeqs, k - 1)])

=============================================================================
