--------------------------- MODULE GenVectorProofs --------------------------
(***************************************************************************)
(* Proofs about GenVector: the generator's state is well typed in every    *)
(* reachable state, for every spec file.  The heart of it is that          *)
(* gen_proto_str, on any prototype line whose classes check_type accepts,  *)
(* yields overloads whose types are types of the registry: type_dict,      *)
(* set_vector_memspace, match_* and fixup_type are shown to stay within    *)
(* Type, and the overload count to be a natural.                           *)
(* Second, a header the generator publishes is complete and in order       *)
(* (NoPartialPublish), from an invariant on the temporary file.            *)
(***************************************************************************)
EXTENDS GenVector, TLAPS, SequenceTheorems, WellFoundedInduction

(* The base tuples of lines 55-60 are lists of bases, of 4, 4, 2, 8 and  *)
(* 10 entries.                                                              *)
LEMMA BaseLists ==
  /\ all_itype \in Seq(Bases) /\ Len(all_itype) = 4
  /\ all_utype \in Seq(Bases) /\ Len(all_utype) = 4
  /\ all_float_type \in Seq(Bases) /\ Len(all_float_type) = 2
  /\ all_int_type \in Seq(Bases) /\ Len(all_int_type) = 8
  /\ all_type \in Seq(Bases) /\ Len(all_type) = 10
<1>1. /\ all_itype \in Seq(Bases) /\ Len(all_itype) = 4
      /\ all_utype \in Seq(Bases) /\ Len(all_utype) = 4
      /\ all_float_type \in Seq(Bases) /\ Len(all_float_type) = 2
  BY DEF all_itype, all_utype, all_float_type, Bases
<1>2. all_int_type \in Seq(Bases) /\ Len(all_int_type) = Len(all_itype) + Len(all_utype)
  BY <1>1, ConcatProperties, Zenon DEF all_int_type
<1>3. all_type \in Seq(Bases) /\ Len(all_type) = Len(all_int_type) + Len(all_float_type)
  BY <1>1, <1>2, ConcatProperties, Zenon DEF all_type
<1> QED  BY <1>1, <1>2, <1>3

(* Every class of the registry lists at most ten bases.                    *)
LEMMA ClassTables ==
  /\ \A n \in DOMAIN VectorClasses : VectorClasses[n] \in Seq(Bases) /\ Len(VectorClasses[n]) <= 10
  /\ \A n \in DOMAIN ScalarClasses : ScalarClasses[n] \in Seq(Bases) /\ Len(ScalarClasses[n]) <= 10
  /\ \A n \in DOMAIN M4Classes : M4Classes[n] \in Seq(Bases) /\ Len(M4Classes[n]) <= 10
<1>1. /\ <<"float">> \in Seq(Bases) /\ <<"double">> \in Seq(Bases)
      /\ <<"char">> \in Seq(Bases) /\ <<"uchar">> \in Seq(Bases)
      /\ <<"short">> \in Seq(Bases) /\ <<"ushort">> \in Seq(Bases)
      /\ <<"int">> \in Seq(Bases) /\ <<"uint">> \in Seq(Bases)
      /\ <<"long">> \in Seq(Bases) /\ <<"ulong">> \in Seq(Bases)
      /\ <<"uint", "int">> \in Seq(Bases)
  BY DEF Bases
<1>2. /\ Len(<<"float">>) = 1 /\ Len(<<"double">>) = 1 /\ Len(<<"char">>) = 1
      /\ Len(<<"uchar">>) = 1 /\ Len(<<"short">>) = 1 /\ Len(<<"ushort">>) = 1
      /\ Len(<<"int">>) = 1 /\ Len(<<"uint">>) = 1 /\ Len(<<"long">>) = 1
      /\ Len(<<"ulong">>) = 1 /\ Len(<<"uint", "int">>) = 2
  OBVIOUS
<1> DEFINE VS == {all_float_type, <<"float">>, <<"double">>, all_int_type, all_utype, <<"char">>,
         <<"uchar">>, <<"short">>, <<"ushort">>, <<"int">>, <<"uint">>, <<"long">>,
         <<"ulong">>, <<"uint", "int">>, all_type, all_itype}
<1>3. \A n \in DOMAIN VectorClasses : VectorClasses[n] \in VS
  BY DEF VectorClasses, VS
<1>4. \A n \in DOMAIN ScalarClasses : ScalarClasses[n] \in VS
  BY DEF ScalarClasses, VS
<1>5. \A n \in DOMAIN M4Classes : M4Classes[n] \in VS
  BY DEF M4Classes, VS
<1>6. \A s \in VS : s \in Seq(Bases)
  BY <1>1, BaseLists, Zenon DEF VS
<1>7. /\ Len(all_float_type) <= 10 /\ Len(all_int_type) <= 10 /\ Len(all_utype) <= 10
      /\ Len(all_type) <= 10 /\ Len(all_itype) <= 10
      /\ Len(<<"float">>) <= 10 /\ Len(<<"double">>) <= 10 /\ Len(<<"char">>) <= 10
      /\ Len(<<"uchar">>) <= 10 /\ Len(<<"short">>) <= 10 /\ Len(<<"ushort">>) <= 10
      /\ Len(<<"int">>) <= 10 /\ Len(<<"uint">>) <= 10 /\ Len(<<"long">>) <= 10
      /\ Len(<<"ulong">>) <= 10 /\ Len(<<"uint", "int">>) <= 10
  BY <1>2, BaseLists
<1>8. \A s \in VS : Len(s) <= 10
  BY <1>7, Zenon DEF VS
<1> QED  BY <1>3, <1>4, <1>5, <1>6, <1>8, Zenon

(* gen_vector_type builds a list of types, one per base and width.        *)
LEMMA GenVectorTypeOK ==
  ASSUME NEW ts \in Seq(Bases), NEW ws \in Seq(Widths), Len(ws) >= 1
  PROVE  /\ gen_vector_type(ts, ws) \in Seq(Type)
         /\ Len(gen_vector_type(ts, ws)) = Len(ts) * Len(ws)
<1> DEFINE L == Len(ts) * Len(ws)
<1>1. L \in Nat
  OBVIOUS
<1>2. \A k \in 1 .. L : /\ (k - 1) \div Len(ws) + 1 \in 1 .. Len(ts)
                        /\ ((k - 1) % Len(ws)) + 1 \in 1 .. Len(ws)
  BY SMT
<1>3. \A k \in 1 .. L : [base |-> ts[(k - 1) \div Len(ws) + 1],
                         width |-> ws[((k - 1) % Len(ws)) + 1], mem |-> NoMem] \in Type
  BY <1>2 DEF Type, NoMem
<1> QED
  BY <1>1, <1>3 DEF gen_vector_type

(* The three width lists the registry passes to gen_vector_type.          *)
LEMMA WidthLists ==
  /\ all_vector \in Seq(Widths) /\ Len(all_vector) = 6
  /\ <<1>> \in Seq(Widths) /\ Len(<<1>>) = 1
  /\ M4 \in Seq(Widths) /\ Len(M4) = 4
BY DEF all_vector, M4, Widths

(* Every list type_dict registers is a list of at most 60 types.           *)
LEMMA RegistryTypeOK ==
  \A name \in Registered : /\ type_dict[name] \in Seq(Type)
                           /\ Len(type_dict[name]) <= 60
<1> SUFFICES ASSUME NEW name \in Registered
             PROVE  /\ type_dict[name] \in Seq(Type)
                    /\ Len(type_dict[name]) <= 60
  OBVIOUS
<1>1. \A ts \in Seq(Bases), ws \in Seq(Widths) :
        Len(ws) >= 1 => /\ gen_vector_type(ts, ws) \in Seq(Type)
                        /\ Len(gen_vector_type(ts, ws)) = Len(ts) * Len(ws)
  BY GenVectorTypeOK
<1>2. \A ts \in Seq(Bases), ws \in Seq(Widths) :
        Len(ts) <= 10 /\ Len(ws) >= 1 /\ Len(ws) <= 6 =>
          /\ gen_vector_type(ts, ws) \in Seq(Type)
          /\ Len(gen_vector_type(ts, ws)) <= 60
  <2> SUFFICES ASSUME NEW ts \in Seq(Bases), NEW ws \in Seq(Widths),
                      Len(ts) <= 10, Len(ws) >= 1, Len(ws) <= 6
               PROVE  /\ gen_vector_type(ts, ws) \in Seq(Type)
                      /\ Len(gen_vector_type(ts, ws)) <= 60
    OBVIOUS
  <2>1. Len(ts) * Len(ws) <= 60
    BY SMT
  <2> QED  BY <1>1, <2>1
<1>3. CASE name \in DOMAIN VectorClasses
  <2>1. type_dict[name] = gen_vector_type(VectorClasses[name], all_vector)
    BY <1>3 DEF type_dict
  <2>2. VectorClasses[name] \in Seq(Bases) /\ Len(VectorClasses[name]) <= 10
    BY <1>3, ClassTables, Zenon
  <2>3. all_vector \in Seq(Widths) /\ Len(all_vector) >= 1 /\ Len(all_vector) <= 6
    BY WidthLists
  <2> QED  BY <2>1, <2>2, <2>3, <1>2, Zenon
<1>4. CASE name \notin DOMAIN VectorClasses /\ name \in DOMAIN ScalarClasses
  <2>1. type_dict[name] = gen_vector_type(ScalarClasses[name], <<1>>)
    BY <1>4 DEF type_dict
  <2>2. ScalarClasses[name] \in Seq(Bases) /\ Len(ScalarClasses[name]) <= 10
    BY <1>4, ClassTables, Zenon
  <2>3. <<1>> \in Seq(Widths) /\ Len(<<1>>) >= 1 /\ Len(<<1>>) <= 6
    BY WidthLists
  <2> QED  BY <2>1, <2>2, <2>3, <1>2, Zenon
<1>5. CASE name \notin DOMAIN VectorClasses /\ name \notin DOMAIN ScalarClasses
  <2>1. name \in DOMAIN M4Classes
    BY <1>5 DEF Registered
  <2>2. type_dict[name] = gen_vector_type(M4Classes[name], M4)
    BY <1>5 DEF type_dict
  <2>3. M4Classes[name] \in Seq(Bases) /\ Len(M4Classes[name]) <= 10
    BY <2>1, ClassTables, Zenon
  <2>4. M4 \in Seq(Widths) /\ Len(M4) >= 1 /\ Len(M4) <= 6
    BY WidthLists
  <2> QED  BY <2>2, <2>3, <2>4, <1>2, Zenon
<1> QED  BY <1>3, <1>4, <1>5

(* set_vector_memspace keeps a list of types a list of types.               *)
LEMMA MemspaceTypeOK ==
  ASSUME NEW l \in Seq(Type), NEW m \in MemSpaces \cup {NoMem}
  PROVE  set_vector_memspace(l, m) \in Seq(Type)
<1>1. CASE m = NoMem
  BY <1>1 DEF set_vector_memspace
<1>2. CASE m # NoMem
  <2>1. \A k \in DOMAIN l : [l[k] EXCEPT !.mem = m] \in Type
    <3> SUFFICES ASSUME NEW k \in DOMAIN l PROVE [l[k] EXCEPT !.mem = m] \in Type
      OBVIOUS
    <3>1. l[k] \in Type
      BY ElementOfSeq
    <3>2. m \in MemSpaces
      BY <1>2
    <3>3. [l[k] EXCEPT !.mem = m] = [base |-> l[k].base, width |-> l[k].width, mem |-> m]
      BY <3>1 DEF Type
    <3> QED  BY <3>1, <3>2, <3>3 DEF Type
  <2>2. DOMAIN l = 1 .. Len(l)
    OBVIOUS
  <2> QED  BY <1>2, <2>1, <2>2 DEF set_vector_memspace
<1> QED  BY <1>1, <1>2

(* A type rebuilt as the code's 2-list [base, width].                       *)
LEMMA PlainTypeOK ==
  ASSUME NEW b \in Bases, NEW w \in Widths
  PROVE  Plain(b, w) \in Type
BY DEF Plain, Type

(* match_unsigned, match_signed and match_scalar map a type to a type:     *)
(* 'u' + base and base[1:] only meet the bases they are defined on.        *)
LEMMA MatchTypeOK ==
  ASSUME NEW t \in Type
  PROVE  /\ match_unsigned(t) \in Type
         /\ match_signed(t) \in Type
         /\ match_scalar(t) \in Type
<1>1. t.base \in Bases /\ t.width \in Widths
  BY DEF Type
<1>2. /\ "uint" \in Bases /\ "ulong" \in Bases /\ "int" \in Bases /\ "long" \in Bases
      /\ 1 \in Widths
  BY DEF Bases, Widths
<1>3. t.base \in Bases \ ({"float", "double"} \cup UnsignedBases) => UPrefixed[t.base] \in Bases
  BY DEF Bases, UnsignedBases, UPrefixed
<1>4. t.base \in UnsignedBases => UStripped[t.base] \in Bases
  BY DEF Bases, UnsignedBases, UStripped
<1>5. match_unsigned(t) \in Type
  BY <1>1, <1>2, <1>3, PlainTypeOK DEF match_unsigned
<1>6. match_signed(t) \in Type
  BY <1>1, <1>2, <1>4, PlainTypeOK DEF match_signed
<1>7. match_scalar(t) \in Type
  BY <1>1, <1>2, PlainTypeOK DEF match_scalar
<1> QED  BY <1>5, <1>6, <1>7

(* Indexing a list of types gives a type or the IndexError.               *)
LEMMA AtTypeOK ==
  ASSUME NEW l \in Seq(Type), NEW n \in Nat
  PROVE  At(l, n) \in Type \cup {Fail}
BY DEF At

(* fixup_type resolves a slot to a type or raises, under every rule.       *)
LEMMA FixupTypeOK ==
  ASSUME NEW d \in Seq(Type), NEW s \in Seq(Type), NEW n \in Nat
  PROVE  fixup_type(d, s, n) \in Type \cup {Fail}
<1>1. At(d, n) \in Type \cup {Fail} /\ At(s, n) \in Type \cup {Fail}
  BY AtTypeOK
<1>2. Len(d) = 1 => d[1] \in Type
  OBVIOUS
<1>3. /\ Lift(match_scalar, At(s, n)) \in Type \cup {Fail}
      /\ Lift(match_unsigned, At(s, n)) \in Type \cup {Fail}
      /\ Lift(match_signed, At(s, n)) \in Type \cup {Fail}
  <2>1. CASE At(s, n) = Fail
    BY <2>1 DEF Lift
  <2>2. CASE At(s, n) # Fail
    <3>1. At(s, n) \in Type
      BY <1>1, <2>2
    <3> QED  BY <2>2, <3>1, MatchTypeOK DEF Lift
  <2> QED  BY <2>1, <2>2
<1> QED  BY <1>1, <1>2, <1>3 DEF fixup_type

(* The outcomes Fail and Skip are not types.                               *)
LEMMA FailNotType == Fail \notin Type /\ Skip \notin Type /\ Fail # Skip
BY DEF Fail, Type, Skip

(* The two loops of gen_proto_str_1, given slot types that are types or   *)
(* raises, yield an overload, a skip or a raise.                           *)
LEMMA ProtoOutcomeTypeOK ==
  ASSUME NEW proto, NEW pfx, proto.name \in STRING,
         NEW pt \in Seq(Type \cup {Fail}), NEW vt \in [1 .. Len(pt) -> Type \cup {Fail}]
  PROVE  ProtoOutcome(proto, pfx, pt, vt) \in Overload \cup {Skip, Fail}
<1> DEFINE N == Len(pt)
           failed(n) == pt[n] = Fail \/ vt[n] = Fail
           stops(n) == \/ failed(n)
                       \/ "double" \in {pt[n].base, vt[n].base}
                       \/ vt[n].width = 1
           St == {n \in 1 .. N : stops(n)}
<1>1. CASE N = 0
  BY <1>1 DEF ProtoOutcome
<1>2. CASE N # 0 /\ St # {}
  BY <1>2 DEF ProtoOutcome
<1>3. CASE N # 0 /\ St = {}
  <2>1. \A n \in 1 .. N : pt[n] \in Type /\ vt[n] \in Type
    BY <1>3
  <2>2. N \in Nat /\ 1 \in 1 .. N /\ N \in 1 .. N
    BY <1>3
  <2>3. pt \in Seq(Type)
    BY <2>1
  <2> DEFINE isPointer(n) == pt[n].mem # NoMem
              mode(n) ==
                IF vt[n].width # pt[n].width
                  THEN IF isPointer(n) THEN "addr" ELSE "broadcast"
                ELSE IF isPointer(n) THEN "ptrlane"
                ELSE IF proto.name = "select" /\ n = 3 THEN "signmask"
                ELSE "lane"
              laneMismatch == \E n \in 1 .. N : /\ vt[n].width # pt[n].width
                                                /\ pt[n].width # 1
              ov == [name   |-> proto.name,
                     ret    |-> vt[1],
                     params |-> pt,
                     cast   |-> vt[N],
                     modes  |-> [n \in 1 .. N |-> mode(n)],
                     negate |-> pfx = "relational" /\ proto.name \notin {"bitselect", "select"}]
  <2>4. [n \in 1 .. N |-> mode(n)] \in Seq(Modes)
    BY <2>2 DEF Modes
  <2>5. ov \in Overload
    BY <2>1, <2>2, <2>3, <2>4 DEF Overload
  <2>6. ProtoOutcome(proto, pfx, pt, vt) = IF laneMismatch THEN Fail ELSE ov
    BY <1>3 DEF ProtoOutcome
  <2> QED  BY <2>5, <2>6
<1> QED  BY <1>1, <1>2, <1>3

(* gen_proto_str_1 at any index, given lists of types for the result and   *)
(* the parameters, yields an overload, a skip or a raise.                  *)
LEMMA Proto1TypeOK ==
  ASSUME NEW proto, NEW pfx, proto.name \in STRING,
         NEW vS \in Seq(Type), NEW pSs \in Seq(Seq(Type)), NEW i \in Nat
  PROVE  gen_proto_str_1(proto, pfx, vS, pSs, i) \in Overload \cup {Skip, Fail}
<1> DEFINE pt == [n \in DOMAIN pSs |-> fixup_type(pSs[n], vS, i)]
           vt == [n \in DOMAIN pSs |-> fixup_type(vS, pSs[n], i)]
<1>1. \A n \in DOMAIN pSs : /\ fixup_type(pSs[n], vS, i) \in Type \cup {Fail}
                            /\ fixup_type(vS, pSs[n], i) \in Type \cup {Fail}
  BY FixupTypeOK
<1>0. Len(pSs) \in Nat /\ DOMAIN pSs = 1 .. Len(pSs)
  OBVIOUS
<1>2. pt \in Seq(Type \cup {Fail}) /\ Len(pt) = Len(pSs)
  <2>1. pt \in [1 .. Len(pSs) -> Type \cup {Fail}]
    BY <1>0, <1>1
  <2> QED  BY <1>0, <2>1
<1>3. vt \in [1 .. Len(pt) -> Type \cup {Fail}]
  BY <1>1, <1>2
<1>4. ProtoOutcome(proto, pfx, pt, vt) \in Overload \cup {Skip, Fail}
  BY <1>2, <1>3, ProtoOutcomeTypeOK
<1> QED  BY <1>4 DEF gen_proto_str_1

(* A non-empty set of naturals has a least element.                        *)
LEMMA NatHasLeast ==
  ASSUME NEW T \in SUBSET Nat, T # {}
  PROVE  \E x \in T : \A y \in T : x <= y
<1>1. \E x \in T : \A y \in T : ~(<<y, x>> \in OpToRel(<, Nat))
  BY NatLessThanWellFounded, WFMin
<1>2. \A x, y \in Nat : ~(<<y, x>> \in OpToRel(<, Nat)) => x <= y
  <2> SUFFICES ASSUME NEW x \in Nat, NEW y \in Nat, ~(x <= y)
               PROVE  <<y, x>> \in OpToRel(<, Nat)
    OBVIOUS
  <2>1. <<y, x>> \in Nat \X Nat /\ <<y, x>>[1] < <<y, x>>[2]
    OBVIOUS
  <2> QED  BY <2>1, Zenon DEF OpToRel
<1> QED  BY <1>1, <1>2

(* A non-empty set of naturals below a bound has a largest element.        *)
LEMMA LargestOfBounded ==
  ASSUME NEW B \in Nat, NEW S \in SUBSET (0 .. B), S # {}
  PROVE  /\ Largest(S) \in S
         /\ \A x \in S : x <= Largest(S)
<1> DEFINE T == {B - x : x \in S}
<1>1. T \in SUBSET Nat /\ T # {}
  <2>1. \A x \in S : B - x \in Nat
    OBVIOUS
  <2>2. PICK x0 \in S : TRUE
    OBVIOUS
  <2>3. B - x0 \in T
    BY Zenon DEF T
  <2> QED  BY <2>1, <2>3, Zenon DEF T
<1>2. PICK t \in T : \A y \in T : t <= y
  BY <1>1, NatHasLeast
<1>3. PICK m \in S : t = B - m
  BY Zenon DEF T
<1>4. \A x \in S : x <= m
  <2> SUFFICES ASSUME NEW x \in S PROVE x <= m
    OBVIOUS
  <2>1. B - x \in T
    BY Zenon DEF T
  <2>2. t <= B - x
    BY <1>2, <2>1
  <2> QED  BY <2>2, <1>3
<1> QED  BY <1>4 DEF Largest

(* The count of overload indexes gen_proto_str loops over is a natural.    *)
LEMMA OverloadCountTypeOK ==
  ASSUME NEW proto, proto.ret \in Registered,
         proto.params \in Seq([mem : MemSpaces \cup {NoMem}, cls : Registered])
  PROVE  OverloadCount(proto) \in Nat
<1> DEFINE S == {Len(type_dict[proto.ret])}
                  \cup {Len(type_dict[proto.params[n].cls]) : n \in 1 .. Len(proto.params)}
<1>1. \A n \in 1 .. Len(proto.params) : proto.params[n].cls \in Registered
  <2> SUFFICES ASSUME NEW n \in 1 .. Len(proto.params)
               PROVE  proto.params[n].cls \in Registered
    OBVIOUS
  <2>1. proto.params[n] \in [mem : MemSpaces \cup {NoMem}, cls : Registered]
    BY ElementOfSeq
  <2> QED  BY <2>1
<1>2. \A c \in Registered : Len(type_dict[c]) \in 0 .. 60
  <2> SUFFICES ASSUME NEW c \in Registered PROVE Len(type_dict[c]) \in 0 .. 60
    OBVIOUS
  <2>1. type_dict[c] \in Seq(Type) /\ Len(type_dict[c]) <= 60
    BY RegistryTypeOK
  <2>2. Len(type_dict[c]) \in Nat
    BY <2>1, LenProperties
  <2>3. \A k \in Nat : k <= 60 => k \in 0 .. 60
    OBVIOUS
  <2> QED  BY <2>1, <2>2, <2>3, Zenon
<1>3. S \in SUBSET (0 .. 60) /\ S # {}
  BY <1>1, <1>2, Zenon DEF S
<1>4. Largest(S) \in S
  BY <1>3, LargestOfBounded
<1>5. OverloadCount(proto) = Largest(S)
  BY DEF OverloadCount, S
<1> QED  BY <1>3, <1>4, <1>5

(* A prototype that passes check_type has registered classes and memory   *)
(* spaces the scan of init_from_line can produce.                          *)
LEMMA ParseTypeOK ==
  ASSUME NEW toks \in Seq(STRING), NEW pfx, ParamTokens(toks) \in ParamShape,
         TypesKnown(Parse(toks, pfx))
  PROVE  LET proto == Parse(toks, pfx)
         IN  /\ proto.name \in STRING
             /\ proto.ret \in Registered
             /\ proto.params \in Seq([mem : MemSpaces \cup {NoMem}, cls : Registered])
<1> DEFINE ps == ParamTokens(toks)
           proto == Parse(toks, pfx)
<1>1. proto.name \in STRING
  <2>1. proto.name = IF Len(toks) >= 2 THEN toks[2] ELSE ""
    BY DEF Parse
  <2>2. Len(toks) >= 2 => toks[2] \in STRING
    BY ElementOfSeq
  <2> QED  BY <2>1, <2>2, EmptyStringAssumption
<1>2. proto.ret \in Registered
  BY DEF TypesKnown
<1>3. ps \in Seq([mem : MemSpaces \cup {NoMem}, cls : STRING])
  BY DEF ParamShape
<1>4. proto.params = [n \in 1 .. Len(ps) |-> [mem |-> ps[n].mem,
                                              cls |-> prefix_(pfx, ps[n].cls)]]
  <2>1. DOMAIN ps = 1 .. Len(ps)
    BY <1>3
  <2> QED  BY <2>1 DEF Parse
<1>5. \A n \in 1 .. Len(ps) : prefix_(pfx, ps[n].cls) \in Registered
  <2>1. Len(proto.params) = Len(ps) /\ Len(ps) \in Nat
    BY <1>3, <1>4
  <2>2. \A n \in 1 .. Len(proto.params) : proto.params[n].cls \in Registered
    BY DEF TypesKnown
  <2> QED  BY <1>4, <2>1, <2>2
<1>6. \A n \in 1 .. Len(ps) : ps[n].mem \in MemSpaces \cup {NoMem}
  <2> SUFFICES ASSUME NEW n \in 1 .. Len(ps) PROVE ps[n].mem \in MemSpaces \cup {NoMem}
    OBVIOUS
  <2>1. ps[n] \in [mem : MemSpaces \cup {NoMem}, cls : STRING]
    BY <1>3, ElementOfSeq
  <2> QED  BY <2>1
<1>7. proto.params \in Seq([mem : MemSpaces \cup {NoMem}, cls : Registered])
  BY <1>3, <1>4, <1>5, <1>6
<1> QED  BY <1>1, <1>2, <1>7

(* gen_proto_str on a spec line raises or yields a list of overloads and   *)
(* skips, one per overload index.                                          *)
LEMMA LineOutsTypeOK ==
  ASSUME NEW toks \in Seq(STRING), NEW pfx, ParamTokens(toks) \in ParamShape
  PROVE  \/ gen_proto_str(toks, pfx) = Fail
         \/ gen_proto_str(toks, pfx) \in Seq(Overload \cup {Skip})
<1> DEFINE proto == Parse(toks, pfx)
           vS  == type_dict[proto.ret]
           pSs == [n \in DOMAIN proto.params |->
                     set_vector_memspace(type_dict[proto.params[n].cls],
                                         proto.params[n].mem)]
           os  == [k \in 1 .. OverloadCount(proto) |->
                     gen_proto_str_1(proto, pfx, vS, pSs, k - 1)]
<1>1. CASE ~TypesKnown(proto)
  BY <1>1 DEF gen_proto_str
<1>2. CASE TypesKnown(proto)
  <2>1. /\ proto.name \in STRING
        /\ proto.ret \in Registered
        /\ proto.params \in Seq([mem : MemSpaces \cup {NoMem}, cls : Registered])
    BY <1>2, ParseTypeOK
  <2>2. OverloadCount(proto) \in Nat
    BY <2>1, OverloadCountTypeOK
  <2>3. vS \in Seq(Type)
    BY <2>1, RegistryTypeOK
  <2>4. pSs \in Seq(Seq(Type))
    <3>1. \A n \in DOMAIN proto.params :
            /\ proto.params[n] \in [mem : MemSpaces \cup {NoMem}, cls : Registered]
            /\ type_dict[proto.params[n].cls] \in Seq(Type)
      <4> SUFFICES ASSUME NEW n \in DOMAIN proto.params
                   PROVE  /\ proto.params[n] \in [mem : MemSpaces \cup {NoMem}, cls : Registered]
                          /\ type_dict[proto.params[n].cls] \in Seq(Type)
        OBVIOUS
      <4>0. n \in 1 .. Len(proto.params)
        BY <2>1
      <4>1. proto.params[n] \in [mem : MemSpaces \cup {NoMem}, cls : Registered]
        BY <2>1, <4>0, ElementOfSeq, Zenon
      <4> QED  BY <4>1, RegistryTypeOK
    <3>2. \A n \in DOMAIN proto.params :
            set_vector_memspace(type_dict[proto.params[n].cls], proto.params[n].mem)
              \in Seq(Type)
      BY <3>1, MemspaceTypeOK
    <3> QED  BY <2>1, <3>2
  <2>5. \A k \in 1 .. OverloadCount(proto) :
          gen_proto_str_1(proto, pfx, vS, pSs, k - 1) \in Overload \cup {Skip, Fail}
    <3>1. \A i \in Nat : gen_proto_str_1(proto, pfx, vS, pSs, i) \in Overload \cup {Skip, Fail}
      BY <2>1, <2>3, <2>4, Proto1TypeOK
    <3>2. \A k \in 1 .. OverloadCount(proto) : k - 1 \in Nat
      BY <2>2
    <3> QED  BY <3>1, <3>2, Zenon
  <2>6. (\A k \in DOMAIN os : os[k] # Fail) => os \in Seq(Overload \cup {Skip})
    <3>1. DOMAIN os = 1 .. OverloadCount(proto)
      BY DEF os
    <3>2. \A k \in DOMAIN os : os[k] \in Overload \cup {Skip, Fail}
      BY <2>5, <3>1 DEF os
    <3>3. os \in [1 .. OverloadCount(proto) -> Overload \cup {Skip, Fail}]
      BY <3>1, <3>2 DEF os
    <3>4. ASSUME \A k \in DOMAIN os : os[k] # Fail
          PROVE  os \in [1 .. OverloadCount(proto) -> Overload \cup {Skip}]
      BY <3>1, <3>3, <3>4, Zenon
    <3>5. \A m \in Nat : [1 .. m -> Overload \cup {Skip}] \subseteq Seq(Overload \cup {Skip})
      OBVIOUS
    <3> QED  BY <2>2, <3>4, <3>5, Zenon
  <2> QED  BY <1>2, <2>6 DEF gen_proto_str, AllOrFail
<1> QED  BY <1>1, <1>2

(* The fields a '##' line and a prototype line carry.                      *)
LEMMA LineFields ==
  ASSUME NEW l \in Line
  PROVE  /\ l.kind = "section" => l.words \in Seq(STRING)
         /\ l.kind = "proto" => l.toks \in Seq(STRING)
BY DEF Line

(* The inductive invariant: TypeOK, and the temporary file exists while   *)
(* the loop runs, since Start opens it before the first line is read.      *)
IInv == /\ TypeOK
        /\ pc = "loop" => temp # Absent

(* The generator starts in a state of the invariant.                       *)
LEMMA InitIInv == Init => IInv
<1> SUFFICES ASSUME Init PROVE IInv
  OBVIOUS
<1>1. file \in Seq(Line)
  BY SpecFilesAssumption DEF Init
<1>2. Written(<< >>) \in [chunks : Seq(Chunk)]
  BY DEF Written
<1>3. line \in 1 .. Len(file) + 1
  <2>1. Len(file) \in Nat
    BY <1>1, LenProperties, Zenon
  <2>2. line = 1
    BY Zenon DEF Init
  <2> QED  BY <2>1, <2>2
<1>4. sectionHeader \in Seq(STRING)
  <2>1. << >> \in Seq(STRING)
    BY EmptySeq, Zenon
  <2> QED  BY <2>1, Zenon DEF Init
<1>5. temp \in {Absent} \cup [chunks : Seq(Chunk)] /\ header \in {Absent, Prior} \cup [chunks : Seq(Chunk)]
  BY <1>2, Zenon DEF Init
<1>6. sectionPrefix \in STRING /\ prefix \in STRING
  BY EmptyStringAssumption DEF Init
<1> QED  BY <1>3, <1>4, <1>5, <1>6 DEF Init, IInv, TypeOK

(* Every step of the generator preserves the invariant.                    *)
LEMMA NextIInv == IInv /\ [Next]_vars => IInv'
<1> SUFFICES ASSUME IInv, [Next]_vars PROVE IInv'
  OBVIOUS
<1>1. file \in Seq(Line) /\ line \in 1 .. Len(file) + 1
  BY SpecFilesAssumption DEF IInv, TypeOK
<1>2. ASSUME line <= Len(file) PROVE file[line] \in Line
  BY <1>1, <1>2, ElementOfSeq
<1>3. CASE Start
  BY <1>3 DEF Start, IInv, TypeOK, Absent, Written
<1>4. CASE SkipLine
  BY <1>4 DEF SkipLine, ReadLine, IInv, TypeOK
<1>5. CASE SectionLine
  <2>1. file[line].words \in Seq(STRING) /\ file[line].words # << >>
    BY <1>2, <1>5, LineFields DEF SectionLine, ReadLine
  <2>2. file[line].words[1] \in STRING
    BY <2>1
  <2> QED  BY <1>5, <2>1, <2>2 DEF SectionLine, ReadLine, IInv, TypeOK
<1>6. CASE SectionLineEmpty \/ ProtoLineUnbound \/ ProtoLineFails \/ Kill
  BY <1>6 DEF SectionLineEmpty, ProtoLineUnbound, ProtoLineFails, Kill, Abort, IInv, TypeOK
<1>7. CASE ProtoLine
  <2>1. file[line].toks \in Seq(STRING)
    BY <1>2, <1>7, LineFields DEF ProtoLine, ReadLine
  <2>2. ParamTokens(file[line].toks) \in ParamShape
    BY <1>1, <1>7, ParseAssumption, SpecFilesAssumption DEF ProtoLine, ReadLine, IInv, TypeOK
  <2>3. NewPrefix \in STRING
    BY DEF NewPrefix, IInv, TypeOK
  <2>4. LineOuts \in Seq(Overload \cup {Skip})
    BY <1>7, <2>1, <2>2, LineOutsTypeOK DEF ProtoLine, LineOuts
  <2>5. [line |-> line, header |-> sectionHeader, outs |-> LineOuts] \in Chunk
    BY <1>1, <2>4 DEF Chunk, IInv, TypeOK
  <2>6. temp \in [chunks : Seq(Chunk)]
    BY <1>7 DEF ProtoLine, ReadLine, IInv, TypeOK, Absent
  <2>7. Append(temp.chunks, [line |-> line, header |-> sectionHeader, outs |-> LineOuts])
          \in Seq(Chunk)
    BY <2>5, <2>6, AppendProperties
  <2> QED  BY <1>7, <2>3, <2>7 DEF ProtoLine, ReadLine, IInv, TypeOK, Written, Absent
<1>8. CASE Finish
  BY <1>8 DEF Finish, IInv, TypeOK, Absent, Prior
<1>9. CASE UNCHANGED vars
  BY <1>9 DEF vars, IInv, TypeOK
<1> QED  BY <1>3, <1>4, <1>5, <1>6, <1>7, <1>8, <1>9 DEF Next

(* The generator's state is always well typed: in particular every chunk   *)
(* the loop writes holds only overloads and skips, whatever spec line      *)
(* gen_proto_str is given, and the published header is one the loop       *)
(* wrote.                                                                  *)
THEOREM TypeCorrect == Spec => []TypeOK
<1>1. Init => IInv
  BY InitIInv
<1>2. IInv /\ [Next]_vars => IInv'
  BY NextIInv
<1>3. IInv => TypeOK
  BY DEF IInv
<1> QED  BY <1>1, <1>2, <1>3, PTL DEF Spec

(***************************************************************************)
(* NoPartialPublish.  It is not inductive by itself: the rename publishes  *)
(* whatever the temporary file holds, so the invariant must also say what  *)
(* the temporary file holds while the loop runs (a chunk for every         *)
(* prototype line before the next line to read, in file order), that the   *)
(* header stays the old one or absent until the rename, and that the loop *)
(* starts at the first line.                                               *)
(***************************************************************************)
ChunkLines(w) == {w.chunks[c].line : c \in DOMAIN w.chunks}

InOrder(w) ==
  \A a, b \in DOMAIN w.chunks : a < b => w.chunks[a].line < w.chunks[b].line

LoopInv ==
  /\ pc = "start" => line = 1
  /\ pc \in {"start", "loop", "aborted"} => header \in {Absent, Prior}
  /\ pc = "loop" =>
       /\ ChunkLines(temp) = {k \in ProtoLines(file) : k < line}
       /\ InOrder(temp)
  /\ NoPartialPublish

PInv == IInv /\ LoopInv

(* The prototype lines of a spec file are positions of the file.          *)
LEMMA ProtoLinesBounded ==
  ASSUME NEW f \in Seq(Line)
  PROVE  ProtoLines(f) \subseteq 1 .. Len(f)
BY DEF ProtoLines

(* The generator starts in a state of the strengthened invariant.          *)
LEMMA InitPInv == Init => PInv
<1> SUFFICES ASSUME Init PROVE LoopInv
  BY InitIInv DEF PInv
<1>1. pc = "start" /\ line = 1 /\ header \in {Absent, Prior}
  BY DEF Init
<1> QED  BY <1>1 DEF LoopInv, NoPartialPublish

(* A line that is not a prototype line adds no chunk and leaves the set of *)
(* prototype lines before the next line to read as it was.                 *)
LEMMA SkipKeepsChunks ==
  ASSUME NEW f \in Seq(Line), NEW l \in 1 .. Len(f), f[l].kind # "proto"
  PROVE  {k \in ProtoLines(f) : k < l + 1} = {k \in ProtoLines(f) : k < l}
BY DEF ProtoLines

(* A prototype line adds its own position.                                 *)
LEMMA ProtoAddsLine ==
  ASSUME NEW f \in Seq(Line), NEW l \in 1 .. Len(f), f[l].kind = "proto"
  PROVE  {k \in ProtoLines(f) : k < l + 1} = {k \in ProtoLines(f) : k < l} \cup {l}
BY DEF ProtoLines

(* Every step of the generator preserves the strengthened invariant.      *)
LEMMA NextPInv == PInv /\ [Next]_vars => PInv'
<1> SUFFICES ASSUME PInv, [Next]_vars PROVE LoopInv'
  BY NextIInv DEF PInv
<1>1. file \in Seq(Line) /\ line \in 1 .. Len(file) + 1
  BY SpecFilesAssumption DEF PInv, IInv, TypeOK
<1>2. pc = "loop" => temp \in [chunks : Seq(Chunk)]
  BY DEF PInv, IInv, TypeOK, Absent
<1>3. CASE Start
  <2>1. {k \in ProtoLines(file) : k < 1} = {}
    BY <1>1, ProtoLinesBounded
  <2>2. ChunkLines(Written(<< >>)) = {} /\ InOrder(Written(<< >>))
    BY DEF ChunkLines, InOrder, Written
  <2>3. line = 1
    BY <1>3 DEF Start, PInv, LoopInv
  <2> QED  BY <1>3, <2>1, <2>2, <2>3 DEF Start, LoopInv, NoPartialPublish
<1>4. CASE SkipLine \/ SectionLine
  <2>1. /\ pc = "loop" /\ pc' = "loop" /\ line <= Len(file) /\ line' = line + 1
        /\ file[line].kind # "proto"
        /\ UNCHANGED <<file, temp, header>>
    BY <1>4 DEF SkipLine, SectionLine, ReadLine
  <2>2. {k \in ProtoLines(file) : k < line + 1} = {k \in ProtoLines(file) : k < line}
    BY <1>1, <2>1, SkipKeepsChunks
  <2> QED  BY <2>1, <2>2 DEF PInv, LoopInv, NoPartialPublish
<1>5. CASE SectionLineEmpty \/ ProtoLineUnbound \/ ProtoLineFails \/ Kill
  <2>1. /\ pc \in {"start", "loop"} /\ pc' = "aborted"
        /\ UNCHANGED <<file, temp, header>>
    BY <1>5 DEF SectionLineEmpty, ProtoLineUnbound, ProtoLineFails, Kill, Abort, ReadLine
  <2> QED  BY <2>1 DEF PInv, LoopInv, NoPartialPublish
<1>6. CASE ProtoLine
  <2> DEFINE ch == [line |-> line, header |-> sectionHeader, outs |-> LineOuts]
             tc == temp.chunks
  <2>1. /\ pc = "loop" /\ pc' = "loop" /\ line <= Len(file) /\ line' = line + 1
        /\ file[line].kind = "proto"
        /\ temp' = Written(Append(tc, ch))
        /\ UNCHANGED <<file, header>>
    BY <1>6 DEF ProtoLine, ReadLine
  <2>2. tc \in Seq(Chunk)
    BY <1>2, <2>1
  <2>3. /\ ChunkLines(temp) = {k \in ProtoLines(file) : k < line}
        /\ InOrder(temp)
    BY <2>1 DEF PInv, LoopInv
  <2>4. \A c \in DOMAIN tc : tc[c].line < line
    BY <2>3 DEF ChunkLines
  <2>5. ChunkLines(Written(Append(tc, ch))) = ChunkLines(temp) \cup {line}
    <3>1. /\ DOMAIN Append(tc, ch) = DOMAIN tc \cup {Len(tc) + 1}
          /\ Append(tc, ch)[Len(tc) + 1] = ch
          /\ \A c \in DOMAIN tc : Append(tc, ch)[c] = tc[c]
          /\ Len(tc) + 1 \notin DOMAIN tc
      BY <2>2 DEF tc
    <3> QED  BY <3>1 DEF ChunkLines, Written, ch, tc
  <2>6. InOrder(Written(Append(tc, ch)))
    BY <2>2, <2>3, <2>4 DEF InOrder, Written, ch, tc
  <2>7. {k \in ProtoLines(file) : k < line + 1} = {k \in ProtoLines(file) : k < line} \cup {line}
    BY <1>1, <2>1, ProtoAddsLine
  <2> QED  BY <2>1, <2>3, <2>5, <2>6, <2>7 DEF PInv, LoopInv, NoPartialPublish
<1>7. CASE Finish
  <2>1. /\ pc = "loop" /\ pc' = "done" /\ line = Len(file) + 1
        /\ header' = temp /\ UNCHANGED file
    BY <1>7 DEF Finish
  <2>2. {k \in ProtoLines(file) : k < Len(file) + 1} = ProtoLines(file)
    BY <1>1, ProtoLinesBounded
  <2>3. /\ ChunkLines(temp) = ProtoLines(file)
        /\ InOrder(temp)
    BY <2>1, <2>2 DEF PInv, LoopInv
  <2> QED  BY <2>1, <2>3 DEF LoopInv, NoPartialPublish, ChunkLines, InOrder
<1>8. CASE UNCHANGED vars
  BY <1>8 DEF vars, PInv, LoopInv, NoPartialPublish, ChunkLines, InOrder
<1> QED  BY <1>3, <1>4, <1>5, <1>6, <1>7, <1>8 DEF Next

(* A header a run publishes holds a chunk for every prototype line of the  *)
(* spec file, once each and in file order, for every spec file: the       *)
(* rename of lines 383-384 only happens once the loop has read every line, *)
(* and a raise or a kill before it leaves the header the run found or     *)
(* none.                                                                   *)
THEOREM PublishComplete == Spec => []NoPartialPublish
<1>1. Init => PInv
  BY InitPInv
<1>2. PInv /\ [Next]_vars => PInv'
  BY NextPInv
<1>3. PInv => NoPartialPublish
  BY DEF PInv, LoopInv
<1> QED  BY <1>1, <1>2, <1>3, PTL DEF Spec
=============================================================================
