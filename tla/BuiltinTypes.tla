---------------------------- MODULE BuiltinTypes ----------------------------
(***************************************************************************)
(* The type registry and the promotion rules of                            *)
(* src/backend/src/gen_builtin_vector.py.                                  *)
(*                                                                         *)
(* A concrete type is the code's tuple (base, width) or, for a pointer     *)
(* parameter, (base, width, memspace).  It is modelled as a record whose   *)
(* mem field is NoMem for the 2-tuples, so that two types, and two type    *)
(* lists, are equal exactly when the Python tuples and lists are.          *)
(* A generic class is the ordered list the code registers in type_dict;   *)
(* the order matters because overloads are indexed by position.           *)
(***************************************************************************)
EXTENDS Integers, Sequences

(***************************************************************************)
(* Base types and widths (lines 32, 55-60).                                *)
(***************************************************************************)
all_vector == <<1, 2, 3, 4, 8, 16>>
all_itype == <<"char", "short", "int", "long">>
all_utype == <<"uchar", "ushort", "uint", "ulong">>
all_int_type == all_itype \o all_utype
all_float_type == <<"float", "double">>
all_type == all_int_type \o all_float_type

Bases == {"char", "short", "int", "long", "uchar", "ushort", "uint", "ulong",
          "float", "double"}
UnsignedBases == {"uchar", "ushort", "uint", "ulong"}
Widths == {1, 2, 3, 4, 8, 16}

(* The memory spaces of stripMemSpace; NoMem is the code's ''.            *)
NoMem == ""
MemSpaces == {"__local", "__private", "__global"}

Type == [base : Bases, width : Widths, mem : MemSpaces \cup {NoMem}]

(* What a failed lookup or a raise yields (IndexError, "type mispatch").   *)
Fail == [fail |-> TRUE]

(***************************************************************************)
(* gen_vector_type: every base of type_set at every width of vector_set,   *)
(* base-major, as the two nested loops append them.                        *)
(***************************************************************************)
gen_vector_type(type_set, vector_set) ==
  [k \in 1 .. Len(type_set) * Len(vector_set) |->
     [base  |-> type_set[(k - 1) \div Len(vector_set) + 1],
      width |-> vector_set[((k - 1) % Len(vector_set)) + 1],
      mem   |-> NoMem]]

(* set_vector_memspace: '' keeps the list itself, otherwise every entry    *)
(* becomes a 3-tuple carrying the memory space.                            *)
(* Mutant: the memory space is dropped.                                     *)
set_vector_memspace_drop(vector_type_set, memspace) == vector_type_set

set_vector_memspace(vector_type_set, memspace) ==
  IF memspace = NoMem THEN vector_type_set
  ELSE [k \in DOMAIN vector_type_set |->
          [vector_type_set[k] EXCEPT !.mem = memspace]]

(***************************************************************************)
(* type_dict (lines 62-107): the name under which each list is registered, *)
(* grouped by the widths gen_vector_type is given: all_vector (the         *)
(* default), [1] or [2, 4, 8, 16].  The exec loop names the per-base       *)
(* vector class "<t>n" and the scalar singleton "<t>"; the field names     *)
(* below are what its format strings produce.  All names are distinct, so  *)
(* the order of the type_dict.update calls does not matter.                *)
(***************************************************************************)
M4 == <<2, 4, 8, 16>>

VectorClasses ==
  [math_gentype |-> all_float_type, math_gentypef |-> <<"float">>,
   math_gentyped |-> <<"double">>, half_native_math_gentype |-> <<"float">>,
   integer_gentype |-> all_int_type, integer_ugentype |-> all_utype,
   charn |-> <<"char">>, ucharn |-> <<"uchar">>, shortn |-> <<"short">>,
   ushortn |-> <<"ushort">>, intn |-> <<"int">>, uintn |-> <<"uint">>,
   longn |-> <<"long">>, ulongn |-> <<"ulong">>, floatn |-> <<"float">>,
   doublen |-> <<"double">>, fast_integer_gentype |-> <<"uint", "int">>,
   common_gentype |-> all_float_type, common_gentypef |-> <<"float">>,
   common_gentyped |-> <<"double">>, relational_gentype |-> all_type,
   relational_igentype |-> all_itype, relational_ugentype |-> all_utype]

ScalarClasses ==
  [integer_sgentype |-> all_int_type,
   char |-> <<"char">>, uchar |-> <<"uchar">>, short |-> <<"short">>,
   ushort |-> <<"ushort">>, int |-> <<"int">>, uint |-> <<"uint">>,
   long |-> <<"long">>, ulong |-> <<"ulong">>, float |-> <<"float">>,
   double |-> <<"double">>]

M4Classes ==
  [misc_gentypem |-> all_type, misc_gentypen |-> all_type,
   misc_ugentypem |-> all_utype, misc_ugentypen |-> all_utype]

Registered == DOMAIN VectorClasses \cup DOMAIN ScalarClasses \cup DOMAIN M4Classes

type_dict ==
  [name \in Registered |->
     IF name \in DOMAIN VectorClasses
       THEN gen_vector_type(VectorClasses[name], all_vector)
     ELSE IF name \in DOMAIN ScalarClasses
       THEN gen_vector_type(ScalarClasses[name], <<1>>)
     ELSE gen_vector_type(M4Classes[name], M4)]

(***************************************************************************)
(* Promotion rules (lines 130-149).  'u' + base and base[1:] are the       *)
(* tables below on the bases they are applied to.                          *)
(***************************************************************************)
UPrefixed == [char |-> "uchar", short |-> "ushort", int |-> "uint", long |-> "ulong"]
UStripped == [uchar |-> "char", ushort |-> "short", uint |-> "int", ulong |-> "long"]

(* A result built from a new list [base, width] carries no memory space.   *)
Plain(b, w) == [base |-> b, width |-> w, mem |-> NoMem]

(* Mutants of match_unsigned: 'u' + base applied to a float as well, and   *)
(* a signed integer returned without the 'u'.                              *)
match_unsigned_prefix_all(dtype) ==
  IF dtype.base \in UnsignedBases THEN dtype
  ELSE Plain("u" \o dtype.base, dtype.width)
match_unsigned_keep_signed(dtype) ==
  IF dtype.base = "float" THEN Plain("uint", dtype.width)
  ELSE IF dtype.base = "double" THEN Plain("ulong", dtype.width)
  ELSE dtype

match_unsigned(dtype) ==
  IF dtype.base = "float" THEN Plain("uint", dtype.width)
  ELSE IF dtype.base = "double" THEN Plain("ulong", dtype.width)
  ELSE IF dtype.base \in UnsignedBases THEN dtype
  ELSE Plain(UPrefixed[dtype.base], dtype.width)

match_signed(dtype) ==
  IF dtype.base = "float" THEN Plain("int", dtype.width)
  ELSE IF dtype.base = "double" THEN Plain("long", dtype.width)
  ELSE IF dtype.base \notin UnsignedBases THEN dtype
  ELSE Plain(UStripped[dtype.base], dtype.width)

match_scalar(dtype) == Plain(dtype.base, 1)

=============================================================================
