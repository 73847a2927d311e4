----------------------------- MODULE MathTables -----------------------------
(***************************************************************************)
(* src/utests/utest_math_gen.py: the func(...) calls of main(), one per    *)
(* built-in it tests, each abstracted to the shape UtestInputs works on:   *)
(* the width of every parameter and of the result at each overload index, *)
(* and the length of every value list.  A type list such as               *)
(* ['float','float2','float4','float8','float16'] becomes the widths       *)
(* argvector parses from it; the int and uint lists of ilogb, pown and     *)
(* rootn have the same digits.  The cpu_func strings and the ulp strings   *)
(* do not reach any property and are left out.                             *)
(***************************************************************************)
EXTENDS UtestInputs, TLC

(* The widths argvector reads from the type list every call uses.          *)
Ws == <<1, 2, 4, 8, 16>>

(* base_input_values (6 values) and base_input_values1 (5 values).        *)
base_input_values == 6
base_input_values1 == 5

(* A call with one gentype parameter and a list of n values.               *)
OneArg(n) == [widths |-> <<Ws>>, retw |-> Ws, lens |-> <<n>>]

(* A call with two gentype parameters and value lists of lengths l.        *)
TwoArgs(l) == [widths |-> <<Ws, Ws>>, retw |-> Ws, lens |-> l]

(* acos .. erfc.                                                           *)
MathTestsA ==
  [acos |-> OneArg(base_input_values), acosh |-> OneArg(base_input_values),
   acospi |-> OneArg(base_input_values), asin |-> OneArg(base_input_values),
   asinh |-> OneArg(base_input_values), asinpi |-> OneArg(base_input_values),
   atan |-> OneArg(base_input_values),
   atan2 |-> TwoArgs(gene2ValuesLoop(base_input_values)),
   atanh |-> OneArg(base_input_values), atanpi |-> OneArg(base_input_values),
   cbrt |-> OneArg(base_input_values), ceil |-> OneArg(base_input_values),
   copysign |-> TwoArgs(gene2ValuesLoop(base_input_values)),
   cos |-> OneArg(base_input_values), cosh |-> OneArg(base_input_values),
   cospi |-> OneArg(base_input_values), erf |-> OneArg(base_input_values),
   erfc |-> OneArg(base_input_values)]

(* exp .. logb; ilogb's result list is int, int2, ... of the same widths. *)
MathTestsB ==
  [exp |-> OneArg(base_input_values), exp2 |-> OneArg(base_input_values),
   exp10 |-> OneArg(base_input_values), expm1 |-> OneArg(base_input_values),
   fabs |-> OneArg(base_input_values),
   fdim |-> TwoArgs(gene2ValuesLoop(base_input_values)),
   floor |-> OneArg(base_input_values),
   fmax |-> TwoArgs(gene2ValuesLoop(base_input_values)),
   fmin |-> TwoArgs(gene2ValuesLoop(base_input_values)),
   fmod |-> TwoArgs(gene2ValuesLoop(base_input_values)),
   hypot |-> TwoArgs(gene2ValuesLoop(base_input_values)),
   ilogb |-> OneArg(base_input_values), lgamma |-> OneArg(base_input_values),
   log |-> OneArg(base_input_values), log2 |-> OneArg(base_input_values),
   log10 |-> OneArg(base_input_values), log1p |-> OneArg(base_input_values),
   logb |-> OneArg(base_input_values)]

(* maxmag .. round: pown, powr and rootn pass hand-written lists of 13,    *)
(* 11 and 6 values; pow pairs base_input_values1.                          *)
MathTestsC ==
  [maxmag |-> TwoArgs(gene2ValuesLoop(base_input_values)),
   minmag |-> TwoArgs(gene2ValuesLoop(base_input_values)),
   nextafter |-> TwoArgs(gene2ValuesLoop(base_input_values)),
   pow |-> TwoArgs(gene2ValuesLoop(base_input_values1)),
   pown |-> TwoArgs(<<13, 13>>), powr |-> TwoArgs(<<11, 11>>),
   remainder |-> TwoArgs(gene2ValuesLoop(base_input_values)),
   rint |-> OneArg(base_input_values), rootn |-> TwoArgs(<<6, 6>>),
   round |-> OneArg(base_input_values)]

(* rsqrt .. trunc: sinpi and tanpi pass their own lists of 13 and 5.       *)
MathTestsD ==
  [rsqrt |-> OneArg(base_input_values), sin |-> OneArg(base_input_values),
   sinh |-> OneArg(base_input_values), sinpi |-> OneArg(13),
   sqrt |-> OneArg(base_input_values), tan |-> OneArg(base_input_values),
   tanh |-> OneArg(base_input_values), tanpi |-> OneArg(5),
   trunc |-> OneArg(base_input_values)]

MathTests == MathTestsA @@ MathTestsB @@ MathTestsC @@ MathTestsD

(* The calls main() makes.                                                 *)
ShippedTests == {MathTests[n] : n \in DOMAIN MathTests}

(***************************************************************************)
(* The calls commented out in main(): fmax and fmin of (gentypef x,        *)
(* float y), whose second parameter is float at every index.              *)
(***************************************************************************)
GentypefTests ==
  {[widths |-> <<Ws, <<1, 1, 1, 1, 1>>>>, retw |-> Ws,
    lens |-> gene2ValuesLoop(base_input_values)]}
=============================================================================
