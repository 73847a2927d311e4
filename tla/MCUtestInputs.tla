---------------------------- MODULE MCUtestInputs ---------------------------
(***************************************************************************)
(* UtestInputs on the calls of utest_math_gen.py: the calls main() makes,  *)
(* the gentypef calls it keeps commented out, and a call with a scalar     *)
(* result.  The cap of GenInputValues is its 128.                          *)
(***************************************************************************)
EXTENDS MathTables

MCMaxData == 128

(* A call main() does not make: a scalar result of vector arguments, the  *)
(* shape of dot or length, which GenCpuCompilerMath handles apart.         *)
ScalarResultTests ==
  {[widths |-> <<Ws, Ws>>, retw |-> <<1, 1, 1, 1, 1>>, lens |-> <<6, 6>>]}

MCTests == ShippedTests \cup ScalarResultTests
=============================================================================
