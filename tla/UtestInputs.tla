---------------------------- MODULE UtestInputs -----------------------------
(***************************************************************************)
(* src/utests/utest_generator.py: the sizes of the data a generated math   *)
(* unit test uploads and the indexes its kernel and its host loop touch.   *)
(* func.geneProcess runs, for each overload index of the test (float,      *)
(* float2, ...), GenInputValues, utestFunc and genCL, which writes the     *)
(* kernel file, and then writes the C++ file.                              *)
(*                                                                         *)
(* A test is a record: the width of parameter k at index i, the width of   *)
(* the result at index i, and the length of the value list of parameter k. *)
(* The text of the generated files is abstracted to those sizes and        *)
(* indexes; the value lists are abstracted to their lengths.               *)
(***************************************************************************)
EXTENDS Integers, Sequences

CONSTANTS
  Tests,          \* the func(...) calls a run may make
  MaxData         \* the 128 of GenInputValues

Width == {1, 2, 3, 4, 8, 16}

Test == [widths : Seq(Seq(Width)), retw : Seq(Width), lens : Seq(Nat)]

(* func indexes inputtype[0]: every test has a parameter.                  *)
ASSUME UtestAssumption ==
  /\ Tests \subseteq Test
  /\ \A t \in Tests : t.widths # << >>
  /\ MaxData \in Nat \ {0}

(***************************************************************************)
(* gene2ValuesLoop (lines 177-184) builds the two value lists of a         *)
(* two-parameter test from n base values: every pair, so each list has    *)
(* n * n values when it starts empty, as utest_math_gen passes it.        *)
(***************************************************************************)
gene2ValuesLoop(n) == <<n * n, n * n>>

(* argvector: the width of parameter k at index i.                         *)
argvector(t, k, i) == t.widths[k][i]

(***************************************************************************)
(* GenInputValues (lines 273-287): the value list is repeated vlen times,  *)
(* vlen the width of the LAST parameter; before each repetition a list    *)
(* that already has MaxData values is cut to MaxData and the loop left.    *)
(***************************************************************************)
GenLen(len, vlen) ==
  IF \E j \in 0 .. vlen - 1 : j * len >= MaxData THEN MaxData ELSE vlen * len

(* Mutant: the kernel reads one lane past the width of the parameter.     *)
TestCase_lane_overrun(t, i) ==
  LET P    == Len(t.widths)
      vlen == argvector(t, P, i)
      sizes == [k \in 1 .. P |-> GenLen(t.lens[k], vlen)]
  IN  [sizes   |-> sizes,
       count   |-> sizes[1],
       vector  |-> vlen,
       globals |-> sizes[1] \div vlen,
       reads   |-> [k \in 1 .. P |-> argvector(t, k, i) + 1],
       writes  |-> t.retw[i]]

(* What geneProcess builds for index i: the length of every input_data    *)
(* array, count_input (the length of input_data1), vector, the work size  *)
(* globals[0] = count_input / vector, the lanes the kernel reads of each   *)
(* src buffer at src[i * vector + j] and the lanes it writes to dst.       *)
TestCase(t, i) ==
  LET P    == Len(t.widths)
      vlen == argvector(t, P, i)
      sizes == [k \in 1 .. P |-> GenLen(t.lens[k], vlen)]
  IN  [sizes   |-> sizes,
       count   |-> sizes[1],
       vector  |-> vlen,
       globals |-> sizes[1] \div vlen,
       reads   |-> [k \in 1 .. P |-> argvector(t, k, i)],
       writes  |-> t.retw[i]]

(***************************************************************************)
(* genCL (lines 424-434): for parameter k it declares x_k as a vector of   *)
(* argvector(k) lanes, src_k[i * vector + j] for j in 0 .. w - 1, and      *)
(* ends lane j with "]);" when argvector(k - 1) = j + 1 and with "]," else. *)
(* For k = 1 the index k - 1 is Python's -1: the last parameter.           *)
(* The kernel is abstracted to, per parameter, its lane count and the set *)
(* of lanes that end with the closing "]);".                              *)
(***************************************************************************)
PrevParam(P, k) == IF k = 1 THEN P ELSE k - 1

(* Mutant: the closing lane compared with j rather than j + 1.            *)
genCL_off_by_one(t, i) ==
  LET P == Len(t.widths)
  IN  [lanes  |-> [k \in 1 .. P |-> argvector(t, k, i)],
       closes |-> [k \in 1 .. P |->
                     {j \in 0 .. argvector(t, k, i) - 1 :
                        argvector(t, PrevParam(P, k), i) = j}]]

genCL(t, i) ==
  LET P == Len(t.widths)
  IN  [lanes  |-> [k \in 1 .. P |-> argvector(t, k, i)],
       closes |-> [k \in 1 .. P |->
                     {j \in 0 .. argvector(t, k, i) - 1 :
                        argvector(t, PrevParam(P, k), i) = j + 1}]]

VARIABLES
  test,           \* the func(...) call of this run
  idx,            \* the overload index geneProcess is at, 1-based
  stage,          \* "kernel" before genCL, "cpp" before writeCPP, "done", "aborted"
  clFiles,        \* the kernel genCL wrote for each index it reached
  cppFiles        \* the test case of each index whose C++ file is written

vars == <<test, idx, stage, clFiles, cppFiles>>

Indexes(t) == 1 .. Len(t.widths[1])

TypeOK ==
  /\ test \in Tests
  /\ idx \in 1 .. Len(test.widths[1]) + 1
  /\ stage \in {"kernel", "cpp", "done", "aborted"}
  /\ stage \in {"kernel", "cpp"} => idx \in Indexes(test)
  /\ DOMAIN clFiles \subseteq Indexes(test)
  /\ DOMAIN cppFiles \subseteq Indexes(test)

Init ==
  /\ test \in Tests
  /\ idx = 1
  /\ stage = IF Len(test.widths[1]) = 0 THEN "done" ELSE "kernel"
  /\ clFiles = [i \in {} |-> 0]
  /\ cppFiles = [i \in {} |-> 0]

(* GenCpuCompilerMath (lines 295-306) takes a branch of its own when the   *)
(* result is scalar (returnVector gives the int 1 only when the type has   *)
(* no digit) and the first argument is a vector; that branch reads         *)
(* self.vector, which nothing sets, and raises AttributeError.             *)
ScalarOfVector(t, i) == t.retw[i] = 1 /\ argvector(t, 1, i) # 1

(* GenInputValues, GenCpuCompilerMath and utestFunc fill cpplines, and     *)
(* genCL writes the kernel file of index idx (lines 452-477).              *)
GenKernel ==
  /\ stage = "kernel"
  /\ ~ScalarOfVector(test, idx)
  /\ clFiles' = [i \in DOMAIN clFiles \cup {idx} |->
                   IF i = idx THEN genCL(test, idx) ELSE clFiles[i]]
  /\ stage' = "cpp"
  /\ UNCHANGED <<test, idx, cppFiles>>

(* The AttributeError of GenCpuCompilerMath ends the run before genCL and  *)
(* writeCPP of this index; the files of earlier indexes stay.              *)
GenKernelRaises ==
  /\ stage = "kernel"
  /\ ScalarOfVector(test, idx)
  /\ stage' = "aborted"
  /\ UNCHANGED <<test, idx, clFiles, cppFiles>>

(* Mutant: the loop does not stop after the last index.                   *)
WriteCpp_no_stop ==
  /\ stage = "cpp"
  /\ cppFiles' = [i \in DOMAIN cppFiles \cup {idx} |->
                    IF i = idx THEN TestCase(test, idx) ELSE cppFiles[i]]
  /\ idx' = idx + 1
  /\ stage' = "kernel"
  /\ UNCHANGED <<test, clFiles>>

(* nameForCmake and writeCPP (lines 480-482); then the next index.         *)
WriteCpp ==
  /\ stage = "cpp"
  /\ cppFiles' = [i \in DOMAIN cppFiles \cup {idx} |->
                    IF i = idx THEN TestCase(test, idx) ELSE cppFiles[i]]
  /\ idx' = idx + 1
  /\ stage' = IF idx = Len(test.widths[1]) THEN "done" ELSE "kernel"
  /\ UNCHANGED <<test, clFiles>>

(* The generator is killed from outside while it runs.                     *)
Kill ==
  /\ stage \in {"kernel", "cpp"}
  /\ stage' = "aborted"
  /\ UNCHANGED <<test, idx, clFiles, cppFiles>>

Next == GenKernel \/ GenKernelRaises \/ WriteCpp \/ Kill

Spec == Init /\ [][Next]_vars

(***************************************************************************)
(* Every generated test touches only data it has: the host copies         *)
(* count_input values out of every input_data array, and the kernel, run  *)
(* on globals work items, reads lanes i * vector + j of every src buffer  *)
(* and writes lanes of dst, all of count_input values.  count_input is   *)
(* taken from input_data1 alone and vector from the last parameter alone. *)
(***************************************************************************)
KernelAccessInBounds ==
  \A i \in DOMAIN cppFiles :
    LET c == cppFiles[i]
    IN  /\ \A k \in DOMAIN c.sizes : c.sizes[k] >= c.count
        /\ c.globals > 0 =>
             /\ \A k \in DOMAIN c.reads : (c.globals - 1) * c.vector + c.reads[k] <= c.count
             /\ (c.globals - 1) * c.vector + c.writes <= c.count

(* The comment of line 279: GenInputValues keeps at most 128 values per    *)
(* input array ("avoid too many data").                                   *)
InputsCapped ==
  \A i \in DOMAIN cppFiles :
    \A k \in DOMAIN cppFiles[i].sizes : cppFiles[i].sizes[k] <= MaxData

(***************************************************************************)
(* Every kernel genCL writes declares its vector arguments well formed:    *)
(* the initializer of x_k lists the argvector(k) lanes of src_k and is     *)
(* closed by "]);" exactly once, after its last lane.  genCL decides where *)
(* to close x_k from the width of the previous parameter, so a parameter   *)
(* wider than its predecessor is closed early and one narrower is never   *)
(* closed.                                                                 *)
(***************************************************************************)
KernelArgsClosed ==
  \A i \in DOMAIN clFiles :
    \A k \in DOMAIN clFiles[i].lanes :
      clFiles[i].closes[k] = {clFiles[i].lanes[k] - 1}

=============================================================================
