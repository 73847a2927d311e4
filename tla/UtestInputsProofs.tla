-------------------------- MODULE UtestInputsProofs --------------------------
(***************************************************************************)
(* Proofs about UtestInputs: genCL closes every vector initializer of a    *)
(* kernel exactly after its last lane whenever the parameters of the test *)
(* have the same width at every overload index, for any number of          *)
(* parameters, any widths and any number of indexes.  The run on the       *)
(* gentypef calls shows the converse: a parameter whose width differs from *)
(* its predecessor's is closed at the wrong lane.                          *)
(***************************************************************************)
EXTENDS UtestInputs, TLAPS

(* The parameters of t agree in width at every overload index, as in every *)
(* call utest_math_gen.py makes.                                           *)
AlignedWidths(t) ==
  \A k \in 1 .. Len(t.widths) : \A i \in Indexes(t) :
    i \in DOMAIN t.widths[k] /\ t.widths[k][i] = t.widths[1][i]

(* genCL on a test with aligned widths closes each x_k at lane w - 1.     *)
LEMMA GenCLClosed ==
  ASSUME NEW t \in Test, t.widths # << >>, AlignedWidths(t),
         NEW i \in Indexes(t), NEW k \in 1 .. Len(t.widths)
  PROVE  genCL(t, i).closes[k] = {genCL(t, i).lanes[k] - 1}
<1> DEFINE P == Len(t.widths)
<1>1. P \in Nat \ {0} /\ PrevParam(P, k) \in 1 .. P
  BY DEF PrevParam
<1>2. /\ t.widths[k] \in Seq(Width) /\ i \in DOMAIN t.widths[k]
      /\ t.widths[k][i] = t.widths[1][i]
      /\ t.widths[PrevParam(P, k)][i] = t.widths[1][i]
  BY <1>1 DEF Test, AlignedWidths
<1> DEFINE w == t.widths[k][i]
<1>3. w \in Width
  BY <1>2
<1>4. genCL(t, i).lanes[k] = w
  BY DEF genCL, argvector
<1>5. genCL(t, i).closes[k] = {j \in 0 .. w - 1 : w = j + 1}
  BY <1>2 DEF genCL, argvector
<1>6. {j \in 0 .. w - 1 : w = j + 1} = {w - 1}
  BY <1>3 DEF Width
<1> QED  BY <1>4, <1>5, <1>6

(***************************************************************************)
(* KernelArgsClosed is not inductive by itself: it speaks of the kernels   *)
(* written so far, and needs that each is what genCL gives for its index,  *)
(* that the test does not change, and that genCL is called only at an      *)
(* index of the test.                                                      *)
(***************************************************************************)
KInv ==
  /\ test \in Tests
  /\ idx \in Nat
  /\ stage \in {"kernel", "cpp", "done", "aborted"}
  /\ stage \in {"kernel", "cpp"} => idx \in Indexes(test)
  /\ DOMAIN clFiles \subseteq Indexes(test)
  /\ \A i \in DOMAIN clFiles : clFiles[i] = genCL(test, i)
  /\ DOMAIN cppFiles \subseteq Indexes(test)
  /\ \A i \in DOMAIN cppFiles : cppFiles[i] = TestCase(test, i)

LEMMA InitKInv == Init => KInv
<1> SUFFICES ASSUME Init PROVE KInv
  OBVIOUS
<1>1. test \in Tests /\ idx = 1 /\ clFiles = [i \in {} |-> 0] /\ cppFiles = [i \in {} |-> 0]
  BY DEF Init
<1>2. test.widths \in Seq(Seq(Width)) /\ test.widths # << >>
  BY <1>1, UtestAssumption DEF Test
<1>3. Len(test.widths[1]) = 0 => stage = "done"
  BY DEF Init
<1>4. Len(test.widths[1]) # 0 => stage = "kernel" /\ 1 \in Indexes(test)
  BY <1>2 DEF Init, Indexes
<1> QED  BY <1>1, <1>3, <1>4 DEF KInv

LEMMA NextKInv == KInv /\ [Next]_vars => KInv'
<1> SUFFICES ASSUME KInv, [Next]_vars PROVE KInv'
  OBVIOUS
<1>1. CASE GenKernel
  <2>1. /\ idx \in Indexes(test) /\ test' = test /\ idx' = idx /\ stage' = "cpp"
        /\ cppFiles' = cppFiles
    BY <1>1 DEF GenKernel, KInv
  <2>2. clFiles' = [i \in DOMAIN clFiles \cup {idx} |->
                      IF i = idx THEN genCL(test, idx) ELSE clFiles[i]]
    BY <1>1 DEF GenKernel
  <2>3. \A i \in DOMAIN clFiles' : clFiles'[i] = genCL(test', i)
    BY <2>1, <2>2 DEF KInv
  <2> QED  BY <2>1, <2>2, <2>3 DEF KInv
<1>2. CASE WriteCpp
  <2>1. idx \in Indexes(test) /\ test' = test /\ clFiles' = clFiles /\ idx' = idx + 1
    BY <1>2 DEF WriteCpp, KInv
  <2>2. stage' = "kernel" => idx' \in Indexes(test)
    BY <1>2, <2>1 DEF WriteCpp, Indexes
  <2>3. cppFiles' = [i \in DOMAIN cppFiles \cup {idx} |->
                       IF i = idx THEN TestCase(test, idx) ELSE cppFiles[i]]
    BY <1>2 DEF WriteCpp
  <2>4. \A i \in DOMAIN cppFiles' : cppFiles'[i] = TestCase(test', i)
    BY <2>1, <2>3 DEF KInv
  <2> QED  BY <1>2, <2>1, <2>2, <2>3, <2>4 DEF WriteCpp, KInv
<1>3. CASE Kill
  BY <1>3 DEF Kill, KInv
<1>4. CASE GenKernelRaises
  BY <1>4 DEF GenKernelRaises, KInv
<1>5. CASE UNCHANGED vars
  BY <1>5 DEF vars, KInv
<1> QED  BY <1>1, <1>2, <1>3, <1>4, <1>5 DEF Next

(* Every kernel the generator writes for a test whose parameters agree in *)
(* width has each of its vector initializers closed once, after its last   *)
(* lane: genCL's test on argvector(i - 1) is right for every such test.    *)
THEOREM KernelsClosed ==
  ASSUME \A t \in Tests : AlignedWidths(t)
  PROVE  Spec => []KernelArgsClosed
<1>1. Init => KInv
  BY InitKInv
<1>2. KInv /\ [Next]_vars => KInv'
  BY NextKInv
<1>3. KInv => KernelArgsClosed
  <2> SUFFICES ASSUME KInv, NEW i \in DOMAIN clFiles,
                      NEW k \in DOMAIN clFiles[i].lanes
               PROVE  clFiles[i].closes[k] = {clFiles[i].lanes[k] - 1}
    BY DEF KernelArgsClosed
  <2>1. test \in Test /\ test.widths # << >> /\ AlignedWidths(test)
    BY UtestAssumption DEF KInv
  <2>2. i \in Indexes(test) /\ clFiles[i] = genCL(test, i)
    BY DEF KInv
  <2>3. k \in 1 .. Len(test.widths)
    BY <2>2 DEF genCL
  <2> QED  BY <2>1, <2>2, <2>3, GenCLClosed
<1> QED  BY <1>1, <1>2, <1>3, PTL DEF Spec

(***************************************************************************)
(* The shape of every call utest_math_gen.py makes: the parameters agree   *)
(* in width, their value lists have one length, and the result is no      *)
(* wider than the parameters.                                              *)
(***************************************************************************)
UniformShape(t) ==
  /\ AlignedWidths(t)
  /\ Len(t.lens) = Len(t.widths)
  /\ \A k \in 1 .. Len(t.lens) : t.lens[k] = t.lens[1]
  /\ \A i \in Indexes(t) : i \in DOMAIN t.retw /\ t.retw[i] <= t.widths[1][i]

(* The work size globals[0] = count_input / vector covers no lane past     *)
(* count_input, for every width of the code.                               *)
LEMMA DivBound ==
  ASSUME NEW n \in Nat, NEW v \in Width
  PROVE  (n \div v) * v <= n
<1>1. CASE v = 1  BY <1>1
<1>2. CASE v = 2  BY <1>2
<1>3. CASE v = 3  BY <1>3
<1>4. CASE v = 4  BY <1>4
<1>5. CASE v = 8  BY <1>5
<1>6. CASE v = 16  BY <1>6
<1> QED  BY <1>1, <1>2, <1>3, <1>4, <1>5, <1>6 DEF Width

(* GenInputValues gives every input array the same length when the value  *)
(* lists have one length.                                                  *)
LEMMA GenLenNat ==
  ASSUME NEW len \in Nat, NEW v \in Width
  PROVE  GenLen(len, v) \in Nat
BY UtestAssumption DEF GenLen, Width

(* What geneProcess builds for index i of a test of uniform shape.         *)
LEMMA TestCaseShape ==
  ASSUME NEW t \in Test, t.widths # << >>, UniformShape(t), NEW i \in Indexes(t)
  PROVE  LET P == Len(t.widths)
             v == t.widths[1][i]
             n == GenLen(t.lens[1], v)
         IN  /\ v \in Width /\ n \in Nat /\ t.retw[i] <= v
             /\ TestCase(t, i) = [sizes   |-> [k \in 1 .. P |-> n],
                                  count   |-> n,
                                  vector  |-> v,
                                  globals |-> n \div v,
                                  reads   |-> [k \in 1 .. P |-> v],
                                  writes  |-> t.retw[i]]
<1> DEFINE P == Len(t.widths)
           v == t.widths[1][i]
           n == GenLen(t.lens[1], v)
<1>1. P \in Nat \ {0} /\ 1 \in 1 .. P /\ P \in 1 .. P
  OBVIOUS
<1>2. t.widths[1] \in Seq(Width) /\ i \in 1 .. Len(t.widths[1])
  BY <1>1 DEF Test, Indexes
<1>3. v \in Width
  BY <1>2
<1>4. \A k \in 1 .. P : t.widths[k][i] = v /\ t.lens[k] = t.lens[1]
  BY DEF UniformShape, AlignedWidths
<1>5. t.lens[1] \in Nat
  BY <1>1 DEF Test, UniformShape
<1>6. n \in Nat
  BY <1>3, <1>5, GenLenNat
<1>7. t.retw[i] <= v
  BY DEF UniformShape
<1>8. argvector(t, P, i) = v /\ \A k \in 1 .. P : argvector(t, k, i) = v
  BY <1>1, <1>4 DEF argvector
<1>9. \A k \in 1 .. P : GenLen(t.lens[k], v) = n
  BY <1>4
<1>10. TestCase(t, i) = [sizes   |-> [k \in 1 .. P |-> n],
                         count   |-> n,
                         vector  |-> v,
                         globals |-> n \div v,
                         reads   |-> [k \in 1 .. P |-> v],
                         writes  |-> t.retw[i]]
  BY <1>1, <1>8, <1>9 DEF TestCase
<1> QED  BY <1>3, <1>6, <1>7, <1>10

(* Every generated test of uniform shape touches only data it has: the     *)
(* host copies count_input values of every input array, and the kernel, on *)
(* count_input / vector work items, reads and writes lanes below           *)
(* count_input.  The test of line 279, made before each repetition, does   *)
(* not break this, since every array is cut alike.                         *)
THEOREM AccessInBounds ==
  ASSUME \A t \in Tests : UniformShape(t)
  PROVE  Spec => []KernelAccessInBounds
<1>1. Init => KInv
  BY InitKInv
<1>2. KInv /\ [Next]_vars => KInv'
  BY NextKInv
<1>3. KInv => KernelAccessInBounds
  <2> SUFFICES ASSUME KInv, NEW i \in DOMAIN cppFiles
               PROVE  LET c == cppFiles[i]
                      IN  /\ \A k \in DOMAIN c.sizes : c.sizes[k] >= c.count
                          /\ c.globals > 0 =>
                               /\ \A k \in DOMAIN c.reads :
                                    (c.globals - 1) * c.vector + c.reads[k] <= c.count
                               /\ (c.globals - 1) * c.vector + c.writes <= c.count
    BY DEF KernelAccessInBounds
  <2>1. test \in Test /\ test.widths # << >> /\ UniformShape(test)
    BY UtestAssumption DEF KInv
  <2>2. i \in Indexes(test) /\ cppFiles[i] = TestCase(test, i)
    BY DEF KInv
  <2> DEFINE v == test.widths[1][i]
             n == GenLen(test.lens[1], v)
  <2>3. /\ v \in Width /\ n \in Nat /\ test.retw[i] <= v
        /\ cppFiles[i] = [sizes   |-> [k \in 1 .. Len(test.widths) |-> n],
                          count   |-> n,
                          vector  |-> v,
                          globals |-> n \div v,
                          reads   |-> [k \in 1 .. Len(test.widths) |-> v],
                          writes  |-> test.retw[i]]
    BY <2>1, <2>2, TestCaseShape
  <2>4. (n \div v) * v <= n
    BY <2>3, DivBound
  <2>5. v \in Nat \ {0} /\ n \div v \in Int
    BY <2>3 DEF Width
  <2> DEFINE g == n \div v
  <2>6. (g - 1) * v + v <= n
    BY <2>4, <2>5 DEF g
  <2>7. /\ \A k \in DOMAIN cppFiles[i].sizes : cppFiles[i].sizes[k] = n
        /\ \A k \in DOMAIN cppFiles[i].reads : cppFiles[i].reads[k] = v
        /\ cppFiles[i].count = n /\ cppFiles[i].vector = v /\ cppFiles[i].globals = g
        /\ cppFiles[i].writes <= v
    BY <2>3 DEF g
  <2>8. i \in DOMAIN test.retw /\ test.retw \in Seq(Width)
    BY <2>1, <2>2 DEF UniformShape, Test
  <2>9. cppFiles[i].writes \in Int /\ n \in Int /\ g \in Int
    BY <2>3, <2>5, <2>8 DEF Width, g
  <2> QED  BY <2>5, <2>6, <2>7, <2>9
<1> QED  BY <1>1, <1>2, <1>3, PTL DEF Spec

(***************************************************************************)
(* Type correctness.  KInv leaves the index unbounded above; the loop of   *)
(* geneProcess (lines 452-482) steps it only from an index of the test, so *)
(* it never passes one beyond the last.                                   *)
(***************************************************************************)
TInv == KInv /\ idx \in 1 .. Len(test.widths[1]) + 1

LEMMA InitTInv == Init => TInv
<1> SUFFICES ASSUME Init PROVE idx \in 1 .. Len(test.widths[1]) + 1
  BY InitKInv DEF TInv
<1>1. test \in Test /\ test.widths # << >> /\ idx = 1
  BY UtestAssumption DEF Init
<1>2. Len(test.widths[1]) \in Nat
  BY <1>1 DEF Test
<1> QED  BY <1>1, <1>2

LEMMA NextTInv == TInv /\ [Next]_vars => TInv'
<1> SUFFICES ASSUME TInv, [Next]_vars PROVE idx' \in 1 .. Len(test'.widths[1]) + 1
  BY NextKInv DEF TInv
<1>1. CASE WriteCpp
  <2>1. idx \in Indexes(test) /\ test' = test /\ idx' = idx + 1
    BY <1>1 DEF WriteCpp, TInv, KInv
  <2> QED  BY <2>1 DEF Indexes
<1>2. CASE GenKernel \/ GenKernelRaises \/ Kill \/ UNCHANGED vars
  BY <1>2 DEF GenKernel, GenKernelRaises, Kill, vars, TInv
<1> QED  BY <1>1, <1>2 DEF Next

(* Every state of the generator is well typed: the overload index stays   *)
(* within one past the last index of the call, and only indexes of the    *)
(* call have kernel or C++ files, for every set of calls.                 *)
THEOREM TypeCorrect == Spec => []TypeOK
<1>1. Init => TInv
  BY InitTInv
<1>2. TInv /\ [Next]_vars => TInv'
  BY NextTInv
<1>3. TInv => TypeOK
  BY DEF TInv, KInv, TypeOK
<1> QED  BY <1>1, <1>2, <1>3, PTL DEF Spec

=============================================================================
