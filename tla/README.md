# Formal models of beignet's build-time generators

This directory holds TLA+ models of the Python programs under `src/`. The
programs are build-time generators of the beignet OpenCL runtime:

| Program | What it does |
|---|---|
| `src/backend/src/gen_builtin_vector.py` | Reads a spec file of builtin prototypes. Writes `ocl_vector.h`, which holds one scalarised vector overload per prototype and per overload index. |
| `src/backend/src/update_blob_ocl_header.py` | Splices the generated `ocl_<seg>.h` headers into a template between `// ##BEGIN_<SEG>##` and `// ##END_<SEG>##` markers. |
| `src/update_metainfo_xml.py` | Lists the PCI ids of the supported devices in the AppStream metainfo file. |
| `src/utests/utest_generator.py` | Writes a kernel file and a C++ test per overload of a math builtin. It is driven by `src/utests/utest_math_gen.py`. |

The four programs interact only through files:

- The header written by `gen_builtin_vector.py` is one of the segments the blob assembler splices.
- The metainfo generator reads `cl_device_data.h`.
- The unit-test generator consumes the tables of `utest_math_gen.py`.

Each program is therefore modelled on its own. Every model includes the file
system state that its program replaces: the published output, the temporary
file, and a kill of the process at any point.

## Inventory

| Component | Source | Module | Status |
|---|---|---|---|
| Type registry and promotion rules | `gen_builtin_vector.py` 32-149 | `BuiltinTypes` | modelled |
| Parser, slot resolution (`fixup_type`) and overload emitter | `gen_builtin_vector.py` 109-349 | `VectorProto` | modelled (C text abstracted) |
| Section driver (main loop, unlink, temp file, rename) | `gen_builtin_vector.py` 351-384 | `GenVector` | modelled |
| Header-blob assembler | `update_blob_ocl_header.py` | `BlobTemplate`, `BlobHeader`, `BlobPublish` (proofs in `BlobHeaderProofs`) | modelled, with an abstract spec and a proved refinement |
| Metainfo generator | `update_metainfo_xml.py` | `MetainfoDevices` (proofs in `MetainfoProofs`) | modelled |
| Math unit-test generator | `utest_generator.py` | `UtestInputs` (proofs in `UtestInputsProofs`) | partly |
| Math test tables | `utest_math_gen.py` | `MathTables` | modelled (calls abstracted to shapes) |

## How the modules correspond to the code

### `BuiltinTypes`

- **Types.** A concrete type is the code's tuple `(base, width)` or
  `(base, width, memspace)`. The model writes it as a record whose `mem`
  field is `NoMem` (the code's `''`) for a 2-tuple. This keeps Python's list
  and tuple equality, which `fixup_type` relies on.
- **Registry.** `type_dict` is built from the same base tuples and width
  lists as lines 62-107. The classes are grouped by the width list they
  use, so that the registry can be reasoned about.
- **Promotion rules.** `match_unsigned`, `match_signed` and `match_scalar`
  follow lines 130-149 branch by branch. A result built as a new list
  (`Plain`) carries no memory space, as in the code.

### `VectorProto`

- **`ParamTokens`.** This is the token loop of `init_from_line`. It is
  written as a recursive function over the token positions.
- **`fixup_type`.** The rules are tried in the code's order. An index past
  the end of a list is the code's IndexError (`Fail`).
- **`gen_proto_str` and `gen_proto_str_1`.** These keep the code's
  signature. `gen_proto_str` builds `vtypeSeq` and `ptypeSeqs`.
  `gen_proto_str_1` resolves each parameter's pair of slot types once with
  `fixup_type`. The body loop recomputes the same values, so the model does
  not repeat them. `ProtoOutcome` is what the two loops then do. It keeps
  every early return and raise in the code's order:
  - the raise of a failing `fixup_type`;
  - the skip of `double`;
  - the skip of a scalar return;
  - the raise on a lane-width mismatch;
  - the UnboundLocalError when the prototype has no parameters.

  An emitted overload is a record of name, return type, parameter types,
  the type of the cast in the body, the lane mode of each parameter, and
  negation. Its C text is not modelled.
- **`gen_proto_str`.** It yields `Fail` when `check_type` or any index
  raises. Otherwise it yields the outcome at every index from 0 to
  `count - 1`.

### `GenVector`

The state is the spec file, a program counter, the line index, the section
variables, the prototype's kept `prefix`, the temporary file and the
published header. The actions are:

| Action | Code |
|---|---|
| `Start` | lines 358-365: unlink, open the temporary file |
| `SkipLine` | blank lines and comments |
| `SectionLine` | a `##` line |
| `SectionLineEmpty` | the IndexError of `##` with nothing after it |
| `ProtoLine` | lines 376-381 |
| `ProtoLineUnbound` | the NameError before the first `##` |
| `ProtoLineFails` | a raise inside `gen_proto_str` |
| `Finish` | close and rename |
| `Kill` | a kill from outside |

`ProtoLine` performs the whole iteration in one step: `init`,
`init_from_line`, `gen_proto_str` and `output`. Nothing of the line reaches
the file unless `gen_proto_str` returns.

Two details of the code are kept:

- The misspelt `setionPrefix` (line 378) leaves `sectionPrefix` set.
- `init` keeps the old prefix when `sectionPrefix` is empty.

### `BlobHeader`

A template line is a BEGIN or END marker of a segment, or a text line. The
copy loop with `matched_header` is one action per branch:

- `CopyLine`: a line outside a segment is copied.
- `BeginSegment`: a BEGIN line is copied, followed by the segment header
  less its two banner lines.
- `BeginMissing`: a BEGIN line whose segment header is missing raises IOError.
- `RegionLine`: inside a segment, only its END line is copied.

The other actions are `Start` (the unlink and the open), `Finish` (the
rename) and `Kill`.

`BlobTemplate` holds what the detailed and the abstract module share: the
template lines, the segment markers, the banner-less header body
(`FragBody`) and the reference expansion `Expand`, defined over positions.
`RegionEnd(t, b)` is the first END line of b's segment after b, or one past
the template. `Opens` marks the BEGIN lines that are not inside an earlier
region, and `Openers` is the set of those lines. `Piece(t, fl, k)` is what
line k contributes: nothing inside a region, otherwise the line itself,
followed by the header body when it is a BEGIN line. `ExpandTo(t, fl)[m]`
concatenates the pieces of the first m lines. `Opens` and `ExpandTo` are
recursive functions, not `RECURSIVE` operators or `SelectSeq` and
`FlattenSeq`, so that the provers can unfold them (see Proofs).

`BlobPublish` is what one run promises, with the loop left out. `Unlink`
removes the blob (line 37). `Publish` is the loop and the rename as one step,
enabled only when every segment the template opens has its header, and it
writes `Expand(tmpl, frag)`. `Fail` is a raise or a kill before the rename.

`BlobHeader` implements it under the mapping `RunOf`: `start` is `idle`,
`loop` is `running`, `done` is `done` and `aborted` is `failed`; `tmpl`,
`frag` and `blob` are mapped to themselves. The loop's steps change only
the temporary file and `line`, so they are stutters of `BlobPublish`.

### `MetainfoDevices`

- A header line is a device define, with its chip family and id, or any
  other line.
- `DeviceLine` carries the sticky `supported` flag.
- `OpenOut` models `open(..., "w")`, which truncates the output.
- `WriteOut` writes the sorted ids. `sorted` models Python's `sorted()`
  (line 25): the list reordered by a permutation of its positions
  (`Bijection` of `Functions`) under which it is non-decreasing
  (`OrdersSeq`).
- The reference `SupportedIds` is defined over positions, not by the flag.
  `FirstIvy` is the first IVYBRIDGE define. `IdsTo(h)[m]` is the ids of the
  defines among the first `m` lines at or after it, as a recursive function
  over `0 .. Len(h)`.

### `UtestInputs`

A test is represented by its shape: the width of each parameter and of the
result at each overload index, and the lengths of the value lists.

`TestCase` computes what `geneProcess` derives for one index:

- the length of each `input_data` array (`GenLen`, the loop of lines
  273-287);
- `count_input` and `vector`;
- `globals[0]`;
- the lanes the kernel reads and writes.

`GenKernel` and `WriteCpp` are the two file writes of one iteration. `Kill`
ends the run. `clFiles` maps an index to the kernel written for it, as
`genCL` builds it (lines 420-450): for each parameter, the lanes it
declares and the lanes after which its initializer is closed. The closing
test of line 433 compares lane `j+1` with `argvector` of the previous
parameter (`PrevParam`; Python's index -1 wraps to the last).

`GenKernelRaises` is the AttributeError of `GenCpuCompilerMath` (lines
295-306): for a scalar result of vector arguments it reads `self.vector`,
which no code assigns. `geneProcess` calls it before `genCL`, so the run
ends there with the files of the earlier indexes written.

`MathTables` gives the 55 calls of `main()` in `utest_math_gen.py` as
shapes: one or two parameters over the widths 1, 2, 4, 8, 16, value lists
of `base_input_values` (6), `gene2ValuesLoop` of 6 or 5 values, or the
hand-written lists of `pown`, `powr`, `rootn`, `sinpi` and `tanpi`. It
also gives the `fmax`/`fmin` calls of `(gentypef x, float y)` that `main()`
leaves commented out (`GentypefTests`).

## Runs

| Run | Module and cfg | Expect | What it shows |
|---|---|---|---|
| `genvector_safety` | `MCGenVector` / `MCGenVector.cfg` | pass | Checks `TypeOK`, `NoPartialPublish`, `OverloadCoherent`, `NoDuplicateOverloads` and `NegationFollowsSection` (see below). |
| `genvector_atomicity` | `MCGenVector` / `Atomicity.cfg` | violation | `HeaderChangesOnlyOnPublish` is violated: `Start` removes the published header before anything can fail (spec sections 4.6, 6 and 8 promise the opposite). |
| `genvector_acos` | `MCGenVector` / `AcosExample.cfg` | violation | The spec's acos example promises four overloads. The code emits five, because `all_vector` contains 3. |
| `genvector_roundtrip` | `MCGenVector` / `RoundTrip.cfg` | violation | `match_signed(match_unsigned(t)) = t` fails for the unsigned select masks, so the spec's round trip holds only for signed types. |
| `blob_expansion` | `MCBlobHeader` / `MCBlobHeader.cfg` | pass | `BlobIsExpansion` (see below). |
| `metainfo_devices` | `MCMetainfoDevices` / `MCMetainfoDevices.cfg` | pass | `ModaliasListsSupported` (see below). |
| `utest_bounds` | `MCUtestInputs` / `MCUtestInputs.cfg` | pass | `KernelAccessInBounds` and `KernelArgsClosed` (see below), on the 55 shipped calls and a scalar-result call that raises. |
| `utest_gentypef` | `MCUtestInputs` / `Gentypef.cfg` | violation | For the commented-out `fmax`/`fmin` of `(gentypef, float)`, the `float2` kernel closes `x1` after lane 0 and never closes `x2`: the `argvector(i-1)` slip of `genCL` line 433 yields C that does not compile. |
| `blob_refinement` | `MCBlobHeader` / `BlobRefinement.cfg` | pass | `BlobRefines` (see below). |
| `utest_cap` | `MCUtestInputs` / `UtestCap.cfg` | violation | `GenInputValues` ends at 144 values for a 36-value list at width 4. The comment says 128 is the cap. |

The properties checked by the passing runs:

- **`NoPartialPublish`**: a published header holds every prototype line's
  output, once each, in file order.
- **`OverloadCoherent`**: the declared return type equals the type the body
  casts to, and pointer-ness follows the spec line.
- **`NoDuplicateOverloads`**: the published header never redefines an
  overload.
- **`NegationFollowsSection`**: lane results are negated exactly in the
  relational section, except for select and bitselect.
- **`BlobIsExpansion`**: a published blob equals the template with each
  segment region replaced by its header. The reference is defined over
  positions (`Expand`), not by the loop.
- **`ModaliasListsSupported`**: the written file lists, sorted, the ids of
  every define from the first IVYBRIDGE one on.
- **`KernelAccessInBounds`**: the kernel and the host loop read and write
  only lanes inside arrays of `count_input` values.
- **`KernelArgsClosed`**: every kernel written closes each parameter's
  initializer exactly once, after its last lane.
- **`BlobRefines`**: `BlobHeader` implements `BlobPublish` under `RunOf`:
  the blob changes only at the unlink and at a rename that publishes the
  whole expansion.

Every property of a passing run has a mutant in `PROJECT.json`. A mutant is
a plausible bug in the mapped code that TLC detects.

### Bounds

`MCGenVector` checks every spec file built from these pieces:

- 15 real prototypes. They cover pointer parameters, scalar operands, the
  integer and relational class pairs, both select variants, unnamed
  parameters and a prototype with no parameters.
- Each prototype alone under each of four sections. Each prototype followed,
  in the same section or after a section change, by one of three second
  lines: the unsigned-mask select, isequal and abs_diff. These are the lines
  whose result depends on the line before them: a duplicate select, or a
  negation and promotion that depend on the kept prefix.
- Files with no section, with an empty `##`, or with comments and blanks.

Every `fixup_type` rule, every early return of `gen_proto_str_1`, and every
raise is reached.

`Atomicity.cfg` needs only two files: a run that raises
before any section and a run that completes. Either one starts by removing
the header it found.

`MCBlobHeader` checks every template of up to four lines over text, the
BEGIN and END markers of two segments, and segment headers of 2 or 4 lines
or missing. This is enough for nested, unclosed and stray markers.

`MCMetainfoDevices` checks every header of up to four lines over two
families and two ids. That covers an older family after IVYBRIDGE and a
duplicate id.

`MCUtestInputs` checks every call of `main()`, taken from `MathTables`, and
one scalar-result call of two vector parameters (the shape of `dot`), which
reaches `GenKernelRaises`. The shipped calls reduce to a handful of distinct
shapes:

- one parameter with 5, 6 or 13 values;
- two parameters from `gene2ValuesLoop` of 5 or 6 values;
- two parameters of equal lengths 6, 11 or 13;
- the widths 1, 2, 4, 8 and 16.

`Gentypef.cfg` checks the commented-out `(gentypef, float)` calls alone.
Every shipped call gives its value lists equal lengths. A call whose lists
differed (say 36 and 50 values at width 4) would size the second input
at 128 values while the loops run to `count_input` = 144; no call does, and
the theorem `AccessInBounds` states equal lengths as a hypothesis.

`BlobRefinement.cfg` uses the templates and headers of `MCBlobHeader`; TLC
checks the refinement over the same million states.

### Fairness

No run assumes fairness, and no liveness property is checked. Every
property is a safety property, and `BlobRefines` is `BP!Spec`, which has no
fairness either. The one liveness question the code raises, that the blob
assembler's copy loop ends, has no content: the loop is a `for` over a
finite template with no waits, so it ends whatever the loop body does.

Every cfg says
`CHECK_DEADLOCK FALSE` because each program really stops: every run ends in
`done` (the output is written) or `aborted` (a raise or a kill), and no other
state lacks a successor. Each module guards every loop step on the line
index, so a step is enabled in every state whose `pc` is neither `done` nor
`aborted`.

## Proofs

`GenVectorProofs` proves `THEOREM TypeCorrect == Spec => []TypeOK` for every
value of `SpecFiles`. TLC checks `TypeOK` in `genvector_safety`.

The inductive invariant is `IInv == TypeOK /\ (pc = "loop" => temp # Absent)`.
The second conjunct is needed because `ProtoLine` appends to `temp.chunks`,
which requires the temporary file to exist. It does, because `Start` opens
it before the loop starts.

The argument is a chain of lemmas:

1. `RegistryTypeOK`: every class in `type_dict` is a list of at most 60
   types. It rests on `BaseLists`, `ClassTables`, `WidthLists` and
   `GenVectorTypeOK`.
2. `MemspaceTypeOK`, `MatchTypeOK` and `FixupTypeOK`: `set_vector_memspace`
   keeps lists of types lists of types, and the promotion rules and
   `fixup_type` map types to types or to `Fail`.
3. `ProtoOutcomeTypeOK` and `Proto1TypeOK`: each outcome of
   `gen_proto_str_1` is an overload, a skip or a raise. Where it is an
   overload, no parameter stops the loop, so every resolved slot is a type.
4. `OverloadCountTypeOK`: the index count is a natural. The count is the
   largest of a bounded set, which exists by `WFMin` on the naturals
   (`NatHasLeast`, `LargestOfBounded`).
5. `ParseTypeOK` and `LineOutsTypeOK`: for a line that `check_type` accepts,
   `gen_proto_str` raises or yields a list of overloads and skips.

`GenVectorProofs` also proves `THEOREM PublishComplete == Spec =>
[]NoPartialPublish` for every value of `SpecFiles`. TLC checks
`NoPartialPublish` in `genvector_safety`. The property alone is not
inductive: the rename publishes whatever the temporary file holds, so the
invariant must also describe the temporary file. The strengthening is
`PInv == IInv /\ LoopInv`, and `LoopInv` states:

- at `start`, `line = 1`;
- until the rename (`start`, `loop`, `aborted`), the header is the one found
  (`Prior`) or none (`Absent`);
- during the loop, the chunk lines of `temp` are exactly the prototype lines
  before `line`, and they are in file order (`ChunkLines`, `InOrder`);
- `NoPartialPublish` itself, which holds after `done` because nothing
  changes after it.

`NextPInv` has one case per action:

- A blank, comment or `##` line leaves that set as it is (`SkipKeepsChunks`).
- A prototype line adds its own position (`ProtoAddsLine`), at the end.
- An abort keeps the header.
- `Finish` happens at `line = Len(file) + 1`, where the prototype lines before
  `line` are all of them (`ProtoLinesBounded`).

The proofs use these assumptions of `GenVector`. TLC evaluates each of them
on every run:

- **`SpecFilesAssumption`**: the spec files are sequences of lines.
- **`ParseAssumption`**: the token scan of each prototype line yields a list
  of (memory space, name) pairs. It is stated as an assumption because
  `ParamTokens` is a recursive function, whose result over all inputs the
  provers cannot reach by induction.
- **`EmptyStringAssumption`**: `""` is a string. The prover has no theory of
  string literals.

`UtestInputsProofs` proves two theorems for every set of tests:

- `KernelsClosed`: `Spec => []KernelArgsClosed`, for tests whose parameters
  all have the same width at each index (`AlignedWidths`). The inductive
  invariant `KInv` says that the test is fixed, that every written index is
  an index of the test, and that each kernel written is `genCL` of its
  index, each C++ file `TestCase` of its index. The lemma `GenCLClosed`
  then gives the property: with aligned widths, parameter k's neighbour
  `PrevParam` has the same width, so the only closing lane is the last one.
- `AccessInBounds`: `Spec => []KernelAccessInBounds`, for tests that are
  also `UniformShape`: value lists of equal length, and a result width
  defined and no larger than the parameters'. It rests on the same `KInv`,
  on `GenLenNat` and `TestCaseShape`, and on `DivBound`: `(n \div v) * v
  <= n` for each vector width `v`.

The hypotheses are those the shipped calls meet; `utest_gentypef` shows the
first is needed.

`GenVectorSectionProofs` proves `THEOREM NegationCorrect == Spec =>
[]NegationFollowsSection` for every value of `SpecFiles`. TLC checks the
property in `genvector_safety`. It holds because `functionProto` keeps the
prefix of the last `##` line read. The strengthening `SecInv` states that:

- once a `##` line has been read (`bound`), `sectionPrefix` is the first word
  of the last `##` line before `line` (`SectionAt`), and it is not empty;
- every chunk of the temporary file is `gen_proto_str` of its line under
  `SectionAt` of that line, and is not a raise.

Two steps of the argument need care:

- `SectionLine` sets the prefix to the line's first word. That word is
  non-empty by the new assumption `SectionWordsAssumption`: the words come
  from `str.split()` (line 373), which never yields an empty string.
  `FirstWord` and `SectionAtSection` then show that the new prefix is
  `SectionAt` of the next line.
- `ProtoLine` then passes a non-empty `sectionPrefix`, which is the prefix
  `NewPrefix` takes. `OutcomeNegate` reads the `negate` field off
  `ProtoOutcome`.

`UtestInputsProofs` also proves `TypeCorrect == Spec => []TypeOK` for every
set of tests. The invariant `TInv` adds one fact to `KInv`: the index stays
within one past the widths of the first parameter. It holds because
`WriteCpp` steps the index only from an index of the test.

`BlobHeaderProofs` proves three theorems for every template and every set
of segment-header sizes:

- `TypeCorrect`: `Spec => []TypeOK`.
- `ExpansionCorrect`: `Spec => []BlobIsExpansion`.
- `RefinementCorrect`: `Spec => BlobRefines`. `BP!Spec` has no fairness,
  so this is the whole refinement.

All three rest on the inductive invariant `IInv`. During the loop, its part
`LoopInv` states that:

- the temporary file is `ExpandTo(tmpl, frag)[line - 1]`;
- `matched_header` is `""` exactly when no region is open at `line`
  (`Open(t, b, k)`: `b` opens a region, `b < k` and `k <= RegionEnd(t, b)`),
  and otherwise names the segment of a region open there;
- every region opened so far had its segment header.

The rest of `IInv` says that before the rename the blob is the one found or
none, and that after it the blob is `Written(Expand(tmpl, frag))`. TLC
checked `IInv` on `MCBlobHeader` before it was proved.

The argument has four layers:

1. **Fixpoints.** `OpensFix` and `ExpandFix` show that the two recursive
   functions satisfy their defining equations. A least-counterexample
   argument over `0 .. Len(t)` (`LeastNat`, from `WFMin`) builds a solution
   on every prefix. For `Opens` this uses `OBodyLocal`: the equation at b
   reads the function below b only. These are facts about one definition,
   not induction over the data.
2. **Regions.** `RegionEndFacts` describes `RegionEnd`. `OpenerIff` says a
   line opens a region exactly when it is a BEGIN line that is not inside
   one. Regions do not overlap (`OpenersDisjoint`), so at most one region is
   open at a line (`OpenUnique`).
3. **One line.** `NoOpenStep` and `OpenStep` say what one line does to the
   open region, and which `Piece` it contributes.
4. **Actions.** `NextIInv` has one case per action. Each loop action appends
   to the temporary file exactly the `Piece` of its line
   (`AppendConcat`, `FragBodyType`). `Finish` happens at
   `line = Len(tmpl) + 1`, where the temporary file is `Expand`.

`StepRefines` maps the steps:

- `Start` is `Unlink`;
- the loop steps are stutters;
- `BeginMissing` and `Kill` are `Fail`;
- `Finish` is `Publish`. Its guard, that every opener's header exists,
  follows from `LoopInv` at the last line.

`SameTemplate` identifies `BlobPublish`'s copy of the `BlobTemplate`
definitions with `BlobHeader`'s.

`MetainfoProofs` proves, for every set of header files:

- `THEOREM TypeCorrect == Spec => []TypeOK`;
- `THEOREM ModaliasCorrect == Spec => []ModaliasListsSupported`.

TLC checks both in `metainfo_devices`. Both rest on the inductive invariant
`IInv`. It says that:

- during the loop, `device_ids = IdsTo(src)[line - 1]`;
- during the loop, `supported` holds exactly when `FirstIvy(src) < line`;
- from `OpenOut` on, `line = Len(src) + 1` and
  `device_ids = SupportedIds(src)`;
- the output file holds a modalias list only after `WriteOut`, and then
  the list is `sorted(device_ids)`.

`ModaliasListsSupported` alone is not inductive. It says nothing of the
loop, and its second conjunct needs the flag to match `FirstIvy`. TLC
checked `IInv` on `MCMetainfoDevices` before it was proved.

The argument has three parts:

1. **Definitions.** `IdsFix` shows that `IdsTo` satisfies its defining
   equation, by the same least-counterexample construction as in
   `BlobHeaderProofs`. `FirstIvyFacts` gives the position of the first
   IVYBRIDGE define.
2. **`sorted`.** `SortExists` shows that every list of `n` numbers has a
   sorting permutation. The proof takes the least `n` that would have none.
   `InsertLast` extends the permutation of the first `n - 1` elements by
   putting `n` before the first element greater than `s[n]`. So the
   `CHOOSE` of `sorted` picks an ordering permutation. `PermBag` shows
   that reordering by a permutation keeps `ToBag`. It maps the positions
   holding a value one-to-one onto the positions holding it after the
   reordering (`FS_Bijection`). `SortedFacts` collects the result.
3. **Actions.** `NextIInv` has one case per action. `LoopStep` relates a
   line's `IdOf` to the sticky flag. A define is appended exactly when the
   flag, after the line, is set. That is exactly when the line is at or
   after `FirstIvy`.

`sorted` is defined here, and `SortSeq` of the TLC module is not used.
The provers treat `SortSeq` and `Permutations` as opaque, so nothing
about a `SortSeq` result could be proved.

Only TLC checks the following:

- `OverloadCoherent` and `NoDuplicateOverloads`. They hold for the
  prototypes the real spec file contains, not for every spec file that
  `SpecFiles` allows: an arbitrary line can declare, for example, two
  identical overloads. A theorem would have to assume the shipped prototype
  list, and the provers cannot evaluate `gen_proto_str` over it.
- Every property on the instances only. The theorems above cover every
  value of the constants.

## Not modelled

- The text of the generated C, the kernel sources and the C++ tests:
  formatting, indentation and swizzle names.
- The values, `cpu_func` expressions and ulp strings of `utest_math_gen.py`:
  no property reads them.
- `udebug`, and the text `GenCpuCompilerMath` returns when it does not raise.
- The usage checks on `sys.argv`, which stop a run before any file is
  touched.
