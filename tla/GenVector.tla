----------------------------- MODULE GenVector ------------------------------
(***************************************************************************)
(* The driver of gen_builtin_vector.py (lines 351-384): one run of the     *)
(* generator over a spec file.  It removes the published header, writes   *)
(* the output of each spec line into a temporary file, and renames the    *)
(* temporary file over the header at the end.  A raise anywhere ends the  *)
(* run; so may a kill of the process from outside.                         *)
(*                                                                         *)
(* A spec line is a record: a blank line, a '#' comment, a '##' section    *)
(* marker with the words after '##', or a prototype with its tokens.       *)
(* The text the code writes is abstracted to chunks: one per prototype     *)
(* line, with the section header written before it and the outcome of    *)
(* gen_proto_str_1 at every overload index.                                *)
(***************************************************************************)
EXTENDS VectorProto

CONSTANT SpecFiles      \* the spec files a run may be given

Line == [kind : {"blank", "comment"}]
          \cup [kind : {"section"}, words : Seq(STRING)]
          \cup [kind : {"proto"}, toks : Seq(STRING)]

ASSUME SpecFilesAssumption == SpecFiles \subseteq Seq(Line)

(* The words of a '##' line come from str.split() (line 373), which never *)
(* yields an empty string.                                                 *)
ASSUME SectionWordsAssumption ==
  \A f \in SpecFiles : \A k \in DOMAIN f :
    f[k].kind = "section" => \A w \in DOMAIN f[k].words : f[k].words[w] # ""

(* The empty string, which the code starts the prefixes and the function   *)
(* name with, is a string.  TLC evaluates this; the proof system has no    *)
(* theory of string literals and takes it from here.                       *)
ASSUME EmptyStringAssumption == "" \in STRING

(* The parameters init_from_line scans from a prototype line form a list   *)
(* of (memory space, type name) pairs.  This is a fact about the scan loop *)
(* of ParamTokens, which TLC evaluates on every spec file of a run.        *)
ParamShape == Seq([mem : MemSpaces \cup {NoMem}, cls : STRING])

ASSUME ParseAssumption ==
  \A f \in SpecFiles : \A k \in DOMAIN f :
    f[k].kind = "proto" => ParamTokens(f[k].toks) \in ParamShape

VARIABLES
  file,           \* the spec file of this run
  pc,             \* "start", "loop", "done" or "aborted"
  line,           \* the index of the next spec line to read
  bound,          \* whether sectionHeader and sectionPrefix are bound yet
  sectionHeader,  \* the words of the section header still to be written
  sectionPrefix,  \* the prefix of the last '##' line
  prefix,         \* functionProto.prefix
  temp,           \* the temporary header file
  header          \* the published header file

vars == <<file, pc, line, bound, sectionHeader, sectionPrefix, prefix, temp, header>>

(* A file that does not exist, and the header a previous run published.   *)
Absent == [absent |-> TRUE]
Prior == [prior |-> TRUE]
(* A file this run wrote: the banner, then the chunks.                     *)
Written(chunks) == [chunks |-> chunks]

Chunk == [line : Nat, header : Seq(STRING), outs : Seq(Overload \cup {Skip})]

TypeOK ==
  /\ file \in SpecFiles
  /\ pc \in {"start", "loop", "done", "aborted"}
  /\ line \in 1 .. Len(file) + 1
  /\ bound \in BOOLEAN
  /\ sectionHeader \in Seq(STRING)
  /\ sectionPrefix \in STRING
  /\ prefix \in STRING
  /\ temp \in {Absent} \cup [chunks : Seq(Chunk)]
  /\ header \in {Absent, Prior} \cup [chunks : Seq(Chunk)]

(***************************************************************************)
(* A temporary file left by an earlier run may exist when a run starts.    *)
(***************************************************************************)
Init ==
  /\ file \in SpecFiles
  /\ pc = "start"
  /\ line = 1
  /\ bound = FALSE
  /\ sectionHeader = << >>
  /\ sectionPrefix = ""
  /\ prefix = ""
  /\ temp \in {Absent, Written(<< >>)}
  /\ header \in {Absent, Prior}

(* safeUnlink(headerFileName), open(tempHeaderFileName, 'w') and the two   *)
(* banner lines (lines 358-365).                                           *)
Start ==
  /\ pc = "start"
  /\ pc' = "loop"
  /\ header' = Absent
  /\ temp' = Written(<< >>)
  /\ UNCHANGED <<file, line, bound, sectionHeader, sectionPrefix, prefix>>

(* A raise ends the run where it is; the temporary file stays.            *)
Abort ==
  /\ pc' = "aborted"
  /\ UNCHANGED <<file, line, bound, sectionHeader, sectionPrefix, prefix, temp, header>>

ReadLine(kinds) ==
  /\ pc = "loop"
  /\ line <= Len(file)
  /\ file[line].kind \in kinds

(* A blank line or a comment that is not a section marker (lines 369-375). *)
SkipLine ==
  /\ ReadLine({"blank", "comment"})
  /\ line' = line + 1
  /\ UNCHANGED <<file, pc, bound, sectionHeader, sectionPrefix, prefix, temp, header>>

(* A '##' line sets the header and the prefix (lines 372-374).             *)
SectionLine ==
  /\ ReadLine({"section"})
  /\ file[line].words # << >>
  /\ bound' = TRUE
  /\ sectionHeader' = file[line].words
  /\ sectionPrefix' = file[line].words[1]
  /\ line' = line + 1
  /\ UNCHANGED <<file, pc, prefix, temp, header>>

(* (line[2:].split())[0] is an IndexError when nothing follows '##'.      *)
SectionLineEmpty ==
  /\ ReadLine({"section"})
  /\ file[line].words = << >>
  /\ Abort

(***************************************************************************)
(* A prototype line (lines 376-381).  functionProto.init reads             *)
(* sectionHeader and sectionPrefix, which are unbound (a NameError) before *)
(* the first '##' line, and keeps the old prefix when sectionPrefix is     *)
(* empty.  The line's text reaches the temporary file only when            *)
(* gen_proto_str returns.  sectionHeader is then cleared; the assignment   *)
(* meant to clear sectionPrefix binds the misspelt setionPrefix instead.   *)
(***************************************************************************)
(* Mutant: the test on sectionPrefix inverted.                             *)
NewPrefix_inverted == IF sectionPrefix = "" THEN sectionPrefix ELSE prefix

NewPrefix == IF sectionPrefix # "" THEN sectionPrefix ELSE prefix

LineOuts == gen_proto_str(file[line].toks, NewPrefix)

ProtoLine ==
  /\ ReadLine({"proto"})
  /\ bound
  /\ LineOuts # Fail
  /\ prefix' = NewPrefix
  /\ temp' = Written(Append(temp.chunks, [line |-> line, header |-> sectionHeader,
                                          outs |-> LineOuts]))
  /\ sectionHeader' = << >>
  /\ line' = line + 1
  /\ UNCHANGED <<file, pc, bound, sectionPrefix, header>>

(* functionProto.init(sectionHeader, ...) before any '##' line: NameError. *)
ProtoLineUnbound ==
  /\ ReadLine({"proto"})
  /\ ~bound
  /\ Abort

(* A raise inside gen_proto_str.                                           *)
ProtoLineFails ==
  /\ ReadLine({"proto"})
  /\ bound
  /\ LineOuts = Fail
  /\ Abort

(* Mutant: the rename done before the loop has read every line.            *)
Finish_early ==
  /\ pc = "loop"
  /\ pc' = "done"
  /\ header' = temp
  /\ temp' = Absent
  /\ UNCHANGED <<file, line, bound, sectionHeader, sectionPrefix, prefix>>

(* tempHeader.close() and os.rename (lines 383-384).                       *)
Finish ==
  /\ pc = "loop"
  /\ line = Len(file) + 1
  /\ pc' = "done"
  /\ header' = temp
  /\ temp' = Absent
  /\ UNCHANGED <<file, line, bound, sectionHeader, sectionPrefix, prefix>>

(* The process is killed from outside while it runs.                       *)
Kill ==
  /\ pc \in {"start", "loop"}
  /\ Abort

Next ==
  \/ Start \/ SkipLine \/ SectionLine \/ SectionLineEmpty
  \/ ProtoLine \/ ProtoLineUnbound \/ ProtoLineFails \/ Finish \/ Kill

Spec == Init /\ [][Next]_vars

(***************************************************************************)
(* Properties.                                                             *)
(***************************************************************************)
ProtoLines(f) == {k \in 1 .. Len(f) : f[k].kind = "proto"}

(* The prefix of the last '##' line before line k of f, "" if none.        *)
SectionAt(f, k) ==
  LET S == {j \in 1 .. k - 1 : f[j].kind = "section" /\ f[j].words # << >>}
  IN  IF S = {} THEN "" ELSE f[Largest(S)].words[1]

(* The places of the overloads a written file holds: chunk c, position k. *)
Places(w) ==
  UNION {{<<c, k>> : k \in {j \in DOMAIN w.chunks[c].outs : w.chunks[c].outs[j] # Skip}}
           : c \in DOMAIN w.chunks}
Ov(w, p) == w.chunks[p[1]].outs[p[2]]

(* A header this run published holds the output of every prototype line   *)
(* of the spec file, once each and in file order: the rename in the code   *)
(* never publishes a temporary file the loop has not finished writing.     *)
NoPartialPublish ==
  header \notin {Absent, Prior} =>
    /\ {header.chunks[c].line : c \in DOMAIN header.chunks} = ProtoLines(file)
    /\ \A a, b \in DOMAIN header.chunks :
         a < b => header.chunks[a].line < header.chunks[b].line

(* Every overload written is coherent C: the return type of its signature, *)
(* resolved against the first parameter, is the type of the vector the     *)
(* body builds, resolved against the last one, and a parameter is a        *)
(* pointer exactly when the spec line gives it a memory space, although    *)
(* fixup_type may rebuild its type through the promotion rules.            *)
OverloadCoherent ==
  temp \notin {Absent} =>
    \A p \in Places(temp) :
      LET ov   == Ov(temp, p)
          decl == Parse(file[temp.chunks[p[1]].line].toks, "")
      IN  /\ ov.cast = ov.ret
          /\ \A n \in DOMAIN ov.params :
               (ov.params[n].mem # NoMem) <=> (decl.params[n].mem # NoMem)

(* No two overloads of the published header have the same name and the    *)
(* same parameter types, which C rejects as a redefinition: in particular  *)
(* the two select lines of the relational section, one with a signed and   *)
(* one with an unsigned mask, never yield the same overload.               *)
NoDuplicateOverloads ==
  header \notin {Absent, Prior} =>
    \A p, q \in Places(header) :
      /\ p # q
      /\ Ov(header, p).name = Ov(header, q).name
      => Ov(header, p).params # Ov(header, q).params

(* The lane results of an overload are negated exactly when its line is in *)
(* the relational section and the function is neither select nor          *)
(* bitselect: the prefix functionProto keeps across lines is the one of    *)
(* the last '##' line.                                                     *)
NegationFollowsSection ==
  temp \notin {Absent} =>
    \A p \in Places(temp) :
      Ov(temp, p).negate <=>
        /\ SectionAt(file, temp.chunks[p[1]].line) = "relational"
        /\ Ov(temp, p).name \notin {"select", "bitselect"}

(* The header file changes only when a run publishes its output: a run     *)
(* that fails leaves the header it found (spec, sections 4.6 and 6).       *)
HeaderChangesOnlyOnPublish == [][header' # header => pc' = "done"]_vars

=============================================================================
