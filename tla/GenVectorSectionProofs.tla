------------------------ MODULE GenVectorSectionProofs ------------------------
(***************************************************************************)
(* Proofs that the generator negates lane results exactly in the           *)
(* relational section (NegationFollowsSection), for every set of spec     *)
(* files.  The prefix an overload is built under is the one functionProto  *)
(* keeps across lines (lines 201-212 and 376-378); the invariant relates  *)
(* it to the last '##' line read, and every chunk written to the output   *)
(* of gen_proto_str under the prefix of its own line.                      *)
(***************************************************************************)
EXTENDS GenVectorProofs

(***************************************************************************)
(* Lemmas on the outcome of one overload index.                            *)
(***************************************************************************)

(* An outcome of gen_proto_str_1 that is neither a raise nor a skip is the *)
(* overload record, whose name is the prototype's and whose lanes are     *)
(* negated exactly under the relational prefix.                            *)
LEMMA OutcomeNegate ==
  ASSUME NEW proto, NEW pfx, NEW pt, NEW vt,
         ProtoOutcome(proto, pfx, pt, vt) \notin {Fail, Skip}
  PROVE  /\ ProtoOutcome(proto, pfx, pt, vt).name = proto.name
         /\ ProtoOutcome(proto, pfx, pt, vt).negate <=>
              pfx = "relational" /\ proto.name \notin {"bitselect", "select"}
<1> DEFINE N == Len(pt)
           failed(n) == pt[n] = Fail \/ vt[n] = Fail
           stops(n) == \/ failed(n)
                       \/ "double" \in {pt[n].base, vt[n].base}
                       \/ vt[n].width = 1
           St == {n \in 1 .. N : stops(n)}
           laneMismatch == \E n \in 1 .. N : /\ vt[n].width # pt[n].width
                                             /\ pt[n].width # 1
<1>1. N # 0 /\ St = {} /\ ~laneMismatch
  BY DEF ProtoOutcome
<1> QED  BY <1>1 DEF ProtoOutcome

(* An overload gen_proto_str yields for a line is the record of           *)
(* OutcomeNegate: a line that raises at no index yields no raise.          *)
LEMMA GenProtoNegate ==
  ASSUME NEW toks, NEW pfx, NEW k,
         gen_proto_str(toks, pfx) # Fail,
         k \in DOMAIN gen_proto_str(toks, pfx),
         gen_proto_str(toks, pfx)[k] # Skip
  PROVE  gen_proto_str(toks, pfx)[k].negate <=>
           /\ pfx = "relational"
           /\ gen_proto_str(toks, pfx)[k].name \notin {"select", "bitselect"}
<1> DEFINE proto == Parse(toks, pfx)
           vS == type_dict[proto.ret]
           pSs == [n \in DOMAIN proto.params |->
                     set_vector_memspace(type_dict[proto.params[n].cls],
                                         proto.params[n].mem)]
           outs == [j \in 1 .. OverloadCount(proto) |->
                      gen_proto_str_1(proto, pfx, vS, pSs, j - 1)]
<1>1. /\ gen_proto_str(toks, pfx) = outs
      /\ \A j \in DOMAIN outs : outs[j] # Fail
  BY Zenon DEF gen_proto_str, AllOrFail
<1>2. k \in 1 .. OverloadCount(proto) /\ outs[k] # Skip /\ outs[k] # Fail
  BY <1>1, Zenon
<1>3. outs[k] = ProtoOutcome(proto, pfx,
                  [n \in DOMAIN pSs |-> fixup_type(pSs[n], vS, k - 1)],
                  [n \in DOMAIN pSs |-> fixup_type(vS, pSs[n], k - 1)])
  BY <1>2, Zenon DEF gen_proto_str_1
<1>4. /\ outs[k].name = proto.name
      /\ outs[k].negate <=> pfx = "relational" /\ proto.name \notin {"bitselect", "select"}
  BY <1>2, <1>3, OutcomeNegate
<1> QED  BY <1>1, <1>4

(***************************************************************************)
(* Lemmas on SectionAt, the prefix of the last '##' line before a line.    *)
(***************************************************************************)

(* A line that is not a non-empty '##' line leaves the section as it was. *)
LEMMA SectionAtSkip ==
  ASSUME NEW f \in Seq(Line), NEW l \in 1 .. Len(f),
         ~(f[l].kind = "section" /\ f[l].words # << >>)
  PROVE  SectionAt(f, l + 1) = SectionAt(f, l)
<1>1. {j \in 1 .. (l + 1) - 1 : f[j].kind = "section" /\ f[j].words # << >>}
        = {j \in 1 .. l - 1 : f[j].kind = "section" /\ f[j].words # << >>}
  OBVIOUS
<1> QED  BY <1>1 DEF SectionAt

(* A non-empty '##' line makes its first word the section.                 *)
LEMMA SectionAtSection ==
  ASSUME NEW f \in Seq(Line), NEW l \in 1 .. Len(f),
         f[l].kind = "section", f[l].words # << >>
  PROVE  SectionAt(f, l + 1) = f[l].words[1]
<1> DEFINE S == {j \in 1 .. (l + 1) - 1 : f[j].kind = "section" /\ f[j].words # << >>}
<1>1. S \in SUBSET (0 .. l) /\ l \in S /\ l \in Nat
  OBVIOUS
<1>2. Largest(S) \in S /\ \A x \in S : x <= Largest(S)
  BY <1>1, LargestOfBounded
<1>3. Largest(S) = l
  BY <1>1, <1>2
<1>4. S # {}
  BY <1>1
<1> QED  BY <1>3, <1>4 DEF SectionAt

(***************************************************************************)
(* The inductive invariant.  Once a '##' line is read, sectionPrefix is   *)
(* the first word of the last one, never "" (split() yields no empty       *)
(* word), so functionProto.init always takes it over the kept prefix; and *)
(* every chunk in the temporary file is gen_proto_str of its line under    *)
(* the section of that line, which did not raise.                          *)
(***************************************************************************)
ChunksUnderSection(w) ==
  \A c \in DOMAIN w.chunks :
    /\ w.chunks[c].outs = gen_proto_str(file[w.chunks[c].line].toks,
                                        SectionAt(file, w.chunks[c].line))
    /\ w.chunks[c].outs # Fail

SecInv ==
  /\ bound => /\ sectionPrefix = SectionAt(file, line)
              /\ sectionPrefix # ""
  /\ temp # Absent => ChunksUnderSection(temp)

NInv == IInv /\ SecInv

(* The generator starts in a state of the invariant.                       *)
LEMMA InitNInv == Init => NInv
<1> SUFFICES ASSUME Init PROVE SecInv
  BY InitIInv DEF NInv
<1>1. ~bound /\ temp \in {Absent, Written(<< >>)}
  BY DEF Init
<1>2. ChunksUnderSection(Written(<< >>))
  BY DEF ChunksUnderSection, Written
<1> QED  BY <1>1, <1>2 DEF SecInv

(* A non-empty '##' line has a first word, and it is not "".               *)
LEMMA FirstWord ==
  ASSUME NEW l \in 1 .. Len(file), file \in SpecFiles,
         file[l].kind = "section", file[l].words # << >>
  PROVE  file[l].words[1] # ""
<1>1. file \in Seq(Line) /\ file[l] \in Line
  BY SpecFilesAssumption
<1>2. file[l].words \in Seq(STRING)
  BY <1>1, LineFields
<1>3. 1 \in DOMAIN file[l].words /\ l \in DOMAIN file
  BY <1>1, <1>2
<1> QED  BY <1>3, SectionWordsAssumption

(* Every step of the generator preserves the invariant.                    *)
LEMMA NextNInv == NInv /\ [Next]_vars => NInv'
<1> SUFFICES ASSUME NInv, [Next]_vars PROVE SecInv'
  BY NextIInv DEF NInv
<1>1. file \in Seq(Line) /\ file \in SpecFiles /\ line \in 1 .. Len(file) + 1
  BY SpecFilesAssumption DEF NInv, IInv, TypeOK
<1>0. UNCHANGED <<file, temp>> => (ChunksUnderSection(temp)' = ChunksUnderSection(temp))
  BY DEF ChunksUnderSection
<1>2. CASE Start
  <2>1. temp' = Written(<< >>) /\ UNCHANGED <<file, line, bound, sectionPrefix>>
    BY <1>2 DEF Start
  <2>2. ChunksUnderSection(Written(<< >>))'
    BY <2>1 DEF ChunksUnderSection, Written
  <2> QED  BY <2>1, <2>2 DEF NInv, SecInv
<1>3. CASE SkipLine
  <2>1. /\ line <= Len(file) /\ file[line].kind \in {"blank", "comment"}
        /\ line' = line + 1
        /\ UNCHANGED <<file, bound, sectionPrefix, temp>>
    BY <1>3 DEF SkipLine, ReadLine
  <2>2. SectionAt(file, line + 1) = SectionAt(file, line)
    BY <1>1, <2>1, SectionAtSkip
  <2> QED  BY <1>0, <2>1, <2>2 DEF NInv, SecInv
<1>4. CASE SectionLine
  <2>1. /\ line <= Len(file) /\ file[line].kind = "section"
        /\ file[line].words # << >>
        /\ bound' /\ sectionPrefix' = file[line].words[1]
        /\ line' = line + 1
        /\ UNCHANGED <<file, temp>>
    BY <1>4 DEF SectionLine, ReadLine
  <2>2. SectionAt(file, line + 1) = file[line].words[1]
    BY <1>1, <2>1, SectionAtSection
  <2>3. file[line].words[1] # ""
    <3>1. line \in 1 .. Len(file)
      BY <1>1, <2>1
    <3> QED  BY <1>1, <2>1, <3>1, FirstWord
  <2>4. SectionAt(file, line)' = SectionAt(file, line + 1)
    BY <2>1
  <2> QED  BY <1>0, <2>1, <2>2, <2>3, <2>4 DEF NInv, SecInv
<1>5. CASE SectionLineEmpty \/ ProtoLineUnbound \/ ProtoLineFails \/ Kill
  <2>1. UNCHANGED <<file, line, bound, sectionPrefix, temp>>
    BY <1>5 DEF SectionLineEmpty, ProtoLineUnbound, ProtoLineFails, Kill, Abort
  <2> QED  BY <1>0, <2>1 DEF NInv, SecInv
<1>6. CASE ProtoLine
  <2> DEFINE ch == [line |-> line, header |-> sectionHeader, outs |-> LineOuts]
             tc == temp.chunks
  <2>1. /\ pc = "loop" /\ line <= Len(file) /\ file[line].kind = "proto"
        /\ bound /\ LineOuts # Fail /\ line' = line + 1
        /\ temp' = Written(Append(tc, ch))
        /\ UNCHANGED <<file, bound, sectionPrefix>>
    BY <1>6 DEF ProtoLine, ReadLine
  <2>2. tc \in Seq(Chunk) /\ temp # Absent
    BY <2>1 DEF NInv, IInv, TypeOK, Absent
  <2>3. SectionAt(file, line + 1) = SectionAt(file, line)
    BY <1>1, <2>1, SectionAtSkip
  <2>4. NewPrefix = SectionAt(file, line)
    BY <2>1 DEF NewPrefix, NInv, SecInv
  <2>5. /\ ch.outs = gen_proto_str(file[ch.line].toks, SectionAt(file, ch.line))
        /\ ch.outs # Fail
    BY <2>1, <2>4 DEF LineOuts
  <2>6. ChunksUnderSection(temp)
    BY <2>2 DEF NInv, SecInv
  <2>7. ChunksUnderSection(Written(Append(tc, ch)))
    <3>1. /\ DOMAIN Append(tc, ch) = DOMAIN tc \cup {Len(tc) + 1}
          /\ Append(tc, ch)[Len(tc) + 1] = ch
          /\ \A c \in DOMAIN tc : Append(tc, ch)[c] = tc[c]
      BY <2>2
    <3> SUFFICES ASSUME NEW c \in DOMAIN Append(tc, ch)
                 PROVE  /\ Append(tc, ch)[c].outs =
                             gen_proto_str(file[Append(tc, ch)[c].line].toks,
                                           SectionAt(file, Append(tc, ch)[c].line))
                        /\ Append(tc, ch)[c].outs # Fail
      BY DEF ChunksUnderSection, Written
    <3>2. CASE c \in DOMAIN tc
      BY <2>6, <3>1, <3>2 DEF ChunksUnderSection, tc
    <3>3. CASE c = Len(tc) + 1
      BY <2>5, <3>1, <3>3
    <3> QED  BY <3>1, <3>2, <3>3
  <2>8. ChunksUnderSection(temp)'
    BY <2>1, <2>7 DEF ChunksUnderSection
  <2> QED  BY <2>1, <2>3, <2>8 DEF NInv, SecInv
<1>7. CASE Finish
  <2>1. temp' = Absent /\ UNCHANGED <<file, line, bound, sectionPrefix>>
    BY <1>7 DEF Finish
  <2> QED  BY <2>1 DEF NInv, SecInv
<1>8. CASE UNCHANGED vars
  BY <1>8 DEF vars, NInv, SecInv, ChunksUnderSection
<1> QED  BY <1>2, <1>3, <1>4, <1>5, <1>6, <1>7, <1>8 DEF Next

(* The invariant gives the property.                                       *)
LEMMA NInvNegation == NInv => NegationFollowsSection
<1> SUFFICES ASSUME NInv, temp \notin {Absent}, NEW p \in Places(temp)
             PROVE  Ov(temp, p).negate <=>
                      /\ SectionAt(file, temp.chunks[p[1]].line) = "relational"
                      /\ Ov(temp, p).name \notin {"select", "bitselect"}
  BY DEF NegationFollowsSection
<1>1. temp.chunks \in Seq(Chunk)
  BY DEF NInv, IInv, TypeOK, Absent
<1>2. PICK c \in DOMAIN temp.chunks :
        \E k \in DOMAIN temp.chunks[c].outs : temp.chunks[c].outs[k] # Skip /\ p = <<c, k>>
  BY DEF Places
<1>3. PICK k \in DOMAIN temp.chunks[c].outs : temp.chunks[c].outs[k] # Skip /\ p = <<c, k>>
  BY <1>2
<1> DEFINE o == gen_proto_str(file[temp.chunks[c].line].toks, SectionAt(file, temp.chunks[c].line))
<1>4. temp.chunks[c].outs = o
  BY DEF NInv, SecInv, ChunksUnderSection
<1>6. o # Fail
  BY <1>4 DEF NInv, SecInv, ChunksUnderSection
<1>7. o[k].negate <=> /\ SectionAt(file, temp.chunks[c].line) = "relational"
                      /\ o[k].name \notin {"select", "bitselect"}
  BY <1>3, <1>4, <1>6, GenProtoNegate
<1> QED  BY <1>3, <1>4, <1>7 DEF Ov

(* Every overload the generator writes negates its lane results exactly   *)
(* when its line comes after a '##relational' line, with no other '##'     *)
(* line in between, and the function is neither select nor bitselect, for *)
(* every spec file: the misspelt setionPrefix of line 378 leaves           *)
(* sectionPrefix in force, but it always holds the last section's word.    *)
THEOREM NegationCorrect == Spec => []NegationFollowsSection
<1>1. Init => NInv
  BY InitNInv
<1>2. NInv /\ [Next]_vars => NInv'
  BY NextNInv
<1>3. NInv => NegationFollowsSection
  BY NInvNegation
<1> QED  BY <1>1, <1>2, <1>3, PTL DEF Spec

=============================================================================
