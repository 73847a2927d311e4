--------------------------- MODULE BlobHeaderProofs ---------------------------
(***************************************************************************)
(* Proofs about the header-blob assembler, for every set of templates and *)
(* segment headers: its states are well typed, a blob it publishes is the *)
(* expansion of its template (BlobIsExpansion), and it implements the     *)
(* one-step publish of BlobPublish under the mapping RunOf (BlobRefines). *)
(*                                                                         *)
(* The reference expansion is defined over positions by two recursive     *)
(* functions, Opens and ExpandTo.  The first part of the module shows     *)
(* that each is a fixed point of its defining equation; the second, what *)
(* one line of the template does to the regions open at it; the third is *)
(* the loop invariant of update_blob_ocl_header.py's copy loop.            *)
(***************************************************************************)
EXTENDS BlobHeader, TLAPS, SequenceTheorems, WellFoundedInduction

(***************************************************************************)
(* Part 1.  Least elements, RegionEnd, and the recursive definitions.      *)
(***************************************************************************)

(* A non-empty set of naturals has a least element.                        *)
LEMMA LeastNat ==
  ASSUME NEW T \in SUBSET Nat, T # {}
  PROVE  \E x \in T : \A y \in T : x <= y
<1>1. \E x \in T : \A y \in T : ~(<<y, x>> \in OpToRel(<, Nat))
  BY NatLessThanWellFounded, WFMin
<1>2. \A x, y \in Nat : ~(<<y, x>> \in OpToRel(<, Nat)) => x <= y
  <2> SUFFICES ASSUME NEW x \in Nat, NEW y \in Nat, ~(x <= y)
               PROVE  <<y, x>> \in OpToRel(<, Nat)
    OBVIOUS
  <2>1. <<y, x>> \in Nat \X Nat /\ <<y, x>>[1] < <<y, x>>[2]
    OBVIOUS
  <2> QED  BY <2>1, Zenon DEF OpToRel
<1> QED  BY <1>1, <1>2

(* The region of the line at b ends at the first END line of its segment  *)
(* after b, or one past the template when there is none.                   *)
LEMMA RegionEndFacts ==
  ASSUME NEW t \in Seq(TLine), NEW b \in 1 .. Len(t)
  PROVE  /\ RegionEnd(t, b) \in b + 1 .. Len(t) + 1
         /\ \A e \in b + 1 .. RegionEnd(t, b) - 1 : t[e] # End(t[b].seg)
         /\ RegionEnd(t, b) <= Len(t) => t[RegionEnd(t, b)] = End(t[b].seg)
<1> DEFINE E == {e \in b + 1 .. Len(t) : t[e] = End(t[b].seg)}
<1>1. CASE E = {}
  <2>1. RegionEnd(t, b) = Len(t) + 1
    BY <1>1 DEF RegionEnd
  <2> QED  BY <1>1, <2>1
<1>2. CASE E # {}
  <2>0. E \in SUBSET Nat
    OBVIOUS
  <2>1. \E x \in E : \A y \in E : x <= y
    BY <1>2, <2>0, LeastNat
  <2>2. RegionEnd(t, b) \in E /\ \A y \in E : RegionEnd(t, b) <= y
    BY <1>2, <2>1 DEF RegionEnd
  <2> QED  BY <2>2
<1> QED  BY <1>1, <1>2

(* The defining equation of Opens, as a body over a candidate function.    *)
OBody(t, O, b) ==
  /\ t[b].kind = "begin"
  /\ ~ \E a \in 1 .. b - 1 : O[a] /\ b < RegionEnd(t, a)

(* A function on 1 .. m that satisfies the equation at every point.        *)
OGood(t, G, m) ==
  /\ G \in [1 .. m -> BOOLEAN]
  /\ \A b \in 1 .. m : G[b] = OBody(t, G, b)

(* The body at b reads the function below b only.                          *)
LEMMA OBodyLocal ==
  ASSUME NEW t, NEW G, NEW H, NEW b \in Nat,
         \A a \in 1 .. b - 1 : G[a] = H[a]
  PROVE  OBody(t, G, b) = OBody(t, H, b)
BY DEF OBody

(* Every prefix of the template has a solution of the equation.            *)
LEMMA OpensExist ==
  ASSUME NEW t \in Seq(TLine)
  PROVE  \E G : OGood(t, G, Len(t))
<1> DEFINE T == {m \in 0 .. Len(t) : ~ \E G : OGood(t, G, m)}
<1>0. Len(t) \in 0 .. Len(t) /\ T \in SUBSET Nat
  OBVIOUS
<1> SUFFICES T = {}
  BY <1>0, Zenon
<1>1. SUFFICES ASSUME T # {} PROVE FALSE
  OBVIOUS
<1>2. PICK m \in T : \A y \in T : m <= y
  BY <1>0, <1>1, LeastNat
<1>3. m # 0 /\ m \in 1 .. Len(t)
  <2>1. OGood(t, [b \in 1 .. 0 |-> TRUE], 0)
    BY DEF OGood
  <2> QED  BY <2>1, <1>2
<1>4. PICK G : OGood(t, G, m - 1)
  <2>1. m - 1 \in 0 .. Len(t) /\ m - 1 < m
    BY <1>2, <1>3
  <2>2. m - 1 \notin T
    BY <1>2, <2>1
  <2> QED  BY <2>1, <2>2
<1> DEFINE G2 == [b \in 1 .. m |-> IF b < m THEN G[b] ELSE OBody(t, G, m)]
<1>5. \A b \in 1 .. m : OBody(t, G2, b) = OBody(t, G, b)
  <2> SUFFICES ASSUME NEW b \in 1 .. m PROVE OBody(t, G2, b) = OBody(t, G, b)
    OBVIOUS
  <2>1. \A a \in 1 .. b - 1 : G2[a] = G[a]
    BY <1>2
  <2> QED  BY <2>1, OBodyLocal
<1>6. OGood(t, G2, m)
  <2>1. G2 \in [1 .. m -> BOOLEAN]
    <3>1. \A b \in 1 .. m - 1 : G[b] \in BOOLEAN
      BY <1>4 DEF OGood
    <3>2. OBody(t, G, m) \in BOOLEAN
      BY Zenon DEF OBody
    <3> QED  BY <3>1, <3>2, <1>3
  <2>2. \A b \in 1 .. m : G2[b] = OBody(t, G2, b)
    BY <1>4, <1>5 DEF OGood
  <2> QED  BY <2>1, <2>2 DEF OGood
<1> QED  BY <1>2, <1>6

(* Opens satisfies its defining equation.                                  *)
LEMMA OpensFix ==
  ASSUME NEW t \in Seq(TLine)
  PROVE  \A b \in 1 .. Len(t) : Opens(t)[b] = OBody(t, Opens(t), b)
<1>1. PICK G : OGood(t, G, Len(t))
  BY OpensExist
<1>2. G = [b \in 1 .. Len(t) |-> OBody(t, G, b)]
  BY <1>1 DEF OGood
<1>3. \E O : O = [b \in 1 .. Len(t) |-> OBody(t, O, b)]
  BY <1>2
<1>4. Opens(t) = [b \in 1 .. Len(t) |-> OBody(t, Opens(t), b)]
  BY <1>3 DEF Opens, OBody
<1> QED  BY <1>4

(* A line opens a region exactly when it is a BEGIN line inside no region. *)
LEMMA OpenerIff ==
  ASSUME NEW t \in Seq(TLine), NEW k \in 1 .. Len(t)
  PROVE  k \in Openers(t) <=> t[k].kind = "begin" /\ ~Inside(t, k)
<1>1. Opens(t)[k] = OBody(t, Opens(t), k)
  BY OpensFix
<1>2. (\E a \in 1 .. k - 1 : Opens(t)[a] /\ k < RegionEnd(t, a))
        <=> Inside(t, k)
  BY DEF Inside, Openers
<1> QED  BY <1>1, <1>2 DEF Openers, OBody

(* The defining equation of ExpandTo.                                      *)
EBody(t, fl, E, m) == IF m = 0 THEN << >> ELSE E[m - 1] \o Piece(t, fl, m)

EGood(t, fl, G, m) ==
  /\ DOMAIN G = 0 .. m
  /\ \A j \in 0 .. m : G[j] = EBody(t, fl, G, j)

LEMMA ExpandExist ==
  ASSUME NEW t \in Seq(TLine), NEW fl
  PROVE  \E G : EGood(t, fl, G, Len(t))
<1> DEFINE T == {m \in 0 .. Len(t) : ~ \E G : EGood(t, fl, G, m)}
<1>0. Len(t) \in 0 .. Len(t) /\ T \in SUBSET Nat
  OBVIOUS
<1> SUFFICES T = {}
  BY <1>0, Zenon
<1>1. SUFFICES ASSUME T # {} PROVE FALSE
  OBVIOUS
<1>2. PICK m \in T : \A y \in T : m <= y
  BY <1>0, <1>1, LeastNat
<1>3. m # 0 /\ m \in 1 .. Len(t)
  <2>1. EGood(t, fl, [j \in 0 .. 0 |-> << >>], 0)
    BY DEF EGood, EBody
  <2> QED  BY <2>1, <1>2
<1>4. PICK G : EGood(t, fl, G, m - 1)
  <2>1. m - 1 \in 0 .. Len(t) /\ m - 1 < m
    BY <1>2, <1>3
  <2>2. m - 1 \notin T
    BY <1>2, <2>1
  <2> QED  BY <2>1, <2>2
<1> DEFINE G2 == [j \in 0 .. m |-> IF j < m THEN G[j] ELSE G[m - 1] \o Piece(t, fl, m)]
<1>5. EGood(t, fl, G2, m)
  <2>1. DOMAIN G2 = 0 .. m
    OBVIOUS
  <2>2. ASSUME NEW j \in 0 .. m PROVE G2[j] = EBody(t, fl, G2, j)
    <3>1. CASE j = 0
      BY <1>4, <3>1, <1>3 DEF EGood, EBody
    <3>2. CASE j # 0 /\ j < m
      <4>1. G2[j - 1] = G[j - 1] /\ G2[j] = G[j]
        BY <3>2, <1>3
      <4>2. G[j] = EBody(t, fl, G, j)
        <5>1. j \in 0 .. m - 1
          BY <3>2, <1>3
        <5> QED  BY <5>1, <1>4 DEF EGood
      <4>3. G[j] = G[j - 1] \o Piece(t, fl, j)
        BY <4>2, <3>2 DEF EBody
      <4> QED  BY <3>2, <4>1, <4>3 DEF EBody
    <3>3. CASE j = m
      <4>1. G2[m - 1] = G[m - 1]
        BY <1>3
      <4>2. G2[m] = G[m - 1] \o Piece(t, fl, m)
        BY <1>3
      <4> QED  BY <1>3, <3>3, <4>1, <4>2 DEF EBody
    <3> QED  BY <3>1, <3>2, <3>3
  <2> QED  BY <2>1, <2>2 DEF EGood
<1> QED  BY <1>2, <1>5

(* ExpandTo satisfies its defining equation: the expansion of the first m *)
(* lines is that of the first m - 1 followed by the piece of line m.       *)
LEMMA ExpandFix ==
  ASSUME NEW t \in Seq(TLine), NEW fl
  PROVE  /\ ExpandTo(t, fl)[0] = << >>
         /\ \A m \in 1 .. Len(t) :
              ExpandTo(t, fl)[m] = ExpandTo(t, fl)[m - 1] \o Piece(t, fl, m)
<1>1. PICK G : EGood(t, fl, G, Len(t))
  BY ExpandExist
<1>2. G = [m \in 0 .. Len(t) |-> EBody(t, fl, G, m)]
  BY <1>1 DEF EGood
<1>3. \E E : E = [m \in 0 .. Len(t) |-> EBody(t, fl, E, m)]
  BY <1>2
<1>4. ExpandTo(t, fl) = [m \in 0 .. Len(t) |-> EBody(t, fl, ExpandTo(t, fl), m)]
  BY <1>3 DEF ExpandTo, EBody
<1>5. ExpandTo(t, fl)[0] = << >>
  <2>1. 0 \in 0 .. Len(t)
    OBVIOUS
  <2> QED  BY <1>4, <2>1 DEF EBody
<1>6. ASSUME NEW m \in 1 .. Len(t)
      PROVE  ExpandTo(t, fl)[m] = ExpandTo(t, fl)[m - 1] \o Piece(t, fl, m)
  <2>1. m \in 0 .. Len(t) /\ m # 0
    OBVIOUS
  <2> QED  BY <1>4, <2>1 DEF EBody
<1> QED  BY <1>5, <1>6

(***************************************************************************)
(* Part 2.  The regions of a template.  A region is open at line k when   *)
(* its BEGIN line is before k and its END line, if any, is at k or after: *)
(* the copy loop is then waiting for that END line (matched_header).       *)
(***************************************************************************)
Open(t, b, k) == b \in Openers(t) /\ b < k /\ k <= RegionEnd(t, b)

(* A line that opens a region is a BEGIN line of the template.             *)
LEMMA OpenerIsBegin ==
  ASSUME NEW t \in Seq(TLine), NEW b \in Openers(t)
  PROVE  b \in 1 .. Len(t) /\ t[b].kind = "begin"
<1>1. b \in 1 .. Len(t)
  BY DEF Openers
<1> QED  BY <1>1, OpenerIff

(* Regions do not overlap: a later opener comes after an earlier one's END *)
(* line, since it is not inside that region and is not itself an END line. *)
LEMMA OpenersDisjoint ==
  ASSUME NEW t \in Seq(TLine), NEW a \in Openers(t), NEW b \in Openers(t), a < b
  PROVE  RegionEnd(t, a) < b
<1>1. a \in 1 .. Len(t) /\ b \in 1 .. Len(t) /\ t[b].kind = "begin"
  BY OpenerIsBegin
<1>2. ~Inside(t, b)
  BY <1>1, OpenerIff
<1>4. RegionEnd(t, a) \in a + 1 .. Len(t) + 1
      /\ (RegionEnd(t, a) <= Len(t) => t[RegionEnd(t, a)] = End(t[a].seg))
  BY <1>1, RegionEndFacts
<1>3. RegionEnd(t, a) <= b
  BY <1>1, <1>2, <1>4 DEF Inside
<1>5. RegionEnd(t, a) # b
  BY <1>1, <1>4 DEF End
<1> QED  BY <1>1, <1>3, <1>4, <1>5

(* At most one region is open at a line.                                   *)
LEMMA OpenUnique ==
  ASSUME NEW t \in Seq(TLine), NEW k \in Int, NEW a, NEW b,
         Open(t, a, k), Open(t, b, k)
  PROVE  a = b
<1>1. a \in 1 .. Len(t) /\ b \in 1 .. Len(t)
  BY DEF Open, Openers
<1>2. RegionEnd(t, a) \in Int /\ RegionEnd(t, b) \in Int
  BY <1>1, RegionEndFacts
<1>3. ~(a < b)
  BY <1>1, <1>2, OpenersDisjoint DEF Open
<1>4. ~(b < a)
  BY <1>1, <1>2, OpenersDisjoint DEF Open
<1> QED  BY <1>1, <1>3, <1>4

(* Line k when no region is open at it (matched_header = ""): it is kept, *)
(* and it opens a region exactly when it is a BEGIN line.                  *)
LEMMA NoOpenStep ==
  ASSUME NEW t \in Seq(TLine), NEW k \in 1 .. Len(t),
         ~\E b \in 1 .. Len(t) : Open(t, b, k)
  PROVE  /\ ~Inside(t, k)
         /\ t[k].kind = "begin" => k \in Openers(t) /\ Open(t, k, k + 1)
         /\ t[k].kind # "begin" =>
              /\ k \notin Openers(t)
              /\ ~\E b \in 1 .. Len(t) : Open(t, b, k + 1)
<1>1. ~Inside(t, k)
  <2> SUFFICES ASSUME NEW b \in Openers(t), b < k, k < RegionEnd(t, b)
               PROVE  FALSE
    BY DEF Inside
  <2>1. b \in 1 .. Len(t)
    BY DEF Openers
  <2>2. RegionEnd(t, b) \in Int
    BY <2>1, RegionEndFacts
  <2> QED  BY <2>1, <2>2 DEF Open
<1>2. ASSUME t[k].kind = "begin" PROVE k \in Openers(t) /\ Open(t, k, k + 1)
  <2>1. k \in Openers(t)
    BY <1>1, <1>2, OpenerIff
  <2>2. RegionEnd(t, k) \in k + 1 .. Len(t) + 1
    BY RegionEndFacts
  <2> QED  BY <2>1, <2>2 DEF Open
<1>3. ASSUME t[k].kind # "begin"
      PROVE  /\ k \notin Openers(t)
             /\ ~\E b \in 1 .. Len(t) : Open(t, b, k + 1)
  <2>1. k \notin Openers(t)
    BY <1>3, OpenerIsBegin
  <2>2. SUFFICES ASSUME NEW b \in 1 .. Len(t), Open(t, b, k + 1) PROVE FALSE
    BY <2>1
  <2>3. b # k
    BY <2>1, <2>2 DEF Open
  <2>4. RegionEnd(t, b) \in Int
    BY RegionEndFacts
  <2> QED  BY <2>2, <2>3, <2>4 DEF Open
<1> QED  BY <1>1, <1>2, <1>3

(* Line k while the region of b is open at it (matched_header is b's      *)
(* segment): its END line closes the region and is kept; any other line   *)
(* is inside the region, is dropped, and leaves the region open.           *)
LEMMA OpenStep ==
  ASSUME NEW t \in Seq(TLine), NEW k \in 1 .. Len(t), NEW b \in 1 .. Len(t),
         Open(t, b, k)
  PROVE  /\ t[k] = End(t[b].seg) =>
              /\ ~Inside(t, k)
              /\ ~\E a \in 1 .. Len(t) : Open(t, a, k + 1)
         /\ t[k] # End(t[b].seg) =>
              /\ Inside(t, k)
              /\ k \notin Openers(t)
              /\ Open(t, b, k + 1)
<1>1. /\ RegionEnd(t, b) \in b + 1 .. Len(t) + 1
      /\ \A e \in b + 1 .. RegionEnd(t, b) - 1 : t[e] # End(t[b].seg)
      /\ RegionEnd(t, b) <= Len(t) => t[RegionEnd(t, b)] = End(t[b].seg)
  BY RegionEndFacts
<1>2. ASSUME t[k] = End(t[b].seg)
      PROVE  /\ ~Inside(t, k)
             /\ ~\E a \in 1 .. Len(t) : Open(t, a, k + 1)
  <2>1. k = RegionEnd(t, b)
    BY <1>1, <1>2 DEF Open
  <2>2. ~Inside(t, k)
    <3> SUFFICES ASSUME NEW a \in Openers(t), a < k, k < RegionEnd(t, a)
                 PROVE  FALSE
      BY DEF Inside
    <3>0. a \in 1 .. Len(t)
      BY DEF Openers
    <3>1. Open(t, a, k)
      BY <3>0, RegionEndFacts DEF Open
    <3>2. a = b
      BY <3>1, OpenUnique
    <3> QED  BY <2>1, <3>2
  <2>3. ~\E a \in 1 .. Len(t) : Open(t, a, k + 1)
    <3> SUFFICES ASSUME NEW a \in 1 .. Len(t), Open(t, a, k + 1) PROVE FALSE
      OBVIOUS
    <3>1. t[k].kind # "begin"
      BY <1>2 DEF End
    <3>2. a # k
      BY <3>1, OpenerIsBegin DEF Open
    <3>3. Open(t, a, k)
      BY <3>2, RegionEndFacts DEF Open
    <3>4. a = b
      BY <3>3, OpenUnique
    <3> QED  BY <2>1, <3>4 DEF Open
  <2> QED  BY <2>2, <2>3
<1>3. ASSUME t[k] # End(t[b].seg)
      PROVE  /\ Inside(t, k)
             /\ k \notin Openers(t)
             /\ Open(t, b, k + 1)
  <2>1. k < RegionEnd(t, b)
    BY <1>1, <1>3 DEF Open
  <2>2. Inside(t, k)
    BY <2>1 DEF Open, Inside
  <2>3. k \notin Openers(t)
    BY <2>2, OpenerIff
  <2> QED  BY <1>1, <2>1, <2>2, <2>3 DEF Open
<1> QED  BY <1>2, <1>3

(***************************************************************************)
(* Part 3.  The loop invariant of the copy loop (lines 45-61).  While the  *)
(* loop runs, the temporary file holds the expansion of the lines read so *)
(* far; matched_header names the segment of the region open at the next  *)
(* line, or is "" when none is; and every region opened so far had its    *)
(* generated header.  Before the loop the blob found is still there or    *)
(* unlinked; after the rename the blob is the full expansion.              *)
(***************************************************************************)
LoopInv ==
  /\ temp = Written(ExpandTo(tmpl, frag)[line - 1])
  /\ matched_header = NoSeg <=> ~\E b \in 1 .. Len(tmpl) : Open(tmpl, b, line)
  /\ matched_header # NoSeg =>
       \E b \in 1 .. Len(tmpl) : Open(tmpl, b, line) /\ tmpl[b].seg = matched_header
  /\ \A b \in Openers(tmpl) : b < line => frag[tmpl[b].seg] # Missing

IInv ==
  /\ TypeOK
  /\ pc = "start" => line = 1 /\ matched_header = NoSeg
  /\ pc \in {"start", "loop", "aborted"} => blob \in {Absent, Prior}
  /\ pc = "loop" => LoopInv
  /\ pc = "done" => blob = Written(Expand(tmpl, frag))

(* The body of a generated header is a sequence of blob lines.             *)
LEMMA FragBodyType ==
  ASSUME NEW h \in Segs, NEW len \in Nat
  PROVE  FragBody(h, len) \in Seq(BLine)
<1>1. \A k \in 1 .. len - 2 : [seg |-> h, n |-> k + 2] \in BLine
  BY DEF BLine
<1>2. CASE len >= 2
  <2>1. len - 2 \in Nat
    BY <1>2
  <2> QED  BY <1>1, <2>1 DEF FragBody
<1>3. CASE len < 2
  <2>1. 1 .. len - 2 = 1 .. 0
    BY <1>3
  <2> QED  BY <2>1 DEF FragBody
<1> QED  BY <1>2, <1>3

(* A line appended, then a sequence: the line followed by the sequence.  *)
LEMMA AppendConcat ==
  ASSUME NEW s \in Seq(BLine), NEW e \in BLine, NEW u \in Seq(BLine)
  PROVE  Append(s, e) \o u = s \o (<< e >> \o u)
<1>1. << e >> \in Seq(BLine)
  OBVIOUS
<1>2. Append(s, e) = s \o << e >>
  BY AppendIsConcat
<1> QED  BY <1>1, <1>2, ConcatAssociative

(* The segment names are not the empty string of matched_header = "".      *)
LEMMA SegsNotNoSeg == NoSeg \notin Segs
<1>1. Segs = {"vector", "as", "convert", "common_defines"}
  <2>1. 1 .. Len(header_segments) = {1, 2, 3, 4}
    BY DEF header_segments
  <2> QED  BY <2>1 DEF Segs, header_segments
<1> QED  BY <1>1 DEF NoSeg

LEMMA InitIInv == Init => IInv
<1> SUFFICES ASSUME Init PROVE IInv
  OBVIOUS
<1>1. tmpl \in Seq(TLine)
  BY BlobAssumption DEF Init
<1>2. Written(<< >>) \in [lines : Seq(BLine)]
  BY DEF Written
<1>3. TypeOK
  BY <1>1, <1>2 DEF Init, TypeOK
<1> QED  BY <1>3 DEF Init, IInv

(* Each step of the script keeps the invariant: one case per action.       *)
LEMMA NextIInv == IInv /\ [Next]_vars => IInv'
<1> SUFFICES ASSUME IInv, [Next]_vars PROVE IInv'
  OBVIOUS
<1>0. /\ tmpl \in Seq(TLine)
      /\ frag \in [Segs -> FragLengths \cup {Missing}]
      /\ line \in 1 .. Len(tmpl) + 1
      /\ temp \in {Absent} \cup [lines : Seq(BLine)]
  BY BlobAssumption DEF IInv, TypeOK
<1> DEFINE X == ExpandTo(tmpl, frag)
<1>1. CASE Start
  <2>1. X[0] = << >>
    BY <1>0, ExpandFix
  <2>2. ~\E b \in 1 .. Len(tmpl) : Open(tmpl, b, 1)
    BY DEF Open
  <2>3. \A b \in Openers(tmpl) : ~(b < 1)
    BY DEF Openers
  <2>4. line = 1 /\ matched_header = NoSeg
    BY <1>1 DEF Start, IInv
  <2>5. LoopInv'
    BY <1>1, <2>1, <2>2, <2>3, <2>4 DEF Start, LoopInv
  <2>6. TypeOK'
    BY <1>1 DEF Start, IInv, TypeOK, Written
  <2> QED  BY <1>1, <2>5, <2>6 DEF Start, IInv
<1>2. CASE CopyLine
  <2>1. pc = "loop" /\ LoopInv /\ line \in 1 .. Len(tmpl) /\ matched_header = NoSeg
    BY <1>0, <1>2 DEF CopyLine, ReadLine, IInv
  <2>2. ~\E b \in 1 .. Len(tmpl) : Open(tmpl, b, line)
    BY <2>1 DEF LoopInv
  <2>3. /\ ~Inside(tmpl, line)
        /\ line \notin Openers(tmpl)
        /\ ~\E b \in 1 .. Len(tmpl) : Open(tmpl, b, line + 1)
    BY <1>0, <1>2, <2>1, <2>2, NoOpenStep DEF CopyLine
  <2>4. Piece(tmpl, frag, line) = << tmpl[line] >>
    BY <1>2, <2>3 DEF Piece, CopyLine
  <2>5. temp.lines \in Seq(BLine) /\ temp.lines = X[line - 1]
    BY <1>0, <2>1 DEF LoopInv, Written, Absent
  <2>6. tmpl[line] \in BLine
    BY <1>0, <2>1 DEF BLine
  <2>7. X[line] = Append(temp.lines, tmpl[line])
    <3>1. X[line] = X[line - 1] \o << tmpl[line] >>
      BY <1>0, <2>1, <2>4, ExpandFix
    <3> QED  BY <3>1, <2>5, <2>6, AppendIsConcat
  <2>8. LoopInv'
    <3>0. X[line' - 1] = X[line]
      <4>1. line' - 1 = line
        BY <1>0, <1>2, <2>1 DEF CopyLine
      <4> QED  BY <4>1
    <3>1. temp' = Written(X[line' - 1])
      BY <1>2, <2>7, <3>0 DEF CopyLine
    <3>2. \A b \in Openers(tmpl) : b < line + 1 => frag[tmpl[b].seg] # Missing
      BY <2>1, <2>3 DEF LoopInv, Openers
    <3> QED  BY <1>2, <2>1, <2>3, <3>1, <3>2 DEF CopyLine, LoopInv
  <2>9. TypeOK'
    <3>1. Append(temp.lines, tmpl[line]) \in Seq(BLine)
      BY <2>5, <2>6, AppendProperties
    <3> QED  BY <1>2, <2>1, <3>1 DEF CopyLine, IInv, TypeOK, Written
  <2> QED  BY <1>2, <2>1, <2>8, <2>9 DEF CopyLine, IInv
<1>3. CASE BeginSegment
  <2> DEFINE h == tmpl[line].seg
             B == FragBody(h, frag[h])
  <2>1. pc = "loop" /\ LoopInv /\ line \in 1 .. Len(tmpl) /\ matched_header = NoSeg
    BY <1>0, <1>3 DEF BeginSegment, ReadLine, IInv
  <2>2. ~\E b \in 1 .. Len(tmpl) : Open(tmpl, b, line)
    BY <2>1 DEF LoopInv
  <2>3. /\ ~Inside(tmpl, line)
        /\ line \in Openers(tmpl)
        /\ Open(tmpl, line, line + 1)
    BY <1>0, <1>3, <2>1, <2>2, NoOpenStep DEF BeginSegment
  <2>4. Piece(tmpl, frag, line) = << tmpl[line] >> \o B
    BY <1>3, <2>3 DEF Piece, BeginSegment
  <2>5. temp.lines \in Seq(BLine) /\ temp.lines = X[line - 1]
    BY <1>0, <2>1 DEF LoopInv, Written, Absent
  <2>6. tmpl[line] \in BLine /\ h \in Segs
    BY <1>0, <1>3, <2>1 DEF BLine, TLine, BeginSegment
  <2>7. B \in Seq(BLine)
    <3>1. frag[h] \in Nat
      BY <1>0, <1>3, <2>6, BlobAssumption DEF BeginSegment
    <3> QED  BY <2>6, <3>1, FragBodyType
  <2>8. X[line] = Append(temp.lines, tmpl[line]) \o B
    <3>1. X[line] = X[line - 1] \o (<< tmpl[line] >> \o B)
      BY <1>0, <2>1, <2>4, ExpandFix
    <3>2. Append(temp.lines, tmpl[line]) \o B = temp.lines \o (<< tmpl[line] >> \o B)
      BY <2>5, <2>6, <2>7, AppendConcat
    <3> QED  BY <3>1, <3>2, <2>5
  <2>9. LoopInv'
    <3>0. X[line' - 1] = X[line]
      <4>1. line' - 1 = line
        BY <1>0, <1>3, <2>1 DEF BeginSegment
      <4> QED  BY <4>1
    <3>1. temp' = Written(X[line' - 1])
      BY <1>3, <2>8, <3>0 DEF BeginSegment
    <3>2. matched_header' # NoSeg
      BY <1>3, <2>6, SegsNotNoSeg DEF BeginSegment
    <3>3. \A b \in Openers(tmpl) : b < line + 1 => frag[tmpl[b].seg] # Missing
      BY <1>3, <2>1 DEF LoopInv, Openers, BeginSegment
    <3>4. line \in 1 .. Len(tmpl)
      BY <2>1
    <3> QED  BY <1>3, <2>3, <3>1, <3>2, <3>3, <3>4 DEF BeginSegment, LoopInv
  <2>10. TypeOK'
    <3>1. Append(temp.lines, tmpl[line]) \o B \in Seq(BLine)
      BY <2>5, <2>6, <2>7, AppendProperties, ConcatProperties
    <3>2. h \in Segs \cup {NoSeg}
      BY <2>6
    <3>3. line + 1 \in 1 .. Len(tmpl) + 1
      BY <1>0, <2>1
    <3> QED  BY <1>3, <2>1, <3>1, <3>2, <3>3 DEF BeginSegment, IInv, TypeOK, Written
  <2> QED  BY <1>3, <2>1, <2>9, <2>10 DEF BeginSegment, IInv
<1>4. CASE BeginMissing
  <2>1. pc = "loop" /\ LoopInv /\ line \in 1 .. Len(tmpl)
    BY <1>0, <1>4 DEF BeginMissing, ReadLine, IInv
  <2>2. temp.lines \in Seq(BLine) /\ tmpl[line] \in BLine
    <3>1. temp.lines \in Seq(BLine)
      BY <1>0, <2>1 DEF LoopInv, Written, Absent
    <3>2. tmpl[line] \in BLine
      BY <1>0, <2>1 DEF BLine
    <3> QED  BY <3>1, <3>2
  <2>3. Append(temp.lines, tmpl[line]) \in Seq(BLine)
    BY <2>2, AppendProperties
  <2>4. TypeOK'
    BY <1>4, <2>3 DEF BeginMissing, IInv, TypeOK, Written
  <2> QED  BY <1>4, <2>1, <2>4 DEF BeginMissing, IInv
<1>5. CASE RegionLine
  <2>1. pc = "loop" /\ LoopInv /\ line \in 1 .. Len(tmpl) /\ matched_header # NoSeg
    BY <1>0, <1>5 DEF RegionLine, ReadLine, IInv
  <2>2. PICK b \in 1 .. Len(tmpl) : Open(tmpl, b, line) /\ tmpl[b].seg = matched_header
    BY <2>1 DEF LoopInv
  <2>3. temp.lines \in Seq(BLine) /\ temp.lines = X[line - 1]
    BY <1>0, <2>1 DEF LoopInv, Written, Absent
  <2>4. CASE tmpl[line] = End(matched_header)
    <3>1. /\ ~Inside(tmpl, line)
          /\ ~\E a \in 1 .. Len(tmpl) : Open(tmpl, a, line + 1)
      BY <1>0, <2>1, <2>2, <2>4, OpenStep
    <3>2. tmpl[line].kind # "begin" /\ tmpl[line] \in BLine
      BY <1>0, <2>1, <2>4 DEF End, BLine
    <3>3. line \notin Openers(tmpl)
      BY <1>0, <3>2, OpenerIsBegin
    <3>4. Piece(tmpl, frag, line) = << tmpl[line] >>
      BY <3>1, <3>2 DEF Piece
    <3>5. X[line] = Append(temp.lines, tmpl[line])
      <4>1. X[line] = X[line - 1] \o << tmpl[line] >>
        BY <1>0, <2>1, <3>4, ExpandFix
      <4> QED  BY <4>1, <2>3, <3>2, AppendIsConcat
    <3>6. /\ temp' = Written(Append(temp.lines, tmpl[line]))
          /\ matched_header' = NoSeg
      BY <1>5, <2>4 DEF RegionLine
    <3>7. LoopInv'
      <4>1. \A a \in Openers(tmpl) : a < line + 1 => frag[tmpl[a].seg] # Missing
        BY <2>1, <3>3 DEF LoopInv, Openers
      <4>2. temp' = Written(X[line' - 1])
        <5>1. line' - 1 = line
          BY <1>0, <1>5, <2>1 DEF RegionLine
        <5>2. X[line' - 1] = X[line]
          BY <5>1
        <5> QED  BY <3>5, <3>6, <5>2
      <4> QED  BY <1>5, <3>1, <3>6, <4>1, <4>2 DEF RegionLine, LoopInv
    <3>8. TypeOK'
      <4>1. Append(temp.lines, tmpl[line]) \in Seq(BLine)
        BY <2>3, <3>2, AppendProperties
      <4> QED  BY <1>5, <2>1, <3>6, <4>1 DEF RegionLine, IInv, TypeOK, Written
    <3> QED  BY <1>5, <2>1, <3>7, <3>8 DEF RegionLine, IInv
  <2>5. CASE tmpl[line] # End(matched_header)
    <3>1. /\ Inside(tmpl, line)
          /\ line \notin Openers(tmpl)
          /\ Open(tmpl, b, line + 1)
      BY <1>0, <2>1, <2>2, <2>5, OpenStep
    <3>2. Piece(tmpl, frag, line) = << >>
      BY <3>1 DEF Piece
    <3>3. X[line] = temp.lines
      <4>1. X[line] = X[line - 1] \o << >>
        BY <1>0, <2>1, <3>2, ExpandFix
      <4> QED  BY <4>1, <2>3, ConcatEmptySeq
    <3>4. temp' = temp /\ matched_header' = matched_header
      BY <1>5, <2>5 DEF RegionLine
    <3>5. LoopInv'
      <4>1. temp' = Written(X[line' - 1])
        <5>1. temp = Written(X[line - 1])
          BY <2>1 DEF LoopInv
        <5>2. line' - 1 = line
          BY <1>0, <1>5, <2>1 DEF RegionLine
        <5>3. X[line' - 1] = X[line]
          BY <5>2
        <5> QED  BY <2>3, <3>3, <3>4, <5>1, <5>3
      <4>2. \A a \in Openers(tmpl) : a < line + 1 => frag[tmpl[a].seg] # Missing
        BY <2>1, <3>1 DEF LoopInv, Openers
      <4> QED  BY <1>5, <2>1, <2>2, <3>1, <3>4, <4>1, <4>2 DEF RegionLine, LoopInv
    <3>6. TypeOK'
      BY <1>5, <2>1, <3>4 DEF RegionLine, IInv, TypeOK
    <3> QED  BY <1>5, <2>1, <3>5, <3>6 DEF RegionLine, IInv
  <2> QED  BY <2>4, <2>5
<1>6. CASE Finish
  <2>1. pc = "loop" /\ LoopInv /\ line = Len(tmpl) + 1
    BY <1>6 DEF Finish, IInv
  <2>2. temp = Written(Expand(tmpl, frag))
    BY <2>1 DEF LoopInv, Expand
  <2>3. TypeOK'
    BY <1>6, <2>2 DEF Finish, IInv, TypeOK, Written
  <2> QED  BY <1>6, <2>2, <2>3 DEF Finish, IInv
<1>7. CASE Kill
  BY <1>7 DEF Kill, IInv, TypeOK
<1>8. CASE UNCHANGED vars
  BY <1>8 DEF vars, IInv, TypeOK, LoopInv
<1> QED  BY <1>1, <1>2, <1>3, <1>4, <1>5, <1>6, <1>7, <1>8 DEF Next

(***************************************************************************)
(* Part 4.  The theorems.                                                  *)
(***************************************************************************)
LEMMA IInvInvariant == Spec => []IInv
BY InitIInv, NextIInv, PTL DEF Spec

(* Every state of a run is well typed: the loop index stays within the     *)
(* template and the files hold template and segment-header lines.          *)
THEOREM TypeCorrect == Spec => []TypeOK
<1>1. IInv => TypeOK
  BY DEF IInv
<1> QED  BY <1>1, IInvInvariant, PTL

(* A blob the script publishes is the expansion of its template: the      *)
(* matched_header state machine of lines 45-61 neither loses nor repeats a *)
(* line, and the rename of line 65 happens only after the loop has read   *)
(* the whole template.                                                     *)
THEOREM ExpansionCorrect == Spec => []BlobIsExpansion
<1>1. IInv => BlobIsExpansion
  <2> SUFFICES ASSUME IInv, blob \notin {Absent, Prior} PROVE blob.lines = Expand(tmpl, frag)
    BY DEF BlobIsExpansion
  <2>1. pc = "done"
    BY DEF IInv, TypeOK
  <2> QED  BY <2>1 DEF IInv, Written
<1> QED  BY <1>1, IInvInvariant, PTL

(* BlobPublish's copy of the definitions of BlobTemplate is the same.      *)
LEMMA SameTemplate ==
  /\ BP!Absent = Absent /\ BP!Prior = Prior /\ BP!Missing = Missing /\ BP!Segs = Segs
  /\ \A ls : BP!Written(ls) = Written(ls)
  /\ \A t : BP!Openers(t) = Openers(t)
  /\ \A t, fl : BP!Expand(t, fl) = Expand(t, fl)
BY DEF BP!Absent, Absent, BP!Prior, Prior, BP!Missing, Missing, BP!Written, Written,
       BP!Openers, Openers, BP!Opens, Opens, BP!RegionEnd, RegionEnd, BP!End, End,
       BP!Expand, Expand, BP!ExpandTo, ExpandTo, BP!Piece, Piece, BP!Inside, Inside,
       BP!FragBody, FragBody, BP!Segs, Segs, BP!header_segments, header_segments

(* Every step of the script is a step of BlobPublish or leaves its state   *)
(* alone: the unlink of line 37 is Unlink, the loop's steps touch only the *)
(* temporary file, the rename is Publish, and a raise or a kill is Fail.   *)
LEMMA StepRefines == IInv /\ [Next]_vars => [BP!Next]_BP!avars
<1> SUFFICES ASSUME IInv, [Next]_vars PROVE [BP!Next]_BP!avars
  OBVIOUS
<1>1. CASE Start
  BY <1>1, SameTemplate DEF Start, IInv, BP!Next, BP!Unlink, RunOf
<1>2. CASE CopyLine \/ BeginSegment \/ RegionLine
  <2>1. pc' = pc /\ blob' = blob /\ tmpl' = tmpl /\ frag' = frag
    BY <1>2 DEF CopyLine, BeginSegment, RegionLine
  <2> QED  BY <2>1 DEF BP!avars, RunOf
<1>3. CASE BeginMissing \/ Kill
  <2>1. pc \in {"start", "loop"} /\ pc' = "aborted"
        /\ blob' = blob /\ tmpl' = tmpl /\ frag' = frag
    BY <1>3 DEF BeginMissing, ReadLine, Kill
  <2> QED  BY <2>1 DEF BP!Next, BP!Fail, RunOf
<1>4. CASE Finish
  <2>1. pc = "loop" /\ LoopInv /\ line = Len(tmpl) + 1
    BY <1>4 DEF Finish, IInv
  <2>2. \A b \in Openers(tmpl) : frag[tmpl[b].seg] # Missing
    <3>1. \A b \in Openers(tmpl) : b < Len(tmpl) + 1
      BY DEF Openers
    <3> QED  BY <2>1, <3>1 DEF LoopInv
  <2>3. blob' = Written(Expand(tmpl, frag))
    BY <1>4, <2>1 DEF Finish, LoopInv, Expand
  <2> QED  BY <1>4, <2>1, <2>2, <2>3, SameTemplate DEF Finish, BP!Next, BP!Publish, RunOf
<1>5. CASE UNCHANGED vars
  BY <1>5 DEF vars, BP!avars, RunOf
<1> QED  BY <1>1, <1>2, <1>3, <1>4, <1>5 DEF Next

(* The script implements BlobPublish (BlobRefines): the blob changes only *)
(* at the unlink, to nothing, and at the rename, to the expansion of the  *)
(* template, which happens only when every segment header the template    *)
(* opens exists.                                                           *)
THEOREM RefinementCorrect == Spec => BlobRefines
<1>1. Init => BP!Init
  <2> SUFFICES ASSUME Init PROVE BP!Init
    OBVIOUS
  <2>1. RunOf = "idle"
    BY DEF Init, RunOf
  <2> QED  BY <2>1, SameTemplate DEF Init, BP!Init
<1>2. IInv /\ [Next]_vars => [BP!Next]_BP!avars
  BY StepRefines
<1> QED  BY <1>1, <1>2, IInvInvariant, PTL DEF Spec, BlobRefines, BP!Spec

=============================================================================
