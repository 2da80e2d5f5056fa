-------------------- MODULE NotificationAssemblerProofs --------------------
(***************************************************************************)
(* Proofs about NotificationAssembler, for every stream of frames, every   *)
(* way to cut it into notifications and any number of losses and resets.   *)
(*                                                                         *)
(* The stream comes first: where frames end and which byte is where, then  *)
(* what _walk finds in a piece of it that starts with a frame (WalkFinds)  *)
(* and what one that starts inside a frame is not (OutOfStep).  _walk is   *)
(* recursive and the stream has any number of frames, so these go by the   *)
(* least counterexample, taken of a set of numbers (LeastNumber).          *)
(*                                                                         *)
(* On that rest four invariants: what is held is the unfinished start of   *)
(* a frame (HeldOk); what was decoded are frames in order, and none that a *)
(* held start could still complete (Ordered); without a loss, what came    *)
(* out and what is held make up the stream so far (InStep); and, losses or *)
(* not, since a clean boundary feed follows the stream (FollowsStream), so *)
(* that what was heard whole since then has come out (HeardOk).            *)
(***************************************************************************)
EXTENDS NotificationAssembler, SequenceTheorems, WellFoundedInduction, TLAPS

-----------------------------------------------------------------------------
(* Induction, stated of a set of numbers. *)

Smaller == {ss \in Nat \X Nat : ss[1] < ss[2]}

LEMMA LeastNumber ==
  ASSUME NEW W \in SUBSET Nat, W # {}
  PROVE  \E x \in W : \A y \in W : x <= y
<1>1. IsWellFoundedOn(Smaller, Nat)
  BY NatLessThanWellFounded DEF OpToRel, Smaller
<1>2. \A x, y \in Nat : <<x, y>> \in Smaller <=> x < y
  BY DEF Smaller
<1>3. PICK x \in W : \A y \in W : ~ (<<y, x>> \in Smaller)
  BY <1>1, WFMin
<1>4. \A y \in W : x <= y
  <2> TAKE y \in W
  <2>1. x \in Nat /\ y \in Nat /\ ~ (<<y, x>> \in Smaller)
    BY <1>3
  <2>2. ~ (y < x)
    BY <1>2, <2>1
  <2> QED BY <2>1, <2>2
<1> QED BY <1>3, <1>4

LEMMA InductionTo ==
  ASSUME NEW m \in Nat, NEW W, 0 \in W, \A n \in 0 .. m - 1 : n \in W => n + 1 \in W
  PROVE  m \in W /\ \A n \in 0 .. m : n \in W
<1> SUFFICES ASSUME (0 .. m) \ W # {} PROVE FALSE
  OBVIOUS
<1>1. PICK x \in (0 .. m) \ W : \A y \in (0 .. m) \ W : x <= y
  <2>1. (0 .. m) \ W \in SUBSET Nat
    OBVIOUS
  <2> QED BY <2>1, LeastNumber
<1>2. x - 1 \in 0 .. m - 1 /\ x - 1 < x
  BY <1>1
<1>3. x - 1 \in W
  BY <1>1, <1>2
<1> QED BY <1>1, <1>2, <1>3

-----------------------------------------------------------------------------
(* Where the frames end *)

Total == Len(Lengths)

LEMMA LengthsType ==
  /\ Total \in Nat
  /\ \A k \in Frames : Lengths[k] \in Nat /\ Lengths[k] >= MinFrameLen /\ Lengths[k] <= MaxFrameLen
  BY FrameAssumption DEF Total, Frames, MinFrameLen

\* e gives the ends of the frames up to m.
EndsUpTo(e, m) ==
  /\ e = [k \in 0 .. Total |-> e[k]]
  /\ \A k \in 0 .. m : e[k] = IF k = 0 THEN 0 ELSE e[k - 1] + Lengths[k]

HasEnds(m) == \E e : EndsUpTo(e, m)

LEMMA EndsExist == \E e : EndsUpTo(e, Total)
<1> DEFINE W == {m \in 0 .. Total : HasEnds(m)}
<1>1. 0 \in W
  <2>1. EndsUpTo([k \in 0 .. Total |-> 0], 0)
    BY LengthsType DEF EndsUpTo
  <2>2. HasEnds(0)
    BY <2>1, Zenon DEF HasEnds
  <2> QED BY <2>2, LengthsType
<1>2. ASSUME NEW n \in 0 .. Total - 1, n \in W
      PROVE  n + 1 \in W
  <2>1. PICK e : EndsUpTo(e, n)
    BY <1>2 DEF HasEnds
  <2> DEFINE g == [k \in 0 .. Total |-> IF k = n + 1 THEN e[n] + Lengths[n + 1] ELSE e[k]]
  <2>2. EndsUpTo(g, n + 1)
    <3>1. g = [k \in 0 .. Total |-> g[k]]
      OBVIOUS
    <3>2. ASSUME NEW k \in 0 .. n + 1
          PROVE  g[k] = IF k = 0 THEN 0 ELSE g[k - 1] + Lengths[k]
      <4>1. CASE k = n + 1
        BY <4>1, LengthsType
      <4>2. CASE k # n + 1
        <5>1. k \in 0 .. n /\ k \in 0 .. Total /\ g[k] = e[k]
          BY <4>2, LengthsType
        <5>2. e[k] = IF k = 0 THEN 0 ELSE e[k - 1] + Lengths[k]
          BY <2>1, <5>1 DEF EndsUpTo
        <5>3. k # 0 => g[k - 1] = e[k - 1]
          BY <5>1, LengthsType
        <5> QED BY <5>1, <5>2, <5>3
      <4> QED BY <4>1, <4>2
    <3> HIDE DEF g
    <3> QED BY <3>1, <3>2 DEF EndsUpTo
  <2> HIDE DEF g
  <2>3. HasEnds(n + 1)
    BY <2>2, Zenon DEF HasEnds
  <2> QED BY <2>3, LengthsType
<1> HIDE DEF W
<1>3. Total \in W
  BY <1>1, <1>2, LengthsType, InductionTo
<1> QED BY <1>3 DEF W, HasEnds

\* Each frame ends its length after the one before.
LEMMA EndIs ==
  /\ End[0] = 0
  /\ \A k \in Frames : End[k] = End[k - 1] + Lengths[k]
<1> DEFINE Ends(e) == [k \in 0 .. Len(Lengths) |-> IF k = 0 THEN 0 ELSE e[k - 1] + Lengths[k]]
<1>1. \E e : e = Ends(e)
  <2>1. PICK e : EndsUpTo(e, Total)
    BY EndsExist
  <2>2. e = Ends(e)
    BY <2>1 DEF EndsUpTo, Total
  <2> QED BY <2>2
<1>2. End = Ends(End)
  <2>1. End = CHOOSE e : e = Ends(e)
    BY DEF End
  <2> HIDE DEF Ends
  <2> QED BY <1>1, <2>1
<1>3. \A k \in 0 .. Len(Lengths) : End[k] = IF k = 0 THEN 0 ELSE End[k - 1] + Lengths[k]
  <2> DEFINE E == End
  <2>1. E = Ends(E)
    BY <1>2
  <2> HIDE DEF E
  <2>2. \A k \in 0 .. Len(Lengths) : E[k] = IF k = 0 THEN 0 ELSE E[k - 1] + Lengths[k]
    BY <2>1
  <2> QED BY <2>2 DEF E
<1> HIDE DEF Ends
<1> QED BY <1>3, LengthsType DEF Frames, Total

LEMMA EndType == \A k \in 0 .. Total : End[k] \in Nat
<1> DEFINE W == {m \in 0 .. Total : End[m] \in Nat}
<1>1. 0 \in W
  BY EndIs, LengthsType
<1>2. \A n \in 0 .. Total - 1 : n \in W => n + 1 \in W
  <2> TAKE n \in 0 .. Total - 1
  <2>1. n + 1 \in Frames /\ (n + 1) - 1 = n
    BY LengthsType DEF Frames, Total
  <2>2. End[n + 1] = End[n] + Lengths[n + 1]
    BY <2>1, EndIs
  <2> QED BY <2>1, <2>2, LengthsType
<1> HIDE DEF W
<1>3. \A n \in 0 .. Total : n \in W
  BY <1>1, <1>2, LengthsType, InductionTo
<1> QED BY <1>3 DEF W

\* A later frame ends later, by its length or more.
LEMMA EndsGrow == \A k \in 0 .. Total, j \in Frames : j <= k => End[j] <= End[k]
<1> DEFINE W == {m \in 0 .. Total : \A j \in Frames : j <= m => End[j] <= End[m]}
<1>1. 0 \in W
  BY LengthsType DEF Frames
<1>2. \A n \in 0 .. Total - 1 : n \in W => n + 1 \in W
  <2> SUFFICES ASSUME NEW n \in 0 .. Total - 1, n \in W,
                      NEW j \in Frames, j <= n + 1
               PROVE  End[j] <= End[n + 1]
    BY LengthsType
  <2>1. n + 1 \in Frames /\ (n + 1) - 1 = n /\ n + 1 \in 0 .. Total /\ n \in 0 .. Total
    BY LengthsType DEF Frames, Total
  <2>2. End[n + 1] = End[n] + Lengths[n + 1]
    BY <2>1, EndIs
  <2>3. End[n] \in Nat /\ End[n + 1] \in Nat /\ Lengths[n + 1] \in Nat
    BY <2>1, EndType, LengthsType
  <2>4. CASE j = n + 1
    BY <2>1, <2>3, <2>4
  <2>5. CASE j # n + 1
    <3>1. j \in Nat /\ n \in Nat
      BY LengthsType DEF Frames, Total
    <3>2. End[j] <= End[n]
      BY <2>5, <3>1
    <3>3. End[j] \in Nat
      BY EndType DEF Frames, Total
    <3> QED BY <3>2, <3>3, <2>1, <2>2, <2>3
  <2> QED BY <2>4, <2>5
<1> HIDE DEF W
<1>3. \A n \in 0 .. Total : n \in W
  BY <1>1, <1>2, LengthsType, InductionTo
<1> QED BY <1>3 DEF W

\* What is known of a frame and the one before it.
LEMMA FrameEnds ==
  ASSUME NEW k \in Frames
  PROVE  /\ k \in Nat /\ k - 1 \in 0 .. Total /\ k \in 0 .. Total /\ k >= 1
         /\ End[k] \in Nat /\ End[k - 1] \in Nat
         /\ Lengths[k] \in Nat /\ Lengths[k] >= 12 /\ Lengths[k] <= MaxFrameLen
         /\ End[k] = End[k - 1] + Lengths[k]
         /\ End[k] <= End[Total]
<1>1. k \in Nat /\ k - 1 \in 0 .. Total /\ k \in 0 .. Total /\ k >= 1
  BY LengthsType DEF Frames, Total
<1>2. End[k] \in Nat /\ End[k - 1] \in Nat
  BY <1>1, EndType
<1>3. End[k] <= End[Total]
  BY <1>1, EndsGrow, LengthsType
<1> QED BY <1>1, <1>2, <1>3, EndIs, LengthsType DEF MinFrameLen

\* The frame before ends no later than a frame begins.
LEMMA FramesApart ==
  ASSUME NEW j \in Frames, NEW k \in Frames, j < k
  PROVE  End[j] <= End[k - 1]
<1>1. k - 1 \in 0 .. Total /\ j <= k - 1
  BY FrameEnds
<1> QED BY <1>1, EndsGrow

-----------------------------------------------------------------------------
(* Bytes of the stream *)

LEMMA ByteIs ==
  ASSUME NEW k \in Frames, NEW i \in 1 .. Lengths[k]
  PROVE  ByteAt(End[k - 1] + i) = <<k, i>>
<1> DEFINE n == End[k - 1] + i
           P(j) == End[j - 1] < n /\ n <= End[j]
<1>1. n \in Nat /\ P(k)
  BY FrameEnds
<1>2. ASSUME NEW j \in Frames, P(j)
      PROVE  j = k
  <2>1. End[j] \in Nat /\ End[k] \in Nat /\ End[j - 1] \in Nat /\ End[k - 1] \in Nat
        /\ j \in Nat /\ k \in Nat
    BY FrameEnds
  <2>2. ~ (j < k)
    BY <2>1, <1>1, <1>2, FramesApart
  <2>3. ~ (k < j)
    BY <2>1, <1>1, <1>2, FramesApart
  <2> QED BY <2>1, <2>2, <2>3
<1>3. (CHOOSE j \in Frames : P(j)) = k
  <2> HIDE DEF P
  <2> QED BY <1>1, <1>2
<1>4. n - End[k - 1] = i
  BY FrameEnds
<1> QED BY <1>3, <1>4 DEF ByteAt

\* k frames are whole among the first a bytes.
Whole(k, a) ==
  /\ k \in 0 .. Total
  /\ End[k] <= a
  /\ k < Total => a < End[k + 1]

LEMMA WholeExists ==
  ASSUME NEW a \in 0 .. End[Total]
  PROVE  \E k : Whole(k, a)
<1>1. CASE a = End[Total]
  <2>1. Whole(Total, a)
    BY <1>1, LengthsType, EndType DEF Whole
  <2> QED BY <2>1
<1>2. CASE a # End[Total]
  <2> DEFINE W == {k \in Nat : k <= Total /\ a < End[k]}
  <2>1. End[Total] \in Nat
    BY LengthsType, EndType
  <2>2. Total \in W
    BY <2>1, <1>2, LengthsType
  <2>3. W \in SUBSET Nat
    OBVIOUS
  <2>4. PICK k \in W : \A y \in W : k <= y
    BY <2>2, <2>3, LeastNumber
  <2>5. k \in 0 .. Total /\ a < End[k]
    BY <2>4, LengthsType
  <2>6. k # 0
    BY <2>5, EndIs
  <2>7. k - 1 \in 0 .. Total /\ k - 1 \in Nat /\ k - 1 < k
    BY <2>5, <2>6, LengthsType
  <2>8. k - 1 \notin W
    BY <2>4, <2>7, LengthsType
  <2>9. End[k - 1] <= a
    BY <2>7, <2>8, LengthsType, EndType
  <2>10. Whole(k - 1, a)
    BY <2>5, <2>7, <2>9, LengthsType DEF Whole
  <2> QED BY <2>10
<1> QED BY <1>1, <1>2

\* What stands between positions a and b of the stream.
Segment(a, b) == [i \in 1 .. b - a |-> ByteAt(a + i)]

\* The bytes among the first a of the stream.
Sent(a) ==
  {b \in Frames \X Nat : b[2] \in 1 .. Lengths[b[1]] /\ End[b[1] - 1] + b[2] <= a}

LEMMA ByteOf ==
  ASSUME NEW m \in 1 .. End[Total]
  PROVE  \E k \in Frames : \E i \in 1 .. Lengths[k] :
           m = End[k - 1] + i /\ ByteAt(m) = <<k, i>>
<1>1. m - 1 \in 0 .. End[Total]
  BY LengthsType, EndType
<1>2. PICK k : Whole(k, m - 1)
  BY <1>1, WholeExists
<1>3. k < Total
  BY <1>2, LengthsType, EndType DEF Whole
<1>4. k + 1 \in Frames /\ (k + 1) - 1 = k
  BY <1>2, <1>3, LengthsType DEF Whole, Frames, Total
<1>5. End[k] <= m - 1 /\ m - 1 < End[k + 1]
  BY <1>2, <1>3 DEF Whole
<1>6. End[k + 1] = End[k] + Lengths[k + 1] /\ End[k] \in Nat /\ Lengths[k + 1] \in Nat
  BY <1>4, FrameEnds
<1> DEFINE i == m - End[k]
<1>7. i \in 1 .. Lengths[k + 1] /\ m = End[k] + i
  BY <1>5, <1>6
<1> HIDE DEF i
<1>8. ByteAt(m) = <<k + 1, i>>
  BY <1>4, <1>7, ByteIs
<1> QED BY <1>4, <1>7, <1>8

LEMMA SentGrows ==
  ASSUME NEW a \in Nat, NEW b \in Nat, a <= b
  PROVE  Sent(a) \subseteq Sent(b)
<1> SUFFICES ASSUME NEW y \in Sent(a) PROVE y \in Sent(b)
  OBVIOUS
<1>1. y \in Frames \X Nat /\ y[2] \in 1 .. Lengths[y[1]] /\ End[y[1] - 1] + y[2] <= a
  BY DEF Sent
<1>2. y[1] \in Frames /\ y[2] \in Nat
  BY <1>1
<1>3. End[y[1] - 1] \in Nat
  BY <1>2, FrameEnds
<1>4. End[y[1] - 1] + y[2] <= b
  BY <1>1, <1>2, <1>3
<1> QED BY <1>1, <1>4 DEF Sent

\* A frame whose last byte was sent has ended.
LEMMA EndedIfSent ==
  ASSUME NEW a \in Nat, NEW k \in Frames, NEW i \in Nat, <<k, i>> \in Sent(a)
  PROVE  i \in 1 .. Lengths[k] /\ End[k - 1] + i <= a /\ (i = Lengths[k] => End[k] <= a)
<1>1. i \in 1 .. Lengths[k] /\ End[k - 1] + i <= a
  BY DEF Sent
<1> QED BY <1>1, FrameEnds

LEMMA SegmentType ==
  ASSUME NEW b \in 0 .. End[Total], NEW a \in 0 .. b
  PROVE  /\ Segment(a, b) \in Seq(Sent(b))
         /\ Len(Segment(a, b)) = b - a
         /\ \A i \in 1 .. b - a : Segment(a, b)[i] = ByteAt(a + i)
         /\ a = b <=> Segment(a, b) = << >>
<1>0. End[Total] \in Nat
  BY LengthsType, EndType
<1>1. ASSUME NEW i \in 1 .. b - a
      PROVE  ByteAt(a + i) \in Sent(b)
  <2>1. a + i \in 1 .. End[Total] /\ a + i <= b
    BY <1>0
  <2>2. PICK k \in Frames : \E j \in 1 .. Lengths[k] :
          a + i = End[k - 1] + j /\ ByteAt(a + i) = <<k, j>>
    BY <2>1, ByteOf
  <2>4. PICK j \in 1 .. Lengths[k] : a + i = End[k - 1] + j /\ ByteAt(a + i) = <<k, j>>
    BY <2>2
  <2>3. j \in Nat
    BY FrameEnds
  <2> QED BY <2>1, <2>4, <2>3 DEF Sent
<1>2. b - a \in Nat
  BY <1>0
<1>3. Segment(a, b) \in Seq(Sent(b))
  BY <1>1, <1>2 DEF Segment
<1>4. Len(Segment(a, b)) = b - a
  BY <1>2 DEF Segment
<1>5. a = b <=> Segment(a, b) = << >>
  BY <1>0, <1>3, <1>4
<1> QED BY <1>3, <1>4, <1>5 DEF Segment

\* Parts of what stands there.
LEMMA PartOfSegment ==
  ASSUME NEW b \in 0 .. End[Total], NEW a \in 0 .. b,
         NEW i \in 1 .. b - a + 1, NEW j \in i - 1 .. b - a
  PROVE  SubSeq(Segment(a, b), i, j) = Segment(a + i - 1, a + j)
<1>0. End[Total] \in Nat
  BY LengthsType, EndType
<1>1. /\ a + j \in 0 .. End[Total] /\ a + i - 1 \in 0 .. a + j
      /\ i \in Int /\ j \in Int /\ a + i - 1 \in Nat /\ a + j \in Nat
  BY <1>0
<1> DEFINE d == Segment(a, b)
           e == Segment(a + i - 1, a + j)
           sub == SubSeq(d, i, j)
<1>2. /\ d \in Seq(Sent(b)) /\ Len(d) = b - a
      /\ \A x \in 1 .. b - a : d[x] = ByteAt(a + x)
  BY SegmentType
<1>3. /\ e \in Seq(Sent(a + j)) /\ Len(e) = j - i + 1
      /\ \A x \in 1 .. j - i + 1 : e[x] = ByteAt((a + i - 1) + x)
  <2>1. /\ Segment(a + i - 1, a + j) \in Seq(Sent(a + j))
        /\ Len(Segment(a + i - 1, a + j)) = (a + j) - (a + i - 1)
        /\ \A x \in 1 .. (a + j) - (a + i - 1) :
             Segment(a + i - 1, a + j)[x] = ByteAt((a + i - 1) + x)
    BY <1>1, SegmentType
  <2>2. (a + j) - (a + i - 1) = j - i + 1
    BY <1>0
  <2> QED BY <2>1, <2>2
<1> HIDE DEF d, e
<1>4. \A x \in i .. j : d[x] \in Sent(b)
  BY <1>2, <1>0
<1>5. /\ sub \in Seq(Sent(b)) /\ Len(sub) = j - i + 1
      /\ \A x \in 1 .. j - i + 1 : sub[x] = d[i + x - 1]
  BY <1>0, <1>1, <1>4, SubSeqProperties
<1> HIDE DEF sub
<1>6. ASSUME NEW x \in 1 .. j - i + 1
      PROVE  sub[x] = e[x]
  <2>1. i + x - 1 \in 1 .. b - a /\ a + (i + x - 1) = (a + i - 1) + x
    BY <1>0
  <2> QED BY <2>1, <1>2, <1>3, <1>5
<1>8. e \in Seq(Sent(b))
  <2>1. Sent(a + j) \subseteq Sent(b)
    BY <1>0, <1>1, SentGrows
  <2> QED BY <1>3, <2>1
<1>7. sub = e
  BY <1>8, <1>3, <1>5, <1>6, SeqEqual
<1> QED BY <1>7 DEF sub, e, d

LEMMA FrameIsSegment ==
  ASSUME NEW k \in Frames
  PROVE  FrameBytes(k) = Segment(End[k - 1], End[k])
<1>1. \A i \in 1 .. Lengths[k] : ByteAt(End[k - 1] + i) = <<k, i>>
  BY ByteIs
<1>2. End[k] - End[k - 1] = Lengths[k]
  BY FrameEnds
<1> QED BY <1>1, <1>2 DEF FrameBytes, Segment

-----------------------------------------------------------------------------
(* The walk over the frames at the start of some data *)

LEMMA FrameLengthType ==
  ASSUME NEW d
  PROVE  \/ FrameLength(d) = NoLength
         \/ FrameLength(d) \in Nat /\ FrameLength(d) >= 12 /\ FrameLength(d) <= MaxFrameLen
<1>1. CASE DeclaredLength(d) \in MinFrameLen .. MaxFrameLen
  <2>1. DeclaredLength(d) \in Nat /\ DeclaredLength(d) >= 12 /\ DeclaredLength(d) <= MaxFrameLen
    BY <1>1, FrameAssumption DEF MinFrameLen
  <2>2. FrameLength(d) \in {DeclaredLength(d), NoLength}
    BY Zenon DEF FrameLength
  <2> QED BY <2>1, <2>2
<1>2. CASE DeclaredLength(d) \notin MinFrameLen .. MaxFrameLen
  BY <1>2 DEF FrameLength
<1> QED BY <1>1, <1>2

\* What the walk does at index i, when it does c at the later ones.
Cut(d, c, i) ==
  LET n == FrameLength(From(d, i)) IN
  IF n = NoLength \/ n > Len(d) - i + 1
  THEN [frames |-> << >>, rest |-> From(d, i)]
  ELSE [frames |-> <<SubSeq(d, i, i + n - 1)>> \o c[i + n].frames,
        rest   |-> c[i + n].rest]

CutOf(d) == CHOOSE c : c = [i \in 1 .. Len(d) + 1 |-> Cut(d, c, i)]

LEMMA WalkIs == \A d : Walk(d) = CutOf(d)[1]
  BY DEF Walk, CutOf, Cut

\* c is right from index m on.
CutFrom(d, c, m) ==
  /\ c = [i \in 1 .. Len(d) + 1 |-> c[i]]
  /\ \A i \in 1 .. Len(d) + 1 : i >= m => c[i] = Cut(d, c, i)

HasCut(d, m) == \E c : CutFrom(d, c, m)

LEMMA CutLooksOn ==
  ASSUME NEW S, NEW d \in Seq(S), NEW i \in 1 .. Len(d) + 1, NEW c, NEW g,
         \A j \in 1 .. Len(d) + 1 : j > i => c[j] = g[j]
  PROVE  Cut(d, c, i) = Cut(d, g, i)
<1> DEFINE n == FrameLength(From(d, i))
<1>1. CASE n = NoLength \/ n > Len(d) - i + 1
  BY <1>1 DEF Cut
<1>2. CASE ~ (n = NoLength \/ n > Len(d) - i + 1)
  <2>1. n \in Nat /\ n >= 12
    BY <1>2, FrameLengthType
  <2>2. i + n \in 1 .. Len(d) + 1 /\ i + n > i
    BY <1>2, <2>1
  <2>3. c[i + n] = g[i + n]
    BY <2>2
  <2> QED BY <1>2, <2>3 DEF Cut
<1> QED BY <1>1, <1>2

LEMMA CutExists ==
  ASSUME NEW S, NEW d \in Seq(S)
  PROVE  \E c : c = [i \in 1 .. Len(d) + 1 |-> Cut(d, c, i)]
<1> DEFINE L == Len(d) + 1
           W == {m \in 0 .. L : HasCut(d, L + 1 - m)}
<1>0. L \in Nat
  OBVIOUS
<1>1. 0 \in W
  <2>1. CutFrom(d, [i \in 1 .. L |-> 0], L + 1)
    BY DEF CutFrom
  <2>2. HasCut(d, L + 1)
    BY <2>1, Zenon DEF HasCut
  <2> QED BY <1>0, <2>2
<1>2. ASSUME NEW m \in 0 .. L - 1, m \in W
      PROVE  m + 1 \in W
  <2> DEFINE x == L - m
  <2>1. HasCut(d, L + 1 - m) /\ L + 1 - m = x + 1 /\ x \in 1 .. L /\ L + 1 - (m + 1) = x
    BY <1>2, <1>0
  <2> HIDE DEF x
  <2>2. PICK c : CutFrom(d, c, x + 1)
    BY <2>1, Zenon DEF HasCut
  <2> DEFINE g == [i \in 1 .. L |-> IF i = x THEN Cut(d, c, x) ELSE c[i]]
  <2>3. g = [i \in 1 .. Len(d) + 1 |-> g[i]]
    OBVIOUS
  <2>4. \A i \in 1 .. Len(d) + 1 : i > x => g[i] = c[i]
    BY <2>1, <1>0
  <2>5. g[x] = Cut(d, c, x)
    BY <2>1
  <2> HIDE DEF g
  <2>6. ASSUME NEW i \in 1 .. Len(d) + 1, i >= x
        PROVE  g[i] = Cut(d, g, i)
    <3>1. \A j \in 1 .. Len(d) + 1 : j > i => g[j] = c[j]
      BY <2>4, <2>6, <2>1
    <3>2. Cut(d, g, i) = Cut(d, c, i)
      BY <3>1, CutLooksOn
    <3>3. CASE i = x
      BY <3>2, <3>3, <2>5
    <3>4. CASE i # x
      <4>1. i > x /\ i >= x + 1
        BY <3>4, <2>6, <2>1
      <4>2. g[i] = c[i]
        BY <4>1, <2>4
      <4>3. c[i] = Cut(d, c, i)
        BY <4>1, <2>2 DEF CutFrom
      <4> QED BY <3>2, <4>2, <4>3
    <3> QED BY <3>3, <3>4
  <2>7. CutFrom(d, g, x)
    BY <2>3, <2>6 DEF CutFrom
  <2>8. HasCut(d, x)
    BY <2>7, Zenon DEF HasCut
  <2> QED BY <2>8, <2>1, <1>0
<1> HIDE DEF W, L
<1>3. L \in W
  BY <1>0, <1>1, <1>2, InductionTo
<1>4. HasCut(d, 1)
  <2>1. HasCut(d, L + 1 - L) /\ L + 1 - L = 1
    BY <1>3, <1>0 DEF W
  <2> QED BY <2>1
<1>5. PICK c : CutFrom(d, c, 1)
  BY <1>4, Zenon DEF HasCut
<1>6. c = [i \in 1 .. Len(d) + 1 |-> Cut(d, c, i)]
  BY <1>5 DEF CutFrom
<1> QED BY <1>6

LEMMA CutIs ==
  ASSUME NEW S, NEW d \in Seq(S), NEW i \in 1 .. Len(d) + 1
  PROVE  CutOf(d)[i] = Cut(d, CutOf(d), i)
<1>1. CutOf(d) = [j \in 1 .. Len(d) + 1 |-> Cut(d, CutOf(d), j)]
  BY CutExists DEF CutOf
<1> DEFINE c == CutOf(d)
<1>2. c = [j \in 1 .. Len(d) + 1 |-> Cut(d, c, j)]
  BY <1>1
<1> HIDE DEF c
<1>3. c[i] = Cut(d, c, i)
  BY <1>2
<1> QED BY <1>3 DEF c

-----------------------------------------------------------------------------
(* Data that begins with a frame *)

LEMMA HeaderReads ==
  ASSUME NEW k
  PROVE  /\ Value(<<k, 1>>) = 88 /\ Value(<<k, 2>>) = 2
         /\ Value(<<k, 6>>) = Lengths[k] % 256 /\ Value(<<k, 7>>) = Lengths[k] \div 256
         /\ Value(<<k, 8>>) = 0 /\ Value(<<k, 9>>) = 0
  BY DEF Value

LEMMA LengthReads ==
  ASSUME NEW k \in Frames, NEW d,
         \A i \in 1 .. 9 : d[i] = <<k, i>>
  PROVE  OpensFrame(d) /\ DeclaredLength(d) = Lengths[k]
<1>1. d[1] = <<k, 1>> /\ d[2] = <<k, 2>> /\ d[6] = <<k, 6>> /\ d[7] = <<k, 7>>
      /\ d[8] = <<k, 8>> /\ d[9] = <<k, 9>>
  OBVIOUS
<1>2. OpensFrame(d)
  <2>1. Value(<<k, 1>>) = 88 /\ Value(<<k, 2>>) = 2
    BY HeaderReads
  <2> QED BY <1>1, <2>1, Zenon DEF OpensFrame
<1>6. /\ Value(d[6]) = Lengths[k] % 256 /\ Value(d[7]) = Lengths[k] \div 256
      /\ Value(d[8]) = 0 /\ Value(d[9]) = 0
  <2>1. /\ Value(<<k, 6>>) = Lengths[k] % 256 /\ Value(<<k, 7>>) = Lengths[k] \div 256
        /\ Value(<<k, 8>>) = 0 /\ Value(<<k, 9>>) = 0
    BY HeaderReads
  <2>2. d[6] = <<k, 6>> /\ d[7] = <<k, 7>> /\ d[8] = <<k, 8>> /\ d[9] = <<k, 9>>
    BY <1>1
  <2> HIDE DEF Value
  <2> QED BY <2>1, <2>2
<1> DEFINE n == Lengths[k]
           q == n \div 256
           r == n % 256
<1>4. n \in Nat /\ q \in Nat /\ r \in Nat /\ r + 256 * q = n
  <2>1. n \in Nat
    BY FrameEnds
  <2> HIDE DEF n
  <2> QED BY <2>1
<1>5. Value(d[6]) = r /\ Value(d[7]) = q
  BY <1>6
<1> HIDE DEF n, q, r
<1>3. DeclaredLength(d) = r + 256 * q + 65536 * 0 + 16777216 * 0
  BY <1>4, <1>5, <1>6 DEF DeclaredLength
<1>7. DeclaredLength(d) = n
  BY <1>3, <1>4
<1> QED BY <1>2, <1>7 DEF n

\* Before the end of the frame, each byte is one of it.
LEMMA SegmentOpens ==
  ASSUME NEW b \in 0 .. End[Total], NEW k \in 0 .. Total, End[k] < b
  PROVE  /\ k + 1 \in Frames
         /\ \A i \in 1 .. b - End[k] :
              i <= Lengths[k + 1] => Segment(End[k], b)[i] = <<k + 1, i>>
<1>0. End[Total] \in Nat /\ End[k] \in Nat
  BY LengthsType, EndType
<1>1. k + 1 \in Frames /\ (k + 1) - 1 = k
  <2>1. k # Total
    BY <1>0
  <2> QED BY <2>1, LengthsType DEF Frames, Total
<1>2. ASSUME NEW i \in 1 .. b - End[k], i <= Lengths[k + 1]
      PROVE  Segment(End[k], b)[i] = <<k + 1, i>>
  <2>1. Segment(End[k], b)[i] = ByteAt(End[k] + i)
    BY <1>0 DEF Segment
  <2>2. i \in 1 .. Lengths[k + 1]
    BY <1>1, <1>2, <1>0, FrameEnds
  <2>3. ByteAt(End[(k + 1) - 1] + i) = <<k + 1, i>>
    BY <1>1, <2>2, ByteIs
  <2> QED BY <2>1, <2>3, <1>1
<1> QED BY <1>1, <1>2

LEMMA LengthOfSegment ==
  ASSUME NEW b \in 0 .. End[Total], NEW k \in 0 .. Total, End[k] <= b
  PROVE  FrameLength(Segment(End[k], b)) = IF b - End[k] >= 9 THEN Lengths[k + 1] ELSE NoLength
<1> DEFINE d == Segment(End[k], b)
<1>0. End[Total] \in Nat /\ End[k] \in Nat /\ Len(d) = b - End[k]
  <2>1. End[Total] \in Nat /\ End[k] \in Nat
    BY LengthsType, EndType
  <2>2. End[k] \in 0 .. b
    BY <2>1
  <2> QED BY <2>1, <2>2, SegmentType
<1> HIDE DEF d
<1>1. CASE b - End[k] >= 9
  <2>1. k + 1 \in Frames /\ Lengths[k + 1] >= 12 /\ Lengths[k + 1] \in MinFrameLen .. MaxFrameLen
    <3>1. k + 1 \in Frames
      BY <1>0, <1>1, SegmentOpens
    <3> QED BY <3>1, FrameEnds, FrameAssumption DEF MinFrameLen
  <2>2. \A i \in 1 .. 9 : d[i] = <<k + 1, i>>
    <3> TAKE i \in 1 .. 9
    <3>1. i \in 1 .. b - End[k] /\ i <= Lengths[k + 1]
      BY <1>0, <1>1, <2>1, FrameEnds
    <3>2. End[k] < b
      BY <1>0, <1>1
    <3> QED BY <3>1, <3>2, SegmentOpens DEF d
  <2>3. OpensFrame(d) /\ DeclaredLength(d) = Lengths[k + 1]
    BY <2>1, <2>2, LengthReads
  <2>4. Len(d) >= HeaderLen
    BY <1>0, <1>1 DEF HeaderLen
  <2>5. FrameLength(d) = Lengths[k + 1]
    BY <2>1, <2>3, <2>4 DEF FrameLength
  <2> QED BY <2>5, <1>1 DEF d
<1>2. CASE ~ (b - End[k] >= 9)
  <2>1. ~ (Len(d) >= HeaderLen)
    BY <1>0, <1>2 DEF HeaderLen
  <2> QED BY <1>2, <2>1 DEF FrameLength, d
<1> QED BY <1>1, <1>2

\* The start of a frame is kept.
LEMMA SegmentCould ==
  ASSUME NEW b \in 0 .. End[Total], NEW k, Whole(k, b), End[k] < b
  PROVE  CouldOpenAFrame(Segment(End[k], b))
<1> DEFINE d == Segment(End[k], b)
<1>0. k \in 0 .. Total /\ End[k] <= b
  BY DEF Whole
<1>1. End[Total] \in Nat /\ End[k] \in Nat /\ Len(d) = b - End[k]
  <2>1. End[Total] \in Nat /\ End[k] \in Nat
    BY <1>0, LengthsType, EndType
  <2>2. End[k] \in 0 .. b
    BY <1>0, <2>1
  <2> QED BY <2>1, <2>2, SegmentType
<1>2. k + 1 \in Frames
  BY <1>0, SegmentOpens
<1>3. k < Total /\ b < End[k + 1] /\ End[k + 1] = End[k] + Lengths[k + 1] /\ Lengths[k + 1] >= 12
      /\ Lengths[k + 1] \in Nat
  BY <1>0, <1>2, FrameEnds DEF Whole, Frames, Total
<1> HIDE DEF d
<1>4. CASE b - End[k] >= 9
  <2>1. FrameLength(d) = Lengths[k + 1]
    BY <1>0, <1>4, LengthOfSegment DEF d
  <2>2. FrameLength(d) > Len(d)
    BY <2>1, <1>1, <1>3
  <2> QED BY <2>2 DEF CouldOpenAFrame, d
<1>5. CASE ~ (b - End[k] >= 9)
  <2>1. Len(d) < HeaderLen
    BY <1>1, <1>5 DEF HeaderLen
  <2>2. \A i \in 1 .. b - End[k] : d[i] = <<k + 1, i>>
    <3> TAKE i \in 1 .. b - End[k]
    <3>1. i <= Lengths[k + 1]
      BY <1>1, <1>3
    <3> QED BY <3>1, <1>0, SegmentOpens DEF d
  <2>3. d[1] = <<k + 1, 1>> /\ (Len(d) > 1 => d[2] = <<k + 1, 2>>)
    BY <2>2, <1>1
  <2>5. Value(<<k + 1, 1>>) = 88 /\ Value(<<k + 1, 2>>) = 2
    BY HeaderReads
  <2>4. Value(d[1]) = 88 /\ (Len(d) > 1 => Value(d[2]) = 2)
    BY <2>3, <2>5, Zenon
  <2> QED BY <2>1, <2>4 DEF CouldOpenAFrame, d
<1> QED BY <1>4, <1>5

\* The frames after the k-th, up to the j-th.
Run(k, j) == [x \in 1 .. j - k |-> FrameBytes(k + x)]

AllBytes == Sent(End[Total])

LEMMA FrameBytesType ==
  ASSUME NEW k \in Frames
  PROVE  /\ FrameBytes(k) \in Seq(AllBytes)
         /\ Len(FrameBytes(k)) = Lengths[k]
         /\ \A i \in 1 .. Lengths[k] : FrameBytes(k)[i] = <<k, i>>
<1>1. End[k - 1] \in 0 .. End[k] /\ End[k] \in 0 .. End[Total] /\ End[k] \in Nat /\ End[Total] \in Nat
  BY FrameEnds, LengthsType, EndType
<1>2. Segment(End[k - 1], End[k]) \in Seq(Sent(End[k]))
  BY <1>1, SegmentType
<1>3. Sent(End[k]) \subseteq AllBytes
  BY <1>1, SentGrows DEF AllBytes
<1>4. FrameBytes(k) \in Seq(AllBytes)
  BY <1>2, <1>3, FrameIsSegment
<1>5. Lengths[k] \in Nat
  BY FrameEnds
<1>6. Len(FrameBytes(k)) = Lengths[k]
  BY <1>5 DEF FrameBytes
<1> QED BY <1>4, <1>6 DEF FrameBytes

LEMMA RunType ==
  ASSUME NEW k \in 0 .. Total, NEW j \in k .. Total
  PROVE  /\ Run(k, j) \in Seq(Seq(AllBytes))
         /\ Len(Run(k, j)) = j - k
         /\ \A x \in 1 .. j - k : k + x \in Frames /\ Run(k, j)[x] = FrameBytes(k + x)
<1>1. \A x \in 1 .. j - k : k + x \in Frames
  BY LengthsType DEF Frames, Total
<1>2. \A x \in 1 .. j - k : FrameBytes(k + x) \in Seq(AllBytes)
  BY <1>1, FrameBytesType
<1>3. j - k \in Nat
  BY LengthsType
<1> QED BY <1>1, <1>2, <1>3 DEF Run

LEMMA RunStep ==
  ASSUME NEW k \in 0 .. Total, NEW j \in k .. Total, k < j
  PROVE  Run(k, j) = <<FrameBytes(k + 1)>> \o Run(k + 1, j)
<1>0. k + 1 \in 0 .. Total /\ j \in k + 1 .. Total /\ k + 1 \in Frames /\ k \in Nat /\ j \in Nat
  BY LengthsType DEF Frames, Total
<1> DEFINE S == Seq(AllBytes)
           a == Run(k, j)
           f == <<FrameBytes(k + 1)>>
           r == Run(k + 1, j)
           c == f \o r
<1>1. /\ a \in Seq(S) /\ Len(a) = j - k
      /\ \A x \in 1 .. j - k : a[x] = FrameBytes(k + x)
  BY RunType
<1>2. /\ r \in Seq(S) /\ Len(r) = j - (k + 1)
      /\ \A x \in 1 .. j - (k + 1) : r[x] = FrameBytes((k + 1) + x)
  BY <1>0, RunType
<1>3. f \in Seq(S) /\ Len(f) = 1 /\ f[1] = FrameBytes(k + 1)
  BY <1>0, FrameBytesType
<1> HIDE DEF S, a, f, r
<1>4. /\ c \in Seq(S) /\ Len(c) = Len(f) + Len(r)
      /\ \A x \in 1 .. Len(f) + Len(r) : c[x] = IF x <= Len(f) THEN f[x] ELSE r[x - Len(f)]
  BY <1>2, <1>3, ConcatProperties
<1> HIDE DEF c
<1>5. ASSUME NEW x \in 1 .. Len(a)
      PROVE  a[x] = c[x]
  <2>1. x \in 1 .. j - k /\ a[x] = FrameBytes(k + x) /\ x \in Nat
    BY <1>0, <1>1
  <2>2. CASE x = 1
    BY <2>1, <2>2, <1>0, <1>2, <1>3, <1>4
  <2>3. CASE x # 1
    <3>1. x - 1 \in 1 .. j - (k + 1) /\ (k + 1) + (x - 1) = k + x /\ ~ (x <= 1)
      BY <2>1, <2>3, <1>0
    <3>2. c[x] = r[x - 1]
      BY <3>1, <2>1, <1>0, <1>2, <1>3, <1>4
    <3>3. r[x - 1] = FrameBytes(k + x)
      BY <3>1, <1>2
    <3> QED BY <3>2, <3>3, <2>1
  <2> QED BY <2>2, <2>3
<1>6. Len(a) = Len(c)
  BY <1>0, <1>1, <1>2, <1>3, <1>4
<1>7. a = c
  BY <1>1, <1>4, <1>5, <1>6, SeqEqual
<1> QED BY <1>7 DEF a, c, f, r

\* What the walk finds from a frame on: those that are whole, and the rest.
Found(k, j, b) == [frames |-> Run(k, j), rest |-> Segment(End[j], b)]

LEMMA WalkFinds ==
  ASSUME NEW b \in 0 .. End[Total], NEW k \in 0 .. Total, NEW j \in k .. Total, Whole(j, b)
  PROVE  Walk(Segment(End[k], b)) = Found(k, j, b)
<1>0. /\ k \in Nat /\ j \in Nat /\ j \in 0 .. Total /\ k <= j
      /\ End[Total] \in Nat /\ End[k] \in Nat /\ End[j] \in Nat /\ End[j] <= b
      /\ Total \in Nat /\ b \in Nat /\ j <= Total /\ b <= End[Total]
  <2>1. Total \in Nat /\ k \in Nat /\ j \in Nat /\ j \in 0 .. Total /\ k <= j /\ j <= Total
    BY LengthsType
  <2>2. End[Total] \in Nat /\ End[k] \in Nat /\ End[j] \in Nat
    BY <2>1, EndType
  <2> QED BY <2>1, <2>2 DEF Whole
<1>1. ASSUME NEW l \in k .. j
      PROVE  End[l] \in Nat /\ End[k] <= End[l] /\ End[l] <= End[j] /\ l \in 0 .. Total
  <2>1. l \in 0 .. Total /\ End[l] \in Nat
    BY <1>0, LengthsType, EndType
  <2>2. ASSUME NEW x \in 0 .. Total, NEW y \in 0 .. Total, x <= y
        PROVE  End[x] <= End[y]
    <3>1. CASE x = 0
      BY <3>1, EndIs, EndType, LengthsType
    <3>2. CASE x # 0
      <4>1. x \in Frames
        BY <3>2, LengthsType DEF Frames, Total
      <4> QED BY <4>1, <2>2, EndsGrow
    <3> QED BY <3>1, <3>2
  <2> QED BY <2>1, <2>2, <1>0
<1> DEFINE d == Segment(End[k], b)
           c == CutOf(d)
           Start(l) == End[l] - End[k] + 1
           W == {m \in 0 .. j - k : c[Start(j - m)] = Found(j - m, j, b)}
<1>2. d \in Seq(Sent(b)) /\ Len(d) = b - End[k]
  <2>1. k \in k .. j /\ j \in k .. j
    BY <1>0
  <2>2. End[k] \in 0 .. b
    BY <2>1, <1>0, <1>1
  <2> QED BY <2>2, SegmentType
<1> HIDE DEF d
<1>3. ASSUME NEW l \in k .. j
      PROVE  /\ Start(l) \in 1 .. Len(d) + 1
             /\ From(d, Start(l)) = Segment(End[l], b)
             /\ FrameLength(From(d, Start(l))) = IF b - End[l] >= 9 THEN Lengths[l + 1] ELSE NoLength
             /\ Len(d) - Start(l) + 1 = b - End[l]
  <2>1. End[l] \in Nat /\ End[k] <= End[l] /\ End[l] <= b /\ l \in 0 .. Total
    BY <1>0, <1>1
  <2>2. Start(l) \in 1 .. b - End[k] + 1 /\ b - End[k] \in Start(l) - 1 .. b - End[k]
        /\ End[k] \in 0 .. b /\ End[k] + Start(l) - 1 = End[l] /\ End[k] + (b - End[k]) = b
    BY <2>1, <1>0
  <2>3. SubSeq(Segment(End[k], b), Start(l), b - End[k]) = Segment(End[k] + Start(l) - 1, End[k] + (b - End[k]))
    <3> HIDE DEF Start
    <3> QED BY <2>2, PartOfSegment
  <2>4. From(d, Start(l)) = Segment(End[l], b)
    BY <2>2, <2>3, <1>2 DEF From, d
  <2>5. FrameLength(Segment(End[l], b)) = IF b - End[l] >= 9 THEN Lengths[l + 1] ELSE NoLength
    BY <2>1, LengthOfSegment
  <2>6. Len(d) - Start(l) + 1 = b - End[l] /\ Start(l) \in 1 .. Len(d) + 1
    <3>1. Len(d) = b - End[k]
      BY <1>2
    <3>2. (b - End[k]) - (End[l] - End[k] + 1) + 1 = b - End[l]
          /\ End[l] - End[k] + 1 \in 1 .. (b - End[k]) + 1
      BY <2>1, <1>0
    <3> QED BY <3>1, <3>2
  <2> QED BY <2>4, <2>5, <2>6
<1>4. ASSUME NEW i \in 1 .. Len(d) + 1
      PROVE  c[i] = Cut(d, c, i)
  BY <1>2, CutIs
<1> HIDE DEF c, Start
<1>5. 0 \in W
  <2>1. j \in k .. j /\ j - 0 = j /\ 0 \in 0 .. j - k
    BY <1>0
  <2>2. /\ Start(j) \in 1 .. Len(d) + 1
        /\ From(d, Start(j)) = Segment(End[j], b)
        /\ FrameLength(From(d, Start(j))) = IF b - End[j] >= 9 THEN Lengths[j + 1] ELSE NoLength
        /\ Len(d) - Start(j) + 1 = b - End[j]
    BY <2>1, <1>3
  <2> DEFINE n == FrameLength(From(d, Start(j)))
  <2>3. n = NoLength \/ n > Len(d) - Start(j) + 1
    <3>1. CASE b - End[j] >= 9
      <4>1. j < Total
        BY <3>1, <1>0
      <4>2. b < End[j + 1] /\ j + 1 \in Frames /\ (j + 1) - 1 = j
        BY <4>1, <1>0, LengthsType DEF Whole, Frames, Total
      <4>3. End[j + 1] = End[j] + Lengths[j + 1] /\ Lengths[j + 1] \in Nat
        BY <4>2, FrameEnds
      <4>4. n = Lengths[j + 1]
        BY <3>1, <2>2
      <4>5. Lengths[j + 1] > b - End[j]
        BY <4>2, <4>3, <1>0
      <4>6. Len(d) - Start(j) + 1 = b - End[j]
        BY <2>2
      <4> HIDE DEF n
      <4> QED BY <4>4, <4>5, <4>6
    <3>2. CASE ~ (b - End[j] >= 9)
      BY <3>2, <2>2
    <3> QED BY <3>1, <3>2
  <2>4. Cut(d, c, Start(j)) = [frames |-> << >>, rest |-> Segment(End[j], b)]
    BY <2>2, <2>3 DEF Cut
  <2>5. Run(j, j) = << >>
    <3>1. Run(j, j) \in Seq(Seq(AllBytes)) /\ Len(Run(j, j)) = j - j /\ j - j = 0
      BY <1>0, RunType
    <3> QED BY <3>1
  <2>6. c[Start(j)] = Found(j, j, b)
    BY <2>2, <2>4, <2>5, <1>4, Zenon DEF Found
  <2> QED BY <2>1, <2>6
<1>6. ASSUME NEW m \in 0 .. (j - k) - 1, m \in W
      PROVE  m + 1 \in W
  <2> DEFINE l == j - (m + 1)
  <2>1. l \in k .. j /\ l + 1 \in k .. j /\ j - m = l + 1 /\ l < j /\ m + 1 \in 0 .. j - k /\ l \in Nat
    BY <1>0
  <2>2. c[Start(l + 1)] = Found(l + 1, j, b)
    BY <2>1, <1>6
  <2> HIDE DEF l
  <2>3. /\ Start(l) \in 1 .. Len(d) + 1
        /\ From(d, Start(l)) = Segment(End[l], b)
        /\ FrameLength(From(d, Start(l))) = IF b - End[l] >= 9 THEN Lengths[l + 1] ELSE NoLength
        /\ Len(d) - Start(l) + 1 = b - End[l]
    BY <2>1, <1>3
  <2>4. /\ l + 1 \in Frames /\ (l + 1) - 1 = l
        /\ End[l + 1] = End[l] + Lengths[l + 1] /\ Lengths[l + 1] \in Nat /\ Lengths[l + 1] >= 12
        /\ End[l + 1] <= b /\ End[l] \in Nat /\ End[l + 1] \in Nat /\ End[k] <= End[l]
    <3>1. l + 1 \in Frames /\ (l + 1) - 1 = l
      BY <2>1, <1>0, LengthsType DEF Frames, Total
    <3>2. End[l + 1] <= b /\ End[k] <= End[l]
      BY <2>1, <1>0, <1>1
    <3> QED BY <3>1, <3>2, FrameEnds
  <2> DEFINE n == FrameLength(From(d, Start(l)))
  <2>11. b - End[l] >= 9 /\ ~ (Lengths[l + 1] > b - End[l])
    BY <2>4, <1>0
  <2>5. n = Lengths[l + 1] /\ n # NoLength /\ ~ (n > Len(d) - Start(l) + 1)
    <3>1. n = Lengths[l + 1]
      BY <2>3, <2>11
    <3> HIDE DEF n
    <3> QED BY <3>1, <2>3, <2>4, <2>11 DEF NoLength
  <2>6. Start(l) + n = Start(l + 1)
    <3>1. Start(l) + Lengths[l + 1] = Start(l + 1)
      BY <2>4, <1>0 DEF Start
    <3> QED BY <3>1, <2>5
  <2>7. SubSeq(d, Start(l), Start(l) + n - 1) = FrameBytes(l + 1)
    <3>1. /\ Start(l) \in 1 .. b - End[k] + 1
          /\ Start(l) + n - 1 \in Start(l) - 1 .. b - End[k]
          /\ End[k] \in 0 .. b
          /\ End[k] + Start(l) - 1 = End[l]
          /\ End[k] + (Start(l) + n - 1) = End[l + 1]
      <4>1. n = Lengths[l + 1]
        BY <2>5
      <4> HIDE DEF n
      <4> QED BY <4>1, <2>4, <1>0 DEF Start
    <3>2. SubSeq(d, Start(l), Start(l) + n - 1)
            = Segment(End[k] + Start(l) - 1, End[k] + (Start(l) + n - 1))
      <4> HIDE DEF n
      <4> QED BY <3>1, PartOfSegment DEF d
    <3> QED BY <3>1, <3>2, <2>4, FrameIsSegment
  <2>8. Cut(d, c, Start(l))
          = [frames |-> <<FrameBytes(l + 1)>> \o Run(l + 1, j), rest |-> Segment(End[j], b)]
    <3>1. Cut(d, c, Start(l))
            = [frames |-> <<SubSeq(d, Start(l), Start(l) + n - 1)>> \o c[Start(l) + n].frames,
               rest   |-> c[Start(l) + n].rest]
      BY <2>5 DEF Cut
    <3>2. c[Start(l) + n].frames = Run(l + 1, j) /\ c[Start(l) + n].rest = Segment(End[j], b)
      BY <2>2, <2>6 DEF Found
    <3> HIDE DEF n
    <3> QED BY <3>1, <3>2, <2>7
  <2>9. <<FrameBytes(l + 1)>> \o Run(l + 1, j) = Run(l, j)
    <3>1. l \in 0 .. Total /\ j \in l .. Total
      BY <2>1, <1>0
    <3> QED BY <3>1, <2>1, RunStep
  <2>10. c[Start(l)] = Found(l, j, b)
    BY <2>3, <2>8, <2>9, <1>4 DEF Found
  <2> QED BY <2>1, <2>10 DEF l
<1> HIDE DEF W
<1>7. j - k \in W
  BY <1>0, <1>5, <1>6, InductionTo
<1>8. c[Start(k)] = Found(k, j, b) /\ Start(k) = 1
  <2>1. j - (j - k) = k
    BY <1>0
  <2> QED BY <2>1, <1>7, <1>0 DEF W, Start
<1> QED BY <1>8, WalkIs DEF c, d

\* Data that begins with a frame is taken apart exactly.
LEMMA SplitFinds ==
  ASSUME NEW b \in 0 .. End[Total], NEW k \in 0 .. Total, NEW j \in k .. Total, Whole(j, b),
         NEW joined \in Seq(Seq(AllBytes))
  PROVE  Split(joined, Segment(End[k], b))
           = [out |-> joined \o Run(k, j), pending |-> Segment(End[j], b)]
<1>0. /\ k \in Nat /\ j \in Nat /\ j \in 0 .. Total /\ k <= j
      /\ End[Total] \in Nat /\ End[k] \in Nat /\ End[j] \in Nat /\ End[j] <= b /\ b \in Nat
  <2>1. Total \in Nat /\ k \in Nat /\ j \in Nat /\ j \in 0 .. Total /\ k <= j /\ j <= Total
    BY LengthsType
  <2>2. End[Total] \in Nat /\ End[k] \in Nat /\ End[j] \in Nat
    BY <2>1, EndType
  <2> QED BY <2>1, <2>2 DEF Whole
<1>1. (k = j \/ End[k] < End[j]) /\ End[k] <= b
  <2>1. CASE k = j
    BY <2>1, <1>0
  <2>2. CASE k # j
    <3>1. j \in Frames
      BY <2>2, <1>0, LengthsType DEF Frames, Total
    <3>2. End[j] = End[j - 1] + Lengths[j] /\ Lengths[j] >= 12 /\ Lengths[j] \in Nat
          /\ j - 1 \in 0 .. Total /\ End[j - 1] \in Nat
      BY <3>1, FrameEnds
    <3>3. End[k] <= End[j - 1]
      <4>1. CASE k = 0
        BY <4>1, <3>2, EndIs
      <4>2. CASE k # 0
        <5>1. k \in Frames /\ k <= j - 1
          BY <4>2, <2>2, <1>0, LengthsType DEF Frames, Total
        <5> QED BY <5>1, <3>2, EndsGrow
      <4> QED BY <4>1, <4>2
    <3>4. End[k] < End[j]
      BY <3>2, <3>3, <1>0
    <3>5. End[k] <= b
      BY <3>4, <1>0
    <3> QED BY <3>4, <3>5
  <2> QED BY <2>1, <2>2
<1> DEFINE d == Segment(End[k], b)
           r == Segment(End[j], b)
<1>11. End[k] \in 0 .. b /\ End[j] \in 0 .. b
  BY <1>0, <1>1
<1>2. d = << >> <=> End[k] = b
  BY <1>11, SegmentType
<1>3. r = << >> <=> End[j] = b
  BY <1>11, SegmentType
<1>4. Walk(d).frames = Run(k, j) /\ Walk(d).rest = r
  <2>1. Walk(d) = Found(k, j, b)
    BY WalkFinds
  <2> HIDE DEF d
  <2> QED BY <2>1 DEF Found
<1>5. r # << >> => CouldOpenAFrame(r)
  BY <1>0, <1>3, SegmentCould
<1>6. Run(k, j) \in Seq(Seq(AllBytes)) /\ Len(Run(k, j)) = j - k
  BY <1>0, RunType
<1>7. Run(k, j) = << >> => j = k
  BY <1>0, <1>6
<1>8. j = k => d = r /\ joined \o Run(k, j) = joined
  <2> SUFFICES ASSUME j = k PROVE joined \o Run(k, j) = joined
    OBVIOUS
  <2>1. Run(k, j) = << >>
    BY <1>0, <1>6
  <2> QED BY <2>1, ConcatEmptySeq
<1>9. CASE d = << >>
  <2>1. j = k
    BY <1>0, <1>1, <1>2, <1>9
  <2>2. Split(joined, d) = [out |-> joined, pending |-> << >>]
    BY <1>9, Zenon DEF Split
  <2> QED BY <2>1, <2>2, <1>8, <1>9
<1>10. CASE d # << >>
  <2>1. ~ (Walk(d).frames = << >> /\ joined = << >> /\ ~ CouldOpenAFrame(d))
    BY <1>10, <1>4, <1>5, <1>7, <1>8
  <2>2. (IF Walk(d).rest # << >> /\ CouldOpenAFrame(Walk(d).rest) THEN Walk(d).rest ELSE << >>) = r
    BY <1>4, <1>5
  <2> HIDE DEF d, r
  <2>3. Split(joined, d)
          = [out     |-> joined \o Walk(d).frames,
             pending |-> IF Walk(d).rest # << >> /\ CouldOpenAFrame(Walk(d).rest)
                         THEN Walk(d).rest ELSE << >>]
    BY <1>10, <2>1 DEF Split
  <2>4. Split(joined, d) = [out |-> joined \o Run(k, j), pending |-> r]
    BY <2>2, <2>3, <1>4
  <2> QED BY <2>4 DEF d, r
<1> QED BY <1>9, <1>10

-----------------------------------------------------------------------------
(* What is decoded *)

Upto(out, u) ==
  [i \in 0 .. Len(out) |->
     IF i = 0 THEN << >>
     ELSE IF Decodes(out[i]) THEN Append(u[i - 1], out[i]) ELSE u[i - 1]]

LEMMA DecodedIs == \A out : Decoded(out) = (CHOOSE u : u = Upto(out, u))[Len(out)]
  BY DEF Decoded, Upto

LEMMA PrefixStep ==
  ASSUME NEW S, NEW s \in Seq(S), NEW i \in 1 .. Len(s)
  PROVE  Append(SubSeq(s, 1, i - 1), s[i]) = SubSeq(s, 1, i)
<1>1. SubSeq(s, 1, i) = SubSeq(s, 1, i - 1) \o <<s[i]>>
  BY SubSeqRecursiveSecond
<1>2. SubSeq(s, 1, i - 1) \in Seq(S) /\ s[i] \in S
  <2>1. \A x \in 1 .. i - 1 : s[x] \in S
    OBVIOUS
  <2>2. SubSeq(s, 1, i - 1) \in Seq(S)
    BY <2>1, SubSeqProperties
  <2> QED BY <2>2
<1> DEFINE p == SubSeq(s, 1, i - 1)
<1>3. p \in Seq(S) /\ s[i] \in S
  BY <1>2
<1> HIDE DEF p
<1>4. Append(p, s[i]) = p \o <<s[i]>>
  BY <1>3
<1> QED BY <1>1, <1>4 DEF p

\* If everything is decoded, then in its order.
LEMMA DecodedAll ==
  ASSUME NEW S, NEW s \in Seq(S), \A i \in 1 .. Len(s) : Decodes(s[i])
  PROVE  Decoded(s) = s
<1> DEFINE L == Len(s)
           p == [i \in 0 .. L |-> SubSeq(s, 1, i)]
<1>0. L \in Nat
  OBVIOUS
<1>1. SubSeq(s, 1, 0) = << >>
  BY SubSeqEmpty
<1>2. p = Upto(s, p)
  <2>1. ASSUME NEW i \in 0 .. L
        PROVE  p[i] = IF i = 0 THEN << >>
                      ELSE IF Decodes(s[i]) THEN Append(p[i - 1], s[i]) ELSE p[i - 1]
    <3>1. CASE i = 0
      BY <3>1, <1>1
    <3>2. CASE i # 0
      <4>1. i \in 1 .. L /\ i - 1 \in 0 .. L
        BY <3>2, <1>0
      <4>2. Append(SubSeq(s, 1, i - 1), s[i]) = SubSeq(s, 1, i)
        BY <4>1, PrefixStep
      <4>3. p[i] = SubSeq(s, 1, i) /\ p[i - 1] = SubSeq(s, 1, i - 1) /\ Decodes(s[i])
        BY <4>1
      <4> QED BY <3>2, <4>2, <4>3
    <3> QED BY <3>1, <3>2
  <2>2. p = [i \in 0 .. L |-> p[i]]
    OBVIOUS
  <2> HIDE DEF p
  <2> QED BY <2>1, <2>2 DEF Upto
<1> DEFINE u == CHOOSE x : x = Upto(s, x)
<1>3. u = Upto(s, u)
  <2> HIDE DEF p
  <2> QED BY <1>2
<1> HIDE DEF u
<1> DEFINE W == {i \in 0 .. L : u[i] = SubSeq(s, 1, i)}
<1>4. 0 \in W
  BY <1>0, <1>1, <1>3 DEF Upto
<1>5. ASSUME NEW n \in 0 .. L - 1, n \in W
      PROVE  n + 1 \in W
  <2>1. n + 1 \in 1 .. L /\ n + 1 \in 0 .. L /\ (n + 1) - 1 = n /\ n + 1 # 0
    BY <1>0
  <2>2. Append(SubSeq(s, 1, n), s[n + 1]) = SubSeq(s, 1, n + 1)
    BY <2>1, PrefixStep
  <2>3. Decodes(s[n + 1])
    BY <2>1
  <2>4. u[n + 1] = Append(u[n], s[n + 1])
    BY <2>1, <2>3, <1>3 DEF Upto
  <2> QED BY <2>1, <2>2, <2>4, <1>5
<1> HIDE DEF W, L
<1>6. L \in W
  BY <1>0, <1>4, <1>5, InductionTo
<1>7. u[L] = SubSeq(s, 1, L)
  BY <1>6 DEF W
<1>8. SubSeq(s, 1, L) = s
  BY SubSeqFull DEF L
<1> QED BY <1>7, <1>8, DecodedIs DEF u, L

LEMMA DecodedNone ==
  ASSUME NEW d, ~ Decodes(d)
  PROVE  Decoded(<<d>>) = << >>
<1> DEFINE p == [i \in 0 .. 1 |-> << >>]
<1>1. Len(<<d>>) = 1 /\ <<d>>[1] = d
  OBVIOUS
<1>2. p = Upto(<<d>>, p)
  BY <1>1 DEF Upto
<1> DEFINE u == CHOOSE x : x = Upto(<<d>>, x)
<1>3. u = Upto(<<d>>, u)
  <2> HIDE DEF p
  <2> QED BY <1>2
<1> HIDE DEF u
<1>4. u[0] = << >> /\ u[1] = u[0]
  BY <1>1, <1>3 DEF Upto
<1> QED BY <1>1, <1>4, DecodedIs DEF u

-----------------------------------------------------------------------------
(* What is held *)

LEMMA RestType ==
  ASSUME NEW S, NEW d \in Seq(S)
  PROVE  Walk(d).rest \in Seq(S)
<1> DEFINE L == Len(d) + 1
           c == CutOf(d)
           Bad(m) == ~ (c[L - m].rest \in Seq(S))
           W == {m \in Nat : m <= L - 1 /\ Bad(m)}
<1>0. L \in Nat /\ L >= 1
  OBVIOUS
<1>1. ASSUME NEW i \in 1 .. L
      PROVE  c[i] = Cut(d, c, i) /\ From(d, i) \in Seq(S)
  <2>1. c[i] = Cut(d, c, i)
    BY CutIs
  <2>2. From(d, i) \in Seq(S)
    <3>1. \A x \in i .. Len(d) : d[x] \in S
      OBVIOUS
    <3>2. i \in Int /\ Len(d) \in Int
      OBVIOUS
    <3> QED BY <3>1, <3>2, SubSeqProperties DEF From
  <2> QED BY <2>1, <2>2
<1>2. ASSUME W # {}
      PROVE  FALSE
  <2>1. W \in SUBSET Nat
    OBVIOUS
  <2>2. PICK m \in W : \A y \in W : m <= y
    BY <1>2, <2>1, LeastNumber
  <2> DEFINE i == L - m
             n == FrameLength(From(d, i))
  <2>3. m \in Nat /\ m <= L - 1 /\ i \in 1 .. L /\ ~ (c[i].rest \in Seq(S))
    BY <2>2, <1>0
  <2>4. c[i] = Cut(d, c, i) /\ From(d, i) \in Seq(S)
    BY <2>3, <1>1
  <2>5. CASE n = NoLength \/ n > Len(d) - i + 1
    <3>1. Cut(d, c, i).rest = From(d, i)
      BY <2>5 DEF Cut
    <3> QED BY <3>1, <2>3, <2>4
  <2>6. CASE ~ (n = NoLength \/ n > Len(d) - i + 1)
    <3>1. Cut(d, c, i).rest = c[i + n].rest
      BY <2>6 DEF Cut
    <3>2. n \in Nat /\ n >= 12
      BY <2>6, FrameLengthType
    <3> DEFINE y == m - n
    <3>3. i + n = L - y /\ y \in Nat /\ y <= L - 1 /\ ~ (m <= y)
      <4> HIDE DEF n
      <4>1. ~ (n > L - 1 - i + 1)
        BY <2>6
      <4> QED BY <4>1, <3>2, <2>3, <1>0
    <3> HIDE DEF n, y
    <3>4. y \notin W
      BY <2>2, <3>3
    <3>5. c[i + n].rest \in Seq(S)
      BY <3>3, <3>4
    <3> QED BY <3>1, <3>5, <2>3, <2>4
  <2> QED BY <2>5, <2>6
<1>3. c[1].rest \in Seq(S)
  <2>1. L - 1 \in Nat /\ L - (L - 1) = 1 /\ L - 1 <= L - 1
    BY <1>0
  <2>2. L - 1 \notin W
    BY <1>2
  <2>3. ~ Bad(L - 1)
    <3> HIDE DEF Bad, L
    <3> QED BY <2>1, <2>2
  <2>4. c[L - (L - 1)].rest \in Seq(S)
    BY <2>3
  <2> HIDE DEF c, L
  <2> QED BY <2>1, <2>4
<1> QED BY <1>3, WalkIs

\* Not a whole frame: too short to say, or shorter than it says.
Unfinished(p) == Len(p) < HeaderLen \/ FrameLength(p) > Len(p)

LEMMA SplitHolds ==
  ASSUME NEW S, NEW d \in Seq(S), NEW joined
  PROVE  Split(joined, d).pending \in Seq(S) /\ Unfinished(Split(joined, d).pending)
<1> DEFINE r == Walk(d).rest
           p == Split(joined, d).pending
<1>1. p = << >> \/ (p = r /\ CouldOpenAFrame(r))
  BY DEF Split
<1>2. r \in Seq(S)
  BY RestType
<1> HIDE DEF p, r
<1>3. CASE p = << >>
  <2>1. << >> \in Seq(S) /\ Len(<< >>) < 9
    OBVIOUS
  <2> QED BY <2>1, <1>3 DEF p, Unfinished, HeaderLen
<1>4. CASE p = r /\ CouldOpenAFrame(r)
  <2>1. Unfinished(r)
    BY <1>4 DEF CouldOpenAFrame, Unfinished
  <2> QED BY <2>1, <1>2, <1>4 DEF p
<1> QED BY <1>1, <1>3, <1>4

LEMMA FeedHolds ==
  ASSUME NEW S, NEW p \in Seq(S), NEW d \in Seq(S)
  PROVE  FeedOn(p, d).pending \in Seq(S) /\ Unfinished(FeedOn(p, d).pending)
<1> DEFINE joined == p \o d
           n == FrameLength(joined)
<1>1. joined \in Seq(S)
  OBVIOUS
<1>2. n = NoLength \/ n \in Nat
  BY FrameLengthType
<1>3. CASE p # << >> /\ n > Len(joined)
  <2>1. FeedOn(p, d) = [out |-> << >>, pending |-> joined]
    BY <1>3 DEF FeedOn
  <2> QED BY <2>1, <1>1, <1>3 DEF Unfinished
<1>4. CASE ~ (p # << >> /\ n > Len(joined)) /\ p # << >> /\ n \in 1 .. Len(joined)
           /\ CrcOk(SubSeq(joined, 1, n))
  <2>1. FeedOn(p, d) = Split(<<SubSeq(joined, 1, n)>>, From(joined, n + 1))
    BY <1>4 DEF FeedOn
  <2>2. From(joined, n + 1) \in Seq(S)
    <3>1. \A x \in n + 1 .. Len(joined) : joined[x] \in S
      BY <1>1, <1>4
    <3>2. n + 1 \in Int /\ Len(joined) \in Int
      BY <1>1, <1>4
    <3> HIDE DEF joined, n
    <3> QED BY <3>1, <3>2, SubSeqProperties DEF From
  <2> HIDE DEF joined, n
  <2> QED BY <2>1, <2>2, SplitHolds
<1>5. CASE ~ (p # << >> /\ n > Len(joined))
           /\ ~ (p # << >> /\ n \in 1 .. Len(joined) /\ CrcOk(SubSeq(joined, 1, n)))
  <2>1. FeedOn(p, d) = Split(<< >>, d)
    BY <1>5 DEF FeedOn
  <2> QED BY <2>1, SplitHolds
<1> QED BY <1>3, <1>4, <1>5

\* What is held was sent, and is not a whole frame.
HeldOk ==
  /\ at \in 0 .. End[Total]
  /\ pending \in Seq(Sent(at))
  /\ Unfinished(pending)

LEMMA NotificationIs ==
  ASSUME at \in 0 .. End[Total], NEW n \in 1 .. Mtu, NextNotification(n)
  PROVE  /\ at' = at + n /\ at' \in 0 .. End[Total] /\ at \in 0 .. at' /\ n = at' - at /\ n \in Nat
         /\ at < at' /\ at' \in Nat /\ at \in Nat
         /\ [i \in 1 .. n |-> ByteAt(at + i)] = Segment(at, at')
<1>1. End[Total] \in Nat
  BY LengthsType, EndType
<1>2. n \in Nat /\ n >= 1
  BY FrameAssumption
<1>3. at + n <= End[Total] /\ at' = at + n
  BY DEF NextNotification, Total
<1>4. n = (at + n) - at
  BY <1>1, <1>2
<1> QED BY <1>1, <1>2, <1>3, <1>4 DEF Segment

LEMMA HeldInit == Init => HeldOk
<1>1. << >> \in Seq(Sent(0)) /\ Len(<< >>) < 9
  OBVIOUS
<1>2. 0 \in 0 .. End[Total]
  BY LengthsType, EndType
<1> QED BY <1>1, <1>2 DEF Init, HeldOk, Unfinished, HeaderLen

LEMMA HeldNext == HeldOk /\ [Next]_vars => HeldOk'
<1> SUFFICES ASSUME HeldOk, [Next]_vars PROVE HeldOk'
  OBVIOUS
<1>0. at \in 0 .. End[Total] /\ pending \in Seq(Sent(at)) /\ Unfinished(pending)
  BY DEF HeldOk
<1>1. ASSUME NEW n \in 1 .. Mtu, NextNotification(n)
      PROVE  /\ at' \in 0 .. End[Total]
             /\ pending \in Seq(Sent(at'))
             /\ [i \in 1 .. n |-> ByteAt(at + i)] \in Seq(Sent(at'))
  <2>1. at' \in 0 .. End[Total] /\ at \in 0 .. at' /\ at \in Nat /\ at' \in Nat
        /\ [i \in 1 .. n |-> ByteAt(at + i)] = Segment(at, at')
    BY <1>0, <1>1, NotificationIs
  <2>2. Segment(at, at') \in Seq(Sent(at'))
    BY <2>1, SegmentType
  <2>3. Sent(at) \subseteq Sent(at')
    BY <2>1, SentGrows
  <2>4. pending \in Seq(Sent(at'))
    BY <1>0, <2>3
  <2> QED BY <2>1, <2>2, <2>4
<1>2. ASSUME NEW n \in 1 .. Mtu, Feed(n)
      PROVE  HeldOk'
  <2> DEFINE d == [i \in 1 .. n |-> ByteAt(at + i)]
  <2>1. NextNotification(n) /\ pending' = FeedOn(pending, d).pending
    BY <1>2 DEF Feed
  <2>2. at' \in 0 .. End[Total] /\ pending \in Seq(Sent(at')) /\ d \in Seq(Sent(at'))
    BY <1>1, <2>1
  <2> HIDE DEF d
  <2>3. FeedOn(pending, d).pending \in Seq(Sent(at')) /\ Unfinished(FeedOn(pending, d).pending)
    BY <2>2, FeedHolds
  <2>4. Unfinished(pending')
    BY <2>1, <2>3
  <2> QED BY <2>1, <2>2, <2>3, <2>4 DEF HeldOk, Unfinished
<1>3. ASSUME NEW n \in 1 .. Mtu, Lose(n)
      PROVE  HeldOk'
  <2>1. NextNotification(n) /\ pending' = pending
    BY <1>3 DEF Lose
  <2> QED BY <1>0, <1>1, <2>1 DEF HeldOk, Unfinished
<1>4. CASE Reset
  <2>1. << >> \in Seq(Sent(at)) /\ Len(<< >>) < 9
    OBVIOUS
  <2> QED BY <1>0, <1>4, <2>1 DEF Reset, HeldOk, Unfinished, HeaderLen
<1>5. CASE UNCHANGED vars
  BY <1>0, <1>5 DEF vars, HeldOk, Unfinished
<1> QED BY <1>2, <1>3, <1>4, <1>5 DEF Next

\* Whatever is lost, what is held for the next notification is shorter than the
\* longest frame.
THEOREM PendingIsBounded == Spec => []PendingBounded
<1>1. HeldOk => PendingBounded
  <2> SUFFICES ASSUME HeldOk PROVE Len(pending) < MaxFrameLen
    BY DEF PendingBounded
  <2>1. pending \in Seq(Sent(at)) /\ Unfinished(pending)
    BY DEF HeldOk
  <2>2. Len(pending) \in Nat
    BY <2>1
  <2>3. Len(pending) < 9 \/ FrameLength(pending) > Len(pending)
    BY <2>1 DEF Unfinished, HeaderLen
  <2>4. MaxFrameLen \in Nat /\ MaxFrameLen > 9
    BY FrameAssumption DEF HeaderLen
  <2>5. FrameLength(pending) = 0 \/ (FrameLength(pending) \in Nat /\ FrameLength(pending) <= MaxFrameLen)
    BY FrameLengthType DEF NoLength
  <2> QED BY <2>2, <2>3, <2>4, <2>5
<1> QED BY HeldInit, HeldNext, <1>1, PTL DEF Spec

-----------------------------------------------------------------------------
(* One notification *)

LEMMA LengthOfStart ==
  ASSUME NEW S, NEW p \in Seq(S), NEW d \in Seq(S), Len(p) >= HeaderLen
  PROVE  FrameLength(p \o d) = FrameLength(p)
<1> DEFINE c == p \o d
<1>1. /\ c \in Seq(S) /\ Len(c) = Len(p) + Len(d)
      /\ \A i \in 1 .. Len(p) + Len(d) : c[i] = IF i <= Len(p) THEN p[i] ELSE d[i - Len(p)]
  BY ConcatProperties
<1> HIDE DEF c
<1>2. Len(p) \in Nat /\ Len(d) \in Nat /\ Len(p) >= 9
  BY DEF HeaderLen
<1>3. \A i \in 1 .. 9 : c[i] = p[i]
  BY <1>1, <1>2
<1>4. c[1] = p[1] /\ c[2] = p[2] /\ c[6] = p[6] /\ c[7] = p[7] /\ c[8] = p[8] /\ c[9] = p[9]
  BY <1>3
<1>5. OpensFrame(c) <=> OpensFrame(p)
  BY <1>4 DEF OpensFrame
<1>6. Len(c) >= HeaderLen
  BY <1>1, <1>2 DEF HeaderLen
<1>8. DeclaredLength(c) = DeclaredLength(p)
  BY <1>4 DEF DeclaredLength
<1>7. FrameLength(c) = FrameLength(p)
  BY <1>5, <1>6, <1>8 DEF FrameLength
<1> QED BY <1>7 DEF c

\* A half frame completed by a notification is the frame that it was the start
\* of, and what is left begins with a frame.
LEMMA JoinIs ==
  ASSUME NEW b \in 0 .. End[Total], NEW a \in 0 .. b,
         NEW p \in Seq(AllBytes), p # << >>, Unfinished(p),
         NEW n, n = FrameLength(p \o Segment(a, b)), n \in 1 .. Len(p \o Segment(a, b)),
         CrcOk(SubSeq(p \o Segment(a, b), 1, n))
  PROVE  \E k \in Frames :
           /\ p[1] = <<k, 1>>
           /\ SubSeq(p \o Segment(a, b), 1, n) = FrameBytes(k)
           /\ a < End[k] /\ End[k] <= b
           /\ From(p \o Segment(a, b), n + 1) = Segment(End[k], b)
<1> DEFINE d == Segment(a, b)
           c == p \o d
           P == Len(p)
           f == SubSeq(c, 1, n)
<1>0. End[Total] \in Nat /\ a \in Nat /\ b \in Nat /\ b - a \in Nat /\ b <= End[Total]
  BY LengthsType, EndType
<1>1. /\ d \in Seq(AllBytes) /\ Len(d) = b - a
      /\ \A i \in 1 .. b - a : d[i] = ByteAt(a + i)
  <2>1. Sent(b) \subseteq AllBytes
    BY <1>0, SentGrows DEF AllBytes
  <2>2. d \in Seq(Sent(b))
    BY SegmentType
  <2>3. d \in Seq(AllBytes)
    BY <2>1, <2>2
  <2> QED BY <2>3, SegmentType
<1> HIDE DEF d
<1>2. /\ c \in Seq(AllBytes) /\ Len(c) = P + (b - a) /\ P \in Nat /\ P >= 1
      /\ \A i \in 1 .. P + (b - a) : c[i] = IF i <= P THEN p[i] ELSE d[i - P]
  <2>1. /\ c \in Seq(AllBytes) /\ Len(c) = P + Len(d)
        /\ \A i \in 1 .. P + Len(d) : c[i] = IF i <= P THEN p[i] ELSE d[i - P]
    BY <1>1, ConcatProperties
  <2> QED BY <2>1, <1>1
<1>3. n = FrameLength(c) /\ n \in 1 .. Len(c) /\ CrcOk(f)
  BY DEF d
<1>4. n \in Nat /\ n >= 12 /\ n <= P + (b - a)
  <2>1. n \in Nat /\ n # 0
    BY <1>2, <1>3
  <2> QED BY <2>1, <1>2, <1>3, FrameLengthType DEF NoLength
<1>5. n > P
  <2>1. CASE P >= HeaderLen
    <3>1. FrameLength(c) = FrameLength(p)
      BY <2>1, <1>1, LengthOfStart
    <3>2. FrameLength(p) > P
      BY <2>1, <1>2 DEF Unfinished, HeaderLen
    <3> QED BY <3>1, <3>2, <1>3
  <2>2. CASE ~ (P >= HeaderLen)
    BY <2>2, <1>2, <1>4 DEF HeaderLen
  <2> QED BY <2>1, <2>2
<1>6. PICK k \in Frames : f = FrameBytes(k)
  BY <1>3 DEF CrcOk
<1>7. Len(f) = n /\ \A i \in 1 .. n : f[i] = c[i]
  <2>1. \A i \in 1 .. n : c[i] \in AllBytes
    BY <1>2, <1>3
  <2>2. 1 \in Int /\ n \in Int /\ n - 1 + 1 = n /\ \A i \in 1 .. n : 1 + i - 1 = i
    BY <1>4
  <2>3. /\ Len(SubSeq(c, 1, n)) = IF 1 <= n THEN n - 1 + 1 ELSE 0
        /\ \A i \in 1 .. n - 1 + 1 : SubSeq(c, 1, n)[i] = c[1 + i - 1]
    <3> HIDE DEF c
    <3> QED BY <2>1, <2>2, SubSeqProperties
  <2> HIDE DEF c
  <2> QED BY <2>2, <2>3, <1>4
<1> HIDE DEF c, f, P
<1>8. n = Lengths[k] /\ \A i \in 1 .. n : c[i] = <<k, i>>
  BY <1>6, <1>7, FrameBytesType
<1>9. p[1] = <<k, 1>>
  <2>1. c[1] = p[1] /\ c[1] = <<k, 1>>
    BY <1>2, <1>4, <1>8, <1>0
  <2> QED BY <2>1
<1> DEFINE m == a + (n - P)
<1>15. /\ a \in Nat /\ b \in Nat /\ P \in Nat /\ n \in Nat /\ End[Total] \in Nat
       /\ n > P /\ n <= P + (b - a) /\ n >= 12 /\ a <= b /\ b <= End[Total] /\ P >= 1
  BY <1>0, <1>2, <1>4, <1>5
<1>16. m = a + (n - P)
  OBVIOUS
<1> HIDE DEF m
<1>10. m \in 1 .. End[Total] /\ m \in Nat /\ a < m /\ m <= b /\ n - P \in 1 .. b - a
  <2> DEFINE e == n - P
  <2>1. e \in Int /\ e >= 1 /\ e <= b - a /\ m = a + e
    BY <1>15, <1>16
  <2> HIDE DEF e
  <2>2. e \in 1 .. b - a
    BY <2>1, <1>15
  <2>3. m \in Nat /\ a < m /\ m <= b
    BY <2>1, <1>15
  <2>4. m \in 1 .. End[Total]
    BY <2>3, <1>15
  <2> QED BY <2>2, <2>3, <2>4 DEF e
<1>18. \A i \in Nat : i >= 1 /\ i <= b - m =>
         /\ (n + 1) + i - 1 = n + i
         /\ n + i \in P + 1 .. P + (b - a)
         /\ a + ((n + i) - P) = m + i
  <2> TAKE i \in Nat
  <2> HAVE i >= 1 /\ i <= b - m
  <2>1. i <= b - (a + (n - P)) /\ i >= 1
    BY <1>16
  <2>2. n + i >= P + 1
    BY <1>15, <2>1
  <2>3. n + i <= P + (b - a)
    BY <1>15, <2>1
  <2>4. n + i \in P + 1 .. P + (b - a)
    BY <1>15, <2>2, <2>3
  <2>5. a + ((n + i) - P) = (a + (n - P)) + i
    BY <1>15
  <2>6. (n + 1) + i - 1 = n + i
    BY <1>15
  <2> QED BY <2>4, <2>5, <2>6, <1>16
<1>17. \A i \in P + 1 .. P + (b - a) : c[i] = ByteAt(a + (i - P))
  <2> TAKE i \in P + 1 .. P + (b - a)
  <2>1. i \in 1 .. P + (b - a) /\ ~ (i <= P) /\ i - P \in 1 .. b - a
    BY <1>15
  <2>2. c[i] = d[i - P]
    BY <2>1, <1>2
  <2> QED BY <2>1, <2>2, <1>1
<1>11. ByteAt(m) = <<k, n>>
  <2>1. c[n] = ByteAt(m)
    <3>1. n \in P + 1 .. P + (b - a)
      BY <1>15
    <3> QED BY <3>1, <1>16, <1>17
  <2>2. n \in 1 .. n
    BY <1>4
  <2> QED BY <2>1, <2>2, <1>8
<1>12. m = End[k]
  <2>1. PICK kk \in Frames : \E i \in 1 .. Lengths[kk] : m = End[kk - 1] + i /\ ByteAt(m) = <<kk, i>>
    BY <1>10, ByteOf
  <2>2. PICK i \in 1 .. Lengths[kk] : m = End[kk - 1] + i /\ ByteAt(m) = <<kk, i>>
    BY <2>1
  <2>3. kk = k /\ i = n
    BY <2>2, <1>11
  <2>4. m = End[k - 1] + Lengths[k]
    BY <2>2, <2>3, <1>8
  <2> QED BY <2>4, FrameEnds
<1>13. From(c, n + 1) = Segment(End[k], b)
  <2> DEFINE r == SubSeq(c, n + 1, Len(c))
             e == Segment(m, b)
             L == P + (b - a)
  <2>1. L \in Nat /\ L - n = b - m /\ b - m \in Nat
    BY <1>15, <1>16
  <2>2. \A i \in n + 1 .. L : c[i] \in AllBytes
    <3>1. c \in Seq(AllBytes) /\ Len(c) = L
      BY <1>2
    <3> HIDE DEF L
    <3> QED BY <3>1, <1>15, <2>1
  <2>3. /\ r \in Seq(AllBytes)
        /\ Len(r) = IF n + 1 <= L THEN L - (n + 1) + 1 ELSE 0
        /\ \A i \in 1 .. L - (n + 1) + 1 : r[i] = c[(n + 1) + i - 1]
    <3>1. n + 1 \in Int /\ L \in Int /\ Len(c) = L
      BY <1>2, <1>4, <2>1
    <3> HIDE DEF L
    <3> QED BY <3>1, <2>2, SubSeqProperties
  <2>4. L - (n + 1) + 1 = b - m /\ Len(r) = b - m
    <3>1. Len(r) = IF n + 1 <= L THEN L - (n + 1) + 1 ELSE 0
      BY <2>3
    <3> HIDE DEF r, L
    <3> QED BY <3>1, <2>1, <1>4
  <2>5. /\ e \in Seq(Sent(b)) /\ Len(e) = b - m
        /\ \A i \in 1 .. b - m : e[i] = ByteAt(m + i)
    <3>1. m \in 0 .. b
      BY <1>10, <1>0
    <3> QED BY <3>1, SegmentType
  <2>6. e \in Seq(AllBytes)
    <3>1. Sent(b) \subseteq AllBytes
      BY <1>0, SentGrows DEF AllBytes
    <3> HIDE DEF e
    <3> QED BY <3>1, <2>5
  <2>7. ASSUME NEW i \in 1 .. b - m
        PROVE  r[i] = e[i]
    <3>1. r[i] = c[(n + 1) + i - 1]
      BY <2>3, <2>4
    <3>4. i \in Nat /\ i >= 1 /\ i <= b - m
      BY <1>15, <1>10
    <3> DEFINE x == n + i
    <3>2. (n + 1) + i - 1 = x /\ x \in P + 1 .. P + (b - a) /\ a + (x - P) = m + i
      BY <3>4, <1>18
    <3> HIDE DEF x
    <3>3. c[x] = ByteAt(m + i)
      BY <3>2, <1>17
    <3> HIDE DEF r, e
    <3> QED BY <3>1, <3>2, <3>3, <2>5
  <2> HIDE DEF r, e, L
  <2>8. r = e
    BY <2>3, <2>4, <2>5, <2>6, <2>7, SeqEqual
  <2> QED BY <2>8, <1>12 DEF From, r, e
<1>14. a < End[k] /\ End[k] <= b
  BY <1>10, <1>12
<1> QED BY <1>6, <1>9, <1>13, <1>14 DEF c, f, d

-----------------------------------------------------------------------------
(* Data that begins inside a frame *)

\* Inside a frame no two bytes read as the start of one.
NoFalseStart ==
  \A k \in Frames : \A i \in 2 .. Lengths[k] - 1 :
    ~ (Value(<<k, i>>) = 88 /\ Value(<<k, i + 1>>) = 2)

LEMMA OutOfStep ==
  ASSUME NoFalseStart,
         NEW b \in 0 .. End[Total], NEW a \in 0 .. b, a < b,
         \A k \in 0 .. Total : End[k] # a
  PROVE  /\ FrameLength(Segment(a, b)) = NoLength
         /\ ~ Decodes(Segment(a, b))
         /\ Segment(a, b)[1][2] # 1
<1> DEFINE d == Segment(a, b)
<1>0. End[Total] \in Nat /\ a \in Nat /\ b \in Nat /\ b <= End[Total]
  BY LengthsType, EndType
<1>1. Len(d) = b - a /\ \A i \in 1 .. b - a : d[i] = ByteAt(a + i)
  BY SegmentType
<1> HIDE DEF d
<1>2. PICK k \in Frames : \E i \in 1 .. Lengths[k] : a + 1 = End[k - 1] + i /\ ByteAt(a + 1) = <<k, i>>
  <2>1. a + 1 \in 1 .. End[Total]
    BY <1>0
  <2> QED BY <2>1, ByteOf
<1>3. PICK i \in 1 .. Lengths[k] : a + 1 = End[k - 1] + i /\ ByteAt(a + 1) = <<k, i>>
  BY <1>2
<1>4. /\ Lengths[k] \in Nat /\ i \in Nat /\ End[k - 1] \in Nat /\ k - 1 \in 0 .. Total
      /\ End[k] = End[k - 1] + Lengths[k] /\ k \in 0 .. Total
  BY FrameEnds
<1>5. i # 1
  <2>1. End[k - 1] # a
    BY <1>4
  <2> QED BY <2>1, <1>0, <1>3, <1>4
<1>6. d[1] = <<k, i>>
  <2>1. 1 \in 1 .. b - a
    BY <1>0
  <2> QED BY <2>1, <1>1, <1>3
<1>7. CASE b - a < 9
  <2>1. ~ (Len(d) >= HeaderLen) /\ ~ (Len(d) >= 10)
    BY <1>0, <1>1, <1>7 DEF HeaderLen
  <2>2. FrameLength(d) = NoLength
    BY <2>1 DEF FrameLength
  <2>3. ~ Decodes(d)
    BY <2>1 DEF Decodes
  <2> QED BY <2>2, <2>3, <1>5, <1>6 DEF d
<1>8. CASE ~ (b - a < 9)
  <2>1. 2 \in 1 .. b - a /\ d[2] = ByteAt(a + 2)
    BY <1>0, <1>1, <1>8
  <2>2. ~ (Value(d[1]) = 88 /\ Value(d[2]) = 2)
    <3>1. CASE i < Lengths[k]
      <4>1. i + 1 \in 1 .. Lengths[k] /\ i \in 2 .. Lengths[k] - 1 /\ End[k - 1] + (i + 1) = a + 2
        BY <3>1, <1>0, <1>3, <1>4, <1>5
      <4>2. d[2] = <<k, i + 1>>
        BY <4>1, <2>1, ByteIs
      <4>3. ~ (Value(<<k, i>>) = 88 /\ Value(<<k, i + 1>>) = 2)
        BY <4>1 DEF NoFalseStart
      <4> QED BY <4>2, <4>3, <1>6
    <3>2. CASE ~ (i < Lengths[k])
      <4>1. End[k] + 1 = a + 2 /\ End[k] < b
        BY <3>2, <1>0, <1>3, <1>4, <1>8
      <4>2. k + 1 \in Frames
        BY <4>1, <1>4, SegmentOpens
      <4>3. 1 \in 1 .. Lengths[k + 1] /\ (k + 1) - 1 = k
        BY <4>2, <1>4, FrameEnds DEF Frames
      <4>4. ByteAt(End[(k + 1) - 1] + 1) = <<k + 1, 1>>
        BY <4>2, <4>3, ByteIs
      <4>5. d[2] = <<k + 1, 1>>
        BY <4>1, <4>3, <4>4, <2>1
      <4>6. Value(<<k + 1, 1>>) = 88
        BY HeaderReads
      <4> QED BY <4>5, <4>6
    <3> QED BY <3>1, <3>2
  <2>3. ~ OpensFrame(d)
    BY <2>2 DEF OpensFrame
  <2>4. FrameLength(d) = NoLength
    BY <2>3 DEF FrameLength
  <2>5. ~ Decodes(d)
    BY <2>3 DEF Decodes
  <2> QED BY <2>4, <2>5, <1>5, <1>6 DEF d
<1> QED BY <1>7, <1>8

\* Nothing of such data is decoded.
LEMMA SplitOfNothing ==
  ASSUME NEW S, NEW d \in Seq(S), FrameLength(d) = NoLength, ~ Decodes(d)
  PROVE  /\ Decoded(Split(<< >>, d).out) = << >>
         /\ Split(<< >>, d).pending \in {<< >>, d}
<1>1. From(d, 1) = d
  BY SubSeqFull DEF From
<1>2. Walk(d) = [frames |-> << >>, rest |-> d]
  <2>1. 1 \in 1 .. Len(d) + 1
    OBVIOUS
  <2>2. CutOf(d)[1] = Cut(d, CutOf(d), 1)
    BY <2>1, CutIs
  <2>3. Cut(d, CutOf(d), 1) = [frames |-> << >>, rest |-> d]
    BY <1>1 DEF Cut
  <2> QED BY <2>2, <2>3, WalkIs
<1>3. Decoded(<< >>) = << >>
  <2>1. << >> \in Seq(Seq(S)) /\ \A i \in 1 .. Len(<< >>) : Decodes(<< >>[i])
    OBVIOUS
  <2> QED BY <2>1, DecodedAll
<1>4. Walk(d).frames = << >> /\ Walk(d).rest = d /\ << >> \o << >> = << >>
  BY <1>2
<1>5. Split(<< >>, d).out \in {<< >>, <<d>>} /\ Split(<< >>, d).pending \in {<< >>, d}
  BY <1>4 DEF Split
<1> QED BY <1>3, <1>5, DecodedNone

\* The three things that a notification can do.
JoinsOn(p, d, r) == p # << >> /\ r.out = << >> /\ r.pending = p \o d

TakesFrames(p, a, b, r, k, j) ==
  /\ Whole(j, b)
  /\ r.out = Run(k, j)
  /\ r.pending = Segment(End[j], b)
  /\ End[k] = a \/ (p # << >> /\ p[1] = <<k + 1, 1>>)

TellsNothing(d, r) ==
  /\ Decoded(r.out) = << >>
  /\ r.pending = << >> \/ (r.pending = d /\ d[1][2] # 1)

LEMMA WholeFrom ==
  ASSUME NEW b \in 0 .. End[Total], NEW k \in 0 .. Total, End[k] <= b
  PROVE  \E j \in k .. Total : Whole(j, b)
<1>1. PICK j : Whole(j, b)
  BY WholeExists
<1>2. j \in 0 .. Total /\ (j < Total => b < End[j + 1])
  BY <1>1 DEF Whole
<1>3. k <= j
  <2> SUFFICES ASSUME j < k PROVE FALSE
    BY <1>2, LengthsType
  <2>1. j + 1 \in Frames /\ j + 1 <= k /\ j < Total
    BY <1>2, LengthsType DEF Frames, Total
  <2>2. End[j + 1] <= End[k]
    BY <2>1, EndsGrow
  <2>3. End[j + 1] \in Nat /\ End[k] \in Nat /\ b \in Nat
    BY <2>1, FrameEnds, EndType, LengthsType
  <2> QED BY <2>1, <2>2, <2>3, <1>2
<1> QED BY <1>1, <1>2, <1>3, LengthsType

LEMMA FeedDoes ==
  ASSUME NoFalseStart,
         NEW b \in 0 .. End[Total], NEW a \in 0 .. b, a < b,
         NEW p \in Seq(AllBytes), Unfinished(p)
  PROVE  \/ JoinsOn(p, Segment(a, b), FeedOn(p, Segment(a, b)))
         \/ \E k \in 0 .. Total : \E j \in k .. Total :
              TakesFrames(p, a, b, FeedOn(p, Segment(a, b)), k, j)
         \/ TellsNothing(Segment(a, b), FeedOn(p, Segment(a, b)))
<1> DEFINE d == Segment(a, b)
           c == p \o d
           n == FrameLength(c)
           r == FeedOn(p, d)
           Crc == CrcOk(SubSeq(c, 1, n))
<1>0. End[Total] \in Nat /\ a \in Nat /\ b \in Nat /\ b <= End[Total]
  BY LengthsType, EndType
<1>1. CASE p # << >> /\ n > Len(c)
  <2>1. r = [out |-> << >>, pending |-> c]
    BY <1>1 DEF FeedOn
  <2>2. JoinsOn(p, d, r)
    BY <2>1, <1>1 DEF JoinsOn
  <2> QED BY <2>2
<1>2. CASE ~ (p # << >> /\ n > Len(c)) /\ p # << >> /\ n \in 1 .. Len(c) /\ Crc
  <2>1. r = Split(<<SubSeq(c, 1, n)>>, From(c, n + 1))
    BY <1>2 DEF FeedOn
  <2>2. PICK k \in Frames :
          /\ p[1] = <<k, 1>>
          /\ SubSeq(c, 1, n) = FrameBytes(k)
          /\ a < End[k] /\ End[k] <= b
          /\ From(c, n + 1) = Segment(End[k], b)
    BY <1>2, JoinIs
  <2>3. k \in 0 .. Total /\ k - 1 \in 0 .. Total /\ k \in Nat /\ (k - 1) + 1 = k
    BY FrameEnds
  <2>4. PICK j \in k .. Total : Whole(j, b)
    BY <2>2, <2>3, WholeFrom
  <2>5. <<FrameBytes(k)>> \in Seq(Seq(AllBytes))
    BY FrameBytesType
  <2>6. r = [out |-> <<FrameBytes(k)>> \o Run(k, j), pending |-> Segment(End[j], b)]
    <3>1. Split(<<FrameBytes(k)>>, Segment(End[k], b))
            = [out |-> <<FrameBytes(k)>> \o Run(k, j), pending |-> Segment(End[j], b)]
      BY <2>3, <2>4, <2>5, SplitFinds
    <3> QED BY <3>1, <2>1, <2>2
  <2>7. j \in k - 1 .. Total /\ k - 1 < j
    BY <2>3, <2>4, LengthsType
  <2>8. <<FrameBytes(k)>> \o Run(k, j) = Run(k - 1, j)
    <3>1. Run(k - 1, j) = <<FrameBytes((k - 1) + 1)>> \o Run((k - 1) + 1, j)
      BY <2>3, <2>7, RunStep
    <3> QED BY <3>1, <2>3
  <2> HIDE DEF r, c, n, d
  <2>9. TakesFrames(p, a, b, r, k - 1, j)
    <3>1. r.out = Run(k - 1, j) /\ r.pending = Segment(End[j], b)
      BY <2>6, <2>8
    <3>2. p[1] = <<(k - 1) + 1, 1>>
      BY <2>2, <2>3
    <3> QED BY <3>1, <3>2, <2>4, <1>2 DEF TakesFrames
  <2> QED BY <2>3, <2>7, <2>9 DEF r, d
<1>3. CASE ~ (p # << >> /\ n > Len(c)) /\ ~ (p # << >> /\ n \in 1 .. Len(c) /\ Crc)
  <2>1. r = Split(<< >>, d)
    BY <1>3 DEF FeedOn
  <2>2. CASE \E k \in 0 .. Total : End[k] = a
    <3>1. PICK k \in 0 .. Total : End[k] = a
      BY <2>2
    <3>2. PICK j \in k .. Total : Whole(j, b)
      BY <3>1, <1>0, WholeFrom
    <3>3. << >> \in Seq(Seq(AllBytes))
      OBVIOUS
    <3>4. Split(<< >>, d) = [out |-> << >> \o Run(k, j), pending |-> Segment(End[j], b)]
      BY <3>1, <3>2, <3>3, SplitFinds
    <3>5. << >> \o Run(k, j) = Run(k, j)
      <4>1. Run(k, j) \in Seq(Seq(AllBytes))
        BY <3>2, RunType
      <4> QED BY <4>1, ConcatEmptySeq
    <3> HIDE DEF r, d
    <3>6. TakesFrames(p, a, b, r, k, j)
      BY <3>1, <3>2, <3>4, <3>5, <2>1 DEF TakesFrames
    <3> QED BY <3>6 DEF r, d
  <2>3. CASE ~ (\E k \in 0 .. Total : End[k] = a)
    <3>1. FrameLength(d) = NoLength /\ ~ Decodes(d) /\ d[1][2] # 1
      BY <2>3, OutOfStep
    <3>2. d \in Seq(Sent(b))
      BY SegmentType
    <3> HIDE DEF d
    <3>3. Decoded(Split(<< >>, d).out) = << >> /\ Split(<< >>, d).pending \in {<< >>, d}
      BY <3>1, <3>2, SplitOfNothing
    <3> HIDE DEF r
    <3>4. TellsNothing(d, r)
      BY <3>1, <3>3, <2>1 DEF TellsNothing
    <3> QED BY <3>4 DEF r, d
  <2> QED BY <2>2, <2>3
<1> QED BY <1>1, <1>2, <1>3

-----------------------------------------------------------------------------
(* Only frames come out, in order *)

No(f) == f[1][1]

\* Frames up to the k-th, in their order.
Listed(s, k) ==
  /\ s \in Seq(Seq(AllBytes))
  /\ \A x \in 1 .. Len(s) : No(s[x]) \in 1 .. k /\ s[x] = FrameBytes(No(s[x]))
  /\ \A x, y \in 1 .. Len(s) : x < y => No(s[x]) < No(s[y])

LEMMA NoOfFrame == \A k \in Frames : No(FrameBytes(k)) = k
<1> TAKE k \in Frames
<1>1. 1 \in 1 .. Lengths[k]
  BY FrameEnds
<1>2. FrameBytes(k)[1] = <<k, 1>>
  BY <1>1, FrameBytesType
<1> QED BY <1>2 DEF No

LEMMA RunDecodes ==
  ASSUME NEW k \in 0 .. Total, NEW j \in k .. Total
  PROVE  Decoded(Run(k, j)) = Run(k, j)
<1>1. /\ Run(k, j) \in Seq(Seq(AllBytes)) /\ Len(Run(k, j)) = j - k
      /\ \A x \in 1 .. j - k : k + x \in Frames /\ Run(k, j)[x] = FrameBytes(k + x)
  BY RunType
<1>2. ASSUME NEW m \in Frames PROVE Decodes(FrameBytes(m))
  <2>1. Len(FrameBytes(m)) = Lengths[m] /\ Lengths[m] \in Nat /\ Lengths[m] >= 12
    BY FrameBytesType, FrameEnds
  <2>2. FrameBytes(m)[1] = <<m, 1>> /\ FrameBytes(m)[2] = <<m, 2>>
    BY <2>1, FrameBytesType
  <2>3. Value(<<m, 1>>) = 88 /\ Value(<<m, 2>>) = 2
    BY HeaderReads
  <2>4. OpensFrame(FrameBytes(m))
    BY <2>2, <2>3 DEF OpensFrame
  <2> QED BY <2>1, <2>4 DEF Decodes
<1> DEFINE r == Run(k, j)
<1>3. \A x \in 1 .. Len(r) : Decodes(r[x])
  BY <1>1, <1>2
<1> HIDE DEF r
<1>4. r \in Seq(Seq(AllBytes))
  BY <1>1 DEF r
<1>5. Decoded(r) = r
  BY <1>3, <1>4, DecodedAll
<1> QED BY <1>5 DEF r

LEMMA ListedMore ==
  ASSUME NEW s, NEW i \in 0 .. Total, NEW k \in i .. Total, NEW j \in k .. Total, Listed(s, i)
  PROVE  Listed(s \o Run(k, j), j)
<1> DEFINE r == Run(k, j)
           t == s \o r
           L == Len(s)
<1>0. i \in Nat /\ k \in Nat /\ j \in Nat /\ i <= k /\ k <= j /\ j \in 0 .. Total /\ k \in 0 .. Total
  BY LengthsType
<1>1. /\ r \in Seq(Seq(AllBytes)) /\ Len(r) = j - k
      /\ \A x \in 1 .. j - k : k + x \in Frames /\ r[x] = FrameBytes(k + x)
  BY <1>0, RunType
<1> HIDE DEF r
<1>2. /\ s \in Seq(Seq(AllBytes)) /\ L \in Nat
      /\ \A x \in 1 .. L : No(s[x]) \in 1 .. i /\ s[x] = FrameBytes(No(s[x]))
      /\ \A x, y \in 1 .. L : x < y => No(s[x]) < No(s[y])
  BY DEF Listed
<1>3. /\ t \in Seq(Seq(AllBytes)) /\ Len(t) = L + (j - k)
      /\ \A x \in 1 .. L + (j - k) : t[x] = IF x <= L THEN s[x] ELSE r[x - L]
  <2>1. /\ t \in Seq(Seq(AllBytes)) /\ Len(t) = L + Len(r)
        /\ \A x \in 1 .. L + Len(r) : t[x] = IF x <= L THEN s[x] ELSE r[x - L]
    BY <1>1, <1>2, ConcatProperties
  <2> QED BY <2>1, <1>1
<1> HIDE DEF t, L
<1>4. \A x \in 1 .. L : t[x] = s[x] /\ No(t[x]) \in 1 .. i /\ t[x] = FrameBytes(No(t[x]))
  <2> TAKE x \in 1 .. L
  <2>1. x \in 1 .. L + (j - k) /\ x <= L
    BY <1>0, <1>2
  <2>2. t[x] = s[x]
    BY <2>1, <1>3
  <2> QED BY <2>2, <1>2
<1>5. \A x \in L + 1 .. L + (j - k) :
        No(t[x]) = k + (x - L) /\ No(t[x]) \in k + 1 .. j /\ t[x] = FrameBytes(No(t[x]))
  <2> TAKE x \in L + 1 .. L + (j - k)
  <2>1. x \in 1 .. L + (j - k) /\ ~ (x <= L) /\ x - L \in 1 .. j - k /\ k + (x - L) \in k + 1 .. j
    BY <1>0, <1>2
  <2>2. t[x] = r[x - L]
    BY <2>1, <1>3
  <2>3. t[x] = FrameBytes(k + (x - L)) /\ k + (x - L) \in Frames
    BY <2>1, <2>2, <1>1
  <2>4. No(t[x]) = k + (x - L)
    BY <2>3, NoOfFrame
  <2> QED BY <2>1, <2>3, <2>4
<1>6. \A x \in 1 .. Len(t) : x \in 1 .. L \/ x \in L + 1 .. L + (j - k)
  BY <1>0, <1>2, <1>3
<1>7. \A x \in 1 .. Len(t) : No(t[x]) \in 1 .. j /\ t[x] = FrameBytes(No(t[x]))
  <2> TAKE x \in 1 .. Len(t)
  <2>1. CASE x \in 1 .. L
    <3>1. No(t[x]) \in 1 .. i /\ t[x] = FrameBytes(No(t[x]))
      BY <2>1, <1>4
    <3> QED BY <3>1, <1>0
  <2>2. CASE x \in L + 1 .. L + (j - k)
    <3>1. No(t[x]) \in k + 1 .. j /\ t[x] = FrameBytes(No(t[x]))
      BY <2>2, <1>5
    <3> QED BY <3>1, <1>0
  <2> QED BY <2>1, <2>2, <1>6
<1>8. \A x, y \in 1 .. Len(t) : x < y => No(t[x]) < No(t[y])
  <2> TAKE x, y \in 1 .. Len(t)
  <2> HAVE x < y
  <2>1. CASE y \in 1 .. L
    <3>1. x \in 1 .. L
      BY <2>1, <1>2
    <3>2. No(s[x]) < No(s[y])
      BY <2>1, <3>1, <1>2
    <3> QED BY <2>1, <3>1, <3>2, <1>4
  <2>2. CASE y \in L + 1 .. L + (j - k) /\ x \in 1 .. L
    <3>1. No(t[x]) \in 1 .. i /\ No(t[y]) \in k + 1 .. j
      BY <2>2, <1>4, <1>5
    <3> QED BY <3>1, <1>0
  <2>3. CASE y \in L + 1 .. L + (j - k) /\ x \in L + 1 .. L + (j - k)
    <3>1. No(t[x]) = k + (x - L) /\ No(t[y]) = k + (y - L)
      BY <2>3, <1>5
    <3>2. x \in Int /\ y \in Int
      BY <1>0, <1>2
    <3> QED BY <3>1, <3>2, <1>0, <1>2
  <2> QED BY <2>1, <2>2, <2>3, <1>6
<1> QED BY <1>3, <1>7, <1>8 DEF Listed, t, r

\* What is decoded are frames up to some k that has ended; what is held begins,
\* if it begins with a frame, with a later one.
Ordered ==
  \E k \in 0 .. Total :
    /\ Listed(decoded, k)
    /\ End[k] <= at
    /\ pending # << >> /\ pending[1][2] = 1 => k < pending[1][1]

LEMMA OrderedInit == Init => Ordered
<1> SUFFICES ASSUME Init PROVE Ordered
  OBVIOUS
<1>1. decoded = << >> /\ pending = << >> /\ at = 0
  BY DEF Init
<1>2. Listed(<< >>, 0)
  BY DEF Listed
<1>3. 0 \in 0 .. Total /\ End[0] <= 0
  BY LengthsType, EndIs
<1> QED BY <1>1, <1>2, <1>3 DEF Ordered

LEMMA OrderedNext ==
  ASSUME NoFalseStart, HeldOk, Ordered, [Next]_vars
  PROVE  Ordered'
<1>0. at \in 0 .. End[Total] /\ pending \in Seq(Sent(at)) /\ Unfinished(pending)
      /\ End[Total] \in Nat /\ at \in Nat /\ at <= End[Total]
  <2>1. at \in 0 .. End[Total] /\ pending \in Seq(Sent(at)) /\ Unfinished(pending)
    BY DEF HeldOk
  <2>2. End[Total] \in Nat
    BY LengthsType, EndType
  <2> QED BY <2>1, <2>2
<1>1. PICK k \in 0 .. Total :
        /\ Listed(decoded, k)
        /\ End[k] <= at
        /\ pending # << >> /\ pending[1][2] = 1 => k < pending[1][1]
  BY DEF Ordered
<1>2. k \in Nat /\ End[k] \in Nat
  BY EndType, LengthsType
<1>3. pending \in Seq(AllBytes)
  <2>1. Sent(at) \subseteq AllBytes
    BY <1>0, SentGrows DEF AllBytes
  <2> QED BY <2>1, <1>0
<1>4. ASSUME NEW n \in 1 .. Mtu, Feed(n)
      PROVE  Ordered'
  <2> DEFINE b == at'
             d == Segment(at, b)
             r == FeedOn(pending, d)
  <2>1. NextNotification(n)
    BY <1>4 DEF Feed
  <2>2. b \in 0 .. End[Total] /\ at \in 0 .. b /\ at < b /\ b \in Nat
        /\ [i \in 1 .. n |-> ByteAt(at + i)] = d
    BY <2>1, <1>0, NotificationIs
  <2>3. decoded' = decoded \o Decoded(r.out) /\ pending' = r.pending
    <3>1. /\ decoded' = decoded \o Decoded(FeedOn(pending, [i \in 1 .. n |-> ByteAt(at + i)]).out)
          /\ pending' = FeedOn(pending, [i \in 1 .. n |-> ByteAt(at + i)]).pending
      BY <1>4 DEF Feed
    <3> QED BY <3>1, <2>2
  <2>4. \/ JoinsOn(pending, d, r)
        \/ \E l \in 0 .. Total : \E j \in l .. Total : TakesFrames(pending, at, b, r, l, j)
        \/ TellsNothing(d, r)
    BY <2>2, <1>0, <1>3, FeedDoes
  <2>5. End[k] <= b
    BY <1>0, <1>1, <1>2, <2>2
  <2>6. decoded \in Seq(Seq(AllBytes)) /\ decoded \o << >> = decoded
    <3>1. decoded \in Seq(Seq(AllBytes))
      BY <1>1 DEF Listed
    <3> QED BY <3>1, ConcatEmptySeq
  <2>7. Decoded(<< >>) = << >>
    <3>1. << >> \in Seq(Seq(AllBytes)) /\ \A i \in 1 .. Len(<< >>) : Decodes(<< >>[i])
      OBVIOUS
    <3> QED BY <3>1, DecodedAll
  <2>8. d \in Seq(AllBytes)
    <3>1. Sent(b) \subseteq AllBytes
      BY <1>0, <2>2, SentGrows DEF AllBytes
    <3>2. d \in Seq(Sent(b))
      BY <2>2, SegmentType
    <3> HIDE DEF d
    <3> QED BY <3>1, <3>2
  <2> HIDE DEF d, r
  <2>9. CASE JoinsOn(pending, d, r)
    <3>1. pending # << >> /\ r.out = << >> /\ pending' = pending \o d /\ decoded' = decoded
      BY <2>3, <2>6, <2>7, <2>9 DEF JoinsOn
    <3>2. pending'[1] = pending[1]
      <4>1. Len(pending) >= 1 /\ Len(pending) \in Nat /\ Len(d) \in Nat
        BY <3>1, <1>3, <2>8
      <4>2. \A i \in 1 .. Len(pending) + Len(d) :
              (pending \o d)[i] = IF i <= Len(pending) THEN pending[i] ELSE d[i - Len(pending)]
        BY <1>3, <2>8, ConcatProperties
      <4>3. (pending \o d)[1] = pending[1]
        BY <4>1, <4>2
      <4> QED BY <4>3, <3>1
    <3>3. Listed(decoded', k)
      BY <3>1, <1>1
    <3>4. pending' # << >> /\ pending'[1][2] = 1 => k < pending'[1][1]
      BY <3>1, <3>2, <1>1
    <3> QED BY <3>3, <3>4, <2>5 DEF Ordered
  <2>10. CASE TellsNothing(d, r)
    <3>1. decoded' = decoded
      BY <2>3, <2>6, <2>10 DEF TellsNothing
    <3>2. pending' = << >> \/ pending'[1][2] # 1
      BY <2>3, <2>10 DEF TellsNothing
    <3>3. Listed(decoded', k)
      BY <3>1, <1>1
    <3> QED BY <3>2, <3>3, <2>5 DEF Ordered
  <2>11. ASSUME NEW l \in 0 .. Total, NEW j \in l .. Total, TakesFrames(pending, at, b, r, l, j)
         PROVE  Ordered'
    <3>1. /\ Whole(j, b)
          /\ r.out = Run(l, j)
          /\ pending' = Segment(End[j], b)
          /\ End[l] = at \/ (pending # << >> /\ pending[1] = <<l + 1, 1>>)
      BY <2>3, <2>11 DEF TakesFrames
    <3>2. decoded' = decoded \o Run(l, j)
      BY <2>3, <3>1, RunDecodes
    <3>3. l \in Nat /\ j \in Nat /\ j \in 0 .. Total /\ End[j] \in Nat
      BY LengthsType, EndType
    <3>4. k <= l
      <4>1. CASE End[l] = at
        <5>1. PICK x \in k .. Total : Whole(x, at)
          BY <1>0, <1>1, WholeFrom
        <5> SUFFICES ASSUME l < k PROVE FALSE
          BY <3>3, <1>2
        <5>2. l + 1 \in Frames /\ (l + 1) - 1 = l /\ l + 1 <= k
          BY <3>3, <1>2, LengthsType DEF Frames, Total
        <5>3. End[l + 1] <= End[k]
          BY <5>2, EndsGrow
        <5>4. End[l + 1] = End[l] + Lengths[l + 1] /\ Lengths[l + 1] \in Nat /\ Lengths[l + 1] >= 12
          BY <5>2, FrameEnds
        <5> QED BY <5>3, <5>4, <4>1, <1>0, <1>1, <1>2
      <4>2. CASE pending # << >> /\ pending[1] = <<l + 1, 1>>
        <5>1. pending[1][2] = 1 /\ pending[1][1] = l + 1
          BY <4>2
        <5>2. k < l + 1
          BY <5>1, <4>2, <1>1
        <5> QED BY <5>2, <3>3, <1>2
      <4> QED BY <4>1, <4>2, <3>1
    <3>5. Listed(decoded', j)
      <4>1. l \in k .. Total
        BY <3>3, <3>4, <1>2
      <4>2. Listed(decoded \o Run(l, j), j)
        BY <4>1, <1>1, ListedMore
      <4> QED BY <4>2, <3>2
    <3>6. End[j] <= b
      BY <3>1 DEF Whole
    <3>7. pending' # << >> => pending'[1][1] = j + 1
      <4> SUFFICES ASSUME pending' # << >> PROVE pending'[1][1] = j + 1
        OBVIOUS
      <4>1. End[j] \in 0 .. b
        BY <3>3, <3>6, <2>2
      <4>2. End[j] # b
        BY <4>1, <3>1, <2>2, SegmentType
      <4>3. End[j] < b /\ 1 \in 1 .. b - End[j]
        BY <4>1, <4>2, <2>2
      <4>4. j + 1 \in Frames /\ (1 <= Lengths[j + 1] => Segment(End[j], b)[1] = <<j + 1, 1>>)
        BY <4>3, <3>3, <2>2, SegmentOpens
      <4>5. 1 <= Lengths[j + 1]
        BY <4>4, FrameEnds
      <4> QED BY <4>4, <4>5, <3>1
    <3>8. pending' # << >> /\ pending'[1][2] = 1 => j < pending'[1][1]
      BY <3>3, <3>7
    <3> QED BY <3>3, <3>5, <3>6, <3>8 DEF Ordered
  <2> QED BY <2>4, <2>9, <2>10, <2>11
<1>5. ASSUME NEW n \in 1 .. Mtu, Lose(n)
      PROVE  Ordered'
  <2>1. NextNotification(n) /\ pending' = pending /\ decoded' = decoded
    BY <1>5 DEF Lose
  <2>2. at < at' /\ at' \in Nat
    BY <2>1, <1>0, NotificationIs
  <2>3. End[k] <= at'
    BY <2>2, <1>0, <1>1, <1>2
  <2> QED BY <2>1, <2>3, <1>1 DEF Ordered
<1>6. CASE Reset
  <2>1. pending' = << >> /\ decoded' = decoded /\ at' = at
    BY <1>6 DEF Reset
  <2> QED BY <2>1, <1>1 DEF Ordered
<1>7. CASE UNCHANGED vars
  <2>1. pending' = pending /\ decoded' = decoded /\ at' = at
    BY <1>7 DEF vars
  <2> QED BY <2>1, <1>1 DEF Ordered
<1> QED BY <1>4, <1>5, <1>6, <1>7 DEF Next

\* Unless the bytes inside a frame read as the start of one, what comes out of
\* feed and is decoded are frames the machine sent, in their order and none
\* twice, whatever was lost and wherever the stream was cut.
THEOREM FramesInOrder == ASSUME NoFalseStart PROVE Spec => []OnlyFramesSent
<1>1. Ordered => OnlyFramesSent
  <2> SUFFICES ASSUME Ordered PROVE OnlyFramesSent
    OBVIOUS
  <2>1. PICK k \in 0 .. Total : Listed(decoded, k)
    BY DEF Ordered
  <2>2. \A x \in 1 .. Len(decoded) : No(decoded[x]) \in Frames /\ decoded[x] = FrameBytes(No(decoded[x]))
    BY <2>1, LengthsType DEF Listed, Frames, Total
  <2>3. \A x \in 1 .. Len(decoded) : Genuine(decoded[x])
    BY <2>2 DEF Genuine
  <2>4. \A x, y \in 1 .. Len(decoded) : x < y => decoded[x][1][1] < decoded[y][1][1]
    BY <2>1 DEF Listed, No
  <2> QED BY <2>3, <2>4 DEF OnlyFramesSent
<1>2. HeldOk /\ Ordered /\ [Next]_vars => HeldOk' /\ Ordered'
  BY HeldNext, OrderedNext
<1> QED BY HeldInit, OrderedInit, <1>1, <1>2, PTL DEF Spec

-----------------------------------------------------------------------------
(* A stream of which nothing is lost *)

LEMMA SegmentsJoin ==
  ASSUME NEW c \in 0 .. End[Total], NEW b \in 0 .. c, NEW a \in 0 .. b
  PROVE  Segment(a, b) \o Segment(b, c) = Segment(a, c)
<1>0. End[Total] \in Nat /\ a \in Nat /\ b \in Nat /\ c \in Nat /\ a <= b /\ b <= c /\ c <= End[Total]
  BY LengthsType, EndType
<1>1. Sent(b) \subseteq Sent(c)
  BY <1>0, SentGrows
<1> DEFINE x == Segment(a, b)
           y == Segment(b, c)
           z == Segment(a, c)
           t == x \o y
<1>2. x \in Seq(Sent(c)) /\ Len(x) = b - a /\ \A i \in 1 .. b - a : x[i] = ByteAt(a + i)
  <2>1. b \in 0 .. End[Total]
    BY <1>0
  <2>2. x \in Seq(Sent(b)) /\ Len(x) = b - a /\ \A i \in 1 .. b - a : x[i] = ByteAt(a + i)
    BY <2>1, SegmentType
  <2> HIDE DEF x
  <2> QED BY <2>2, <1>1
<1>3. y \in Seq(Sent(c)) /\ Len(y) = c - b /\ \A i \in 1 .. c - b : y[i] = ByteAt(b + i)
  BY SegmentType
<1>4. z \in Seq(Sent(c)) /\ Len(z) = c - a /\ \A i \in 1 .. c - a : z[i] = ByteAt(a + i)
  <2>1. a \in 0 .. c
    BY <1>0
  <2> QED BY <2>1, SegmentType
<1> HIDE DEF x, y, z
<1>5. /\ t \in Seq(Sent(c)) /\ Len(t) = (b - a) + (c - b)
      /\ \A i \in 1 .. (b - a) + (c - b) : t[i] = IF i <= b - a THEN x[i] ELSE y[i - (b - a)]
  <2>1. /\ t \in Seq(Sent(c)) /\ Len(t) = Len(x) + Len(y)
        /\ \A i \in 1 .. Len(x) + Len(y) : t[i] = IF i <= Len(x) THEN x[i] ELSE y[i - Len(x)]
    BY <1>2, <1>3, ConcatProperties
  <2> QED BY <2>1, <1>2, <1>3
<1> HIDE DEF t
<1>6. (b - a) + (c - b) = c - a
  BY <1>0
<1>7. ASSUME NEW i \in 1 .. Len(t)
      PROVE  t[i] = z[i]
  <2>1. i \in 1 .. c - a /\ i \in Nat
    BY <1>0, <1>5, <1>6
  <2>2. z[i] = ByteAt(a + i)
    BY <2>1, <1>4
  <2>3. CASE i <= b - a
    <3>1. i \in 1 .. b - a /\ t[i] = x[i]
      BY <2>1, <2>3, <1>0, <1>5, <1>6
    <3> QED BY <3>1, <2>2, <1>2
  <2>4. CASE ~ (i <= b - a)
    <3>1. i - (b - a) \in 1 .. c - b /\ b + (i - (b - a)) = a + i
      BY <2>1, <2>4, <1>0
    <3>2. t[i] = y[i - (b - a)]
      BY <2>1, <2>4, <1>5, <1>6
    <3>3. y[i - (b - a)] = ByteAt(b + (i - (b - a)))
      BY <3>1, <1>3
    <3> QED BY <3>1, <3>2, <3>3, <2>2
  <2> QED BY <2>3, <2>4
<1>8. t = z
  BY <1>4, <1>5, <1>6, <1>7, SeqEqual
<1> QED BY <1>8 DEF t, x, y, z

LEMMA RunsJoin ==
  ASSUME NEW k \in 0 .. Total, NEW j \in k .. Total
  PROVE  Run(0, k) \o Run(k, j) = Run(0, j)
<1>0. k \in Nat /\ j \in Nat /\ k <= j /\ 0 \in 0 .. Total /\ k \in 0 .. Total /\ j \in 0 .. Total
  BY LengthsType
<1> DEFINE S == Seq(AllBytes)
           x == Run(0, k)
           y == Run(k, j)
           z == Run(0, j)
           t == x \o y
<1>1. x \in Seq(S) /\ Len(x) = k /\ \A i \in 1 .. k : x[i] = FrameBytes(i)
  <2>1. /\ x \in Seq(S) /\ Len(x) = k - 0
        /\ \A i \in 1 .. k - 0 : x[i] = FrameBytes(0 + i)
    BY <1>0, RunType
  <2>2. k - 0 = k /\ \A i \in 1 .. k : 0 + i = i
    BY <1>0
  <2> HIDE DEF x
  <2> QED BY <2>1, <2>2
<1>2. y \in Seq(S) /\ Len(y) = j - k /\ \A i \in 1 .. j - k : y[i] = FrameBytes(k + i)
  BY RunType
<1>3. z \in Seq(S) /\ Len(z) = j /\ \A i \in 1 .. j : z[i] = FrameBytes(i)
  <2>1. /\ z \in Seq(S) /\ Len(z) = j - 0
        /\ \A i \in 1 .. j - 0 : z[i] = FrameBytes(0 + i)
    BY <1>0, RunType
  <2>2. j - 0 = j /\ \A i \in 1 .. j : 0 + i = i
    BY <1>0
  <2> HIDE DEF z
  <2> QED BY <2>1, <2>2
<1> HIDE DEF x, y, z, S
<1>4. /\ t \in Seq(S) /\ Len(t) = k + (j - k)
      /\ \A i \in 1 .. k + (j - k) : t[i] = IF i <= k THEN x[i] ELSE y[i - k]
  <2>1. /\ t \in Seq(S) /\ Len(t) = Len(x) + Len(y)
        /\ \A i \in 1 .. Len(x) + Len(y) : t[i] = IF i <= Len(x) THEN x[i] ELSE y[i - Len(x)]
    BY <1>1, <1>2, ConcatProperties
  <2> QED BY <2>1, <1>1, <1>2
<1> HIDE DEF t
<1>5. k + (j - k) = j
  BY <1>0
<1>6. ASSUME NEW i \in 1 .. Len(t)
      PROVE  t[i] = z[i]
  <2>1. i \in 1 .. j /\ i \in Nat
    BY <1>0, <1>4, <1>5
  <2>2. z[i] = FrameBytes(i)
    BY <2>1, <1>3
  <2>3. CASE i <= k
    <3>1. i \in 1 .. k /\ t[i] = x[i]
      BY <2>1, <2>3, <1>0, <1>4, <1>5
    <3> QED BY <3>1, <2>2, <1>1
  <2>4. CASE ~ (i <= k)
    <3>1. i - k \in 1 .. j - k /\ k + (i - k) = i
      BY <2>1, <2>4, <1>0
    <3>2. t[i] = y[i - k]
      BY <2>1, <2>4, <1>4, <1>5
    <3>3. y[i - k] = FrameBytes(k + (i - k))
      BY <3>1, <1>2
    <3> QED BY <3>1, <3>2, <3>3, <2>2
  <2> QED BY <2>3, <2>4
<1>7. t = z
  BY <1>3, <1>4, <1>5, <1>6, SeqEqual
<1> QED BY <1>7 DEF t, x, y, z

LEMMA EndsDiffer ==
  ASSUME NEW k \in 0 .. Total, NEW j \in 0 .. Total, End[k] < End[j]
  PROVE  k + 1 \in Frames /\ End[k + 1] <= End[j] /\ k < j
<1>0. k \in Nat /\ j \in Nat /\ Total \in Nat /\ End[k] \in Nat /\ End[j] \in Nat
  BY LengthsType, EndType
<1>1. k < j
  <2> SUFFICES ASSUME j <= k PROVE FALSE
    BY <1>0
  <2>1. CASE j = 0
    BY <2>1, <1>0, EndIs
  <2>2. CASE j # 0
    <3>1. j \in Frames
      BY <2>2, LengthsType DEF Frames, Total
    <3>2. End[j] <= End[k]
      BY <3>1, EndsGrow
    <3> QED BY <3>2, <1>0
  <2> QED BY <2>1, <2>2
<1>2. k + 1 \in Frames /\ k + 1 <= j
  BY <1>0, <1>1 DEF Frames, Total
<1> QED BY <1>1, <1>2, EndsGrow

\* While nothing is lost, each notification completes what it can, as long as the
\* first two parts of a frame hold its header.
LEMMA FeedExact ==
  ASSUME NEW b \in 0 .. End[Total], NEW a \in 0 .. b, a < b,
         NEW k, Whole(k, a),
         AtBoundary(b) \/ b - a >= HeaderLen - 1
  PROVE  \E j \in k .. Total :
           /\ Whole(j, b)
           /\ FeedOn(Segment(End[k], a), Segment(a, b)).out = Run(k, j)
           /\ FeedOn(Segment(End[k], a), Segment(a, b)).pending = Segment(End[j], b)
<1> DEFINE p == Segment(End[k], a)
           d == Segment(a, b)
           c == p \o d
           n == FrameLength(c)
           r == FeedOn(p, d)
<1>0. /\ End[Total] \in Nat /\ a \in Nat /\ b \in Nat /\ b <= End[Total] /\ Total \in Nat
      /\ k \in 0 .. Total /\ k \in Nat /\ End[k] \in Nat /\ End[k] <= a
      /\ End[k] \in 0 .. a /\ a \in 0 .. End[Total] /\ End[k] \in 0 .. b
  <2>1. k \in 0 .. Total /\ End[k] <= a
    BY DEF Whole
  <2>2. End[Total] \in Nat /\ End[k] \in Nat
    BY <2>1, LengthsType, EndType
  <2> QED BY <2>1, <2>2, LengthsType
<1>1. PICK j \in k .. Total : Whole(j, b)
  BY <1>0, WholeFrom
<1>2. p = << >> <=> End[k] = a
  BY <1>0, SegmentType
<1>3. << >> \in Seq(Seq(AllBytes)) /\ Run(k, j) \in Seq(Seq(AllBytes))
  BY <1>0, <1>1, RunType
<1>4. CASE p = << >>
  <2>1. r = Split(<< >>, d)
    BY <1>4, Zenon DEF FeedOn
  <2>2. Split(<< >>, Segment(End[k], b))
          = [out |-> << >> \o Run(k, j), pending |-> Segment(End[j], b)]
    BY <1>0, <1>1, <1>3, SplitFinds
  <2>3. << >> \o Run(k, j) = Run(k, j)
    BY <1>3, ConcatEmptySeq
  <2>4. r = [out |-> Run(k, j), pending |-> Segment(End[j], b)]
    BY <2>1, <2>2, <2>3, <1>2, <1>4
  <2> HIDE DEF r
  <2>5. r.out = Run(k, j) /\ r.pending = Segment(End[j], b)
    BY <2>4
  <2> QED BY <2>5, <1>1 DEF r
<1>5. CASE p # << >>
  <2>1. End[k] < a
    BY <1>0, <1>2, <1>5
  <2>2. c = Segment(End[k], b)
    BY <1>0, SegmentsJoin
  <2>3. k + 1 \in Frames /\ (k + 1) - 1 = k
    BY <2>1, <1>0, SegmentOpens
  <2>4. /\ End[k + 1] = End[k] + Lengths[k + 1] /\ Lengths[k + 1] \in Nat /\ Lengths[k + 1] >= 12
        /\ End[k + 1] \in Nat /\ k + 1 \in 0 .. Total
    BY <2>3, FrameEnds
  <2>5. b - End[k] >= 9
    <3>1. CASE b - a >= HeaderLen - 1
      BY <3>1, <2>1, <1>0 DEF HeaderLen
    <3>2. CASE AtBoundary(b)
      <4>1. PICK x \in 0 .. Total : End[x] = b
        BY <3>2 DEF AtBoundary, Total
      <4>2. End[k] < End[x]
        BY <4>1, <2>1, <1>0
      <4>3. End[k + 1] <= b
        BY <4>1, <4>2, <1>0, EndsDiffer
      <4> QED BY <4>3, <2>4, <1>0
    <3> QED BY <3>1, <3>2
  <2>6. n = Lengths[k + 1] /\ Len(c) = b - End[k]
    <3>1. End[k] <= b
      BY <1>0
    <3>2. FrameLength(Segment(End[k], b)) = Lengths[k + 1]
      BY <3>1, <2>5, <1>0, LengthOfSegment
    <3>3. Len(Segment(End[k], b)) = b - End[k]
      BY <1>0, SegmentType
    <3> QED BY <3>2, <3>3, <2>2
  <2> HIDE DEF c, n, d, p
  <2>7. CASE n > Len(c)
    <3>1. r = [out |-> << >>, pending |-> c]
      BY <2>7, <1>5 DEF FeedOn, c, n
    <3>2. b < End[k + 1]
      BY <2>4, <2>6, <2>7, <1>0
    <3>3. Whole(k, b) /\ k \in k .. Total
      BY <3>2, <1>0 DEF Whole
    <3>4. Run(k, k) = << >>
      <4>1. Run(k, k) \in Seq(Seq(AllBytes)) /\ Len(Run(k, k)) = k - k
        BY <3>3, <1>0, RunType
      <4> QED BY <4>1, <1>0
    <3> HIDE DEF r
    <3>5. r.out = Run(k, k) /\ r.pending = Segment(End[k], b)
      BY <3>1, <3>4, <2>2
    <3> QED BY <3>3, <3>5 DEF r, p, d
  <2>8. CASE ~ (n > Len(c))
    <3>1. End[k + 1] <= b
      BY <2>4, <2>6, <2>8, <1>0
    <3>2. PICK l \in k + 1 .. Total : Whole(l, b)
      BY <3>1, <2>4, WholeFrom
    <3>3. SubSeq(c, 1, n) = FrameBytes(k + 1) /\ From(c, n + 1) = Segment(End[k + 1], b)
      <4>1. /\ 1 \in 1 .. b - End[k] + 1 /\ n \in 1 - 1 .. b - End[k]
            /\ n + 1 \in 1 .. b - End[k] + 1 /\ b - End[k] \in (n + 1) - 1 .. b - End[k]
            /\ End[k] + 1 - 1 = End[k] /\ End[k] + n = End[k + 1]
            /\ End[k] + (n + 1) - 1 = End[k + 1] /\ End[k] + (b - End[k]) = b
        <5>1. n \in Nat /\ End[k] \in Nat /\ b \in Nat /\ End[k + 1] = End[k] + n /\ End[k + 1] \in Nat
          BY <2>4, <2>6, <1>0
        <5>2. n <= b - End[k] /\ b - End[k] \in Nat
          BY <5>1, <3>1
        <5>3. n \in 0 .. b - End[k] /\ n + 1 \in 1 .. b - End[k] + 1 /\ 1 \in 1 .. b - End[k] + 1
          BY <5>1, <5>2
        <5>4. (n + 1) - 1 = n /\ 1 - 1 = 0 /\ b - End[k] \in n .. b - End[k]
          BY <5>1, <5>2
        <5>5. /\ End[k] + 1 - 1 = End[k] /\ End[k] + (n + 1) - 1 = End[k] + n
              /\ End[k] + (b - End[k]) = b
          BY <5>1
        <5> QED BY <5>1, <5>3, <5>4, <5>5
      <4>2. SubSeq(c, 1, n) = Segment(End[k], End[k + 1])
        <5>1. SubSeq(Segment(End[k], b), 1, n) = Segment(End[k] + 1 - 1, End[k] + n)
          BY <4>1, <1>0, PartOfSegment
        <5> QED BY <5>1, <4>1, <2>2
      <4>3. SubSeq(c, n + 1, b - End[k]) = Segment(End[k + 1], b)
        <5>1. SubSeq(Segment(End[k], b), n + 1, b - End[k])
                = Segment(End[k] + (n + 1) - 1, End[k] + (b - End[k]))
          BY <4>1, <1>0, PartOfSegment
        <5> QED BY <5>1, <4>1, <2>2
      <4>4. FrameBytes(k + 1) = Segment(End[k], End[k + 1])
        BY <2>3, FrameIsSegment
      <4> QED BY <4>2, <4>3, <4>4, <2>6 DEF From
    <3>4. CrcOk(SubSeq(c, 1, n))
      BY <3>3, <2>3 DEF CrcOk
    <3>5. n \in 1 .. Len(c)
      BY <2>4, <2>6, <2>8, <1>0
    <3>6. r = Split(<<SubSeq(c, 1, n)>>, From(c, n + 1))
      BY <3>4, <3>5, <2>8, <1>5 DEF FeedOn, c, n
    <3>7. <<FrameBytes(k + 1)>> \in Seq(Seq(AllBytes))
      BY <2>3, FrameBytesType
    <3>8. Split(<<FrameBytes(k + 1)>>, Segment(End[k + 1], b))
            = [out |-> <<FrameBytes(k + 1)>> \o Run(k + 1, l), pending |-> Segment(End[l], b)]
      BY <3>2, <3>7, <2>4, SplitFinds
    <3>9. l \in k .. Total /\ k < l
      BY <3>2, <1>0
    <3>10. <<FrameBytes(k + 1)>> \o Run(k + 1, l) = Run(k, l)
      BY <3>9, <1>0, RunStep
    <3> HIDE DEF r
    <3>12. r = [out |-> Run(k, l), pending |-> Segment(End[l], b)]
      BY <3>3, <3>6, <3>8, <3>10, Zenon
    <3>11. r.out = Run(k, l) /\ r.pending = Segment(End[l], b)
      BY <3>12
    <3> QED BY <3>2, <3>9, <3>11 DEF r, p, d
  <2> QED BY <2>7, <2>8
<1> QED BY <1>4, <1>5

\* What has come out are the frames that have ended, each once and in order.
AllOut == \E k : Whole(k, at) /\ decoded = Run(0, k)

InStep ==
  /\ losses \in Nat
  /\ losses = 0 =>
       \E k : /\ Whole(k, at)
              /\ decoded = Run(0, k)
              /\ pending = Segment(End[k], at)
              /\ owed \subseteq 1 .. k

LEMMA InStepInit == Init => InStep
<1> SUFFICES ASSUME Init PROVE InStep
  OBVIOUS
<1>1. at = 0 /\ decoded = << >> /\ pending = << >> /\ losses = 0 /\ owed = {}
  BY DEF Init
<1>2. PICK j \in 0 .. Total : Whole(j, 0)
  <2>1. 0 \in 0 .. End[Total] /\ 0 \in 0 .. Total /\ End[0] <= 0
    BY LengthsType, EndType, EndIs
  <2> QED BY <2>1, WholeFrom
<1>3. j = 0
  <2> SUFFICES ASSUME j # 0 PROVE FALSE
    OBVIOUS
  <2>1. j \in Frames
    BY LengthsType DEF Frames, Total
  <2>2. End[j] = End[j - 1] + Lengths[j] /\ End[j - 1] \in Nat /\ Lengths[j] \in Nat /\ Lengths[j] >= 12
    BY <2>1, FrameEnds
  <2> QED BY <2>2, <1>2 DEF Whole
<1>4. Run(0, 0) = << >>
  <2>1. 0 \in 0 .. Total /\ Total \in Nat
    BY LengthsType
  <2>2. Run(0, 0) \in Seq(Seq(AllBytes)) /\ Len(Run(0, 0)) = 0 - 0
    BY <2>1, RunType
  <2> QED BY <2>2
<1>5. Segment(End[0], 0) = << >>
  <2>1. 0 \in 0 .. End[Total] /\ 0 \in 0 .. 0
    BY LengthsType, EndType
  <2>2. Segment(0, 0) = << >>
    BY <2>1, SegmentType
  <2> QED BY <2>2, EndIs
<1>6. Whole(0, at) /\ decoded = Run(0, 0) /\ pending = Segment(End[0], at) /\ owed \subseteq 1 .. 0
  BY <1>1, <1>2, <1>3, <1>4, <1>5
<1> QED BY <1>1, <1>6 DEF InStep

LEMMA InStepNext ==
  ASSUME MinCut >= HeaderLen - 1, HeldOk, InStep, [Next]_vars
  PROVE  InStep'
<1>0. at \in 0 .. End[Total] /\ End[Total] \in Nat /\ at \in Nat /\ losses \in Nat
  <2>1. at \in 0 .. End[Total] /\ losses \in Nat
    BY DEF HeldOk, InStep
  <2>2. End[Total] \in Nat
    BY LengthsType, EndType
  <2> QED BY <2>1, <2>2
<1>1. ASSUME NEW n \in 1 .. Mtu, Feed(n)
      PROVE  InStep'
  <2>1. NextNotification(n) /\ losses' = losses
    BY <1>1 DEF Feed
  <2> SUFFICES ASSUME losses = 0
               PROVE  \E k : /\ Whole(k, at')
                             /\ decoded' = Run(0, k)
                             /\ pending' = Segment(End[k], at')
                             /\ owed' \subseteq 1 .. k
    BY <2>1, <1>0 DEF InStep
  <2>2. PICK k : /\ Whole(k, at)
                 /\ decoded = Run(0, k)
                 /\ pending = Segment(End[k], at)
                 /\ owed \subseteq 1 .. k
    BY DEF InStep
  <2> DEFINE b == at'
             r == FeedOn(Segment(End[k], at), Segment(at, b))
  <2>3. b \in 0 .. End[Total] /\ at \in 0 .. b /\ at < b /\ b \in Nat /\ b = at + n
        /\ n = b - at /\ n \in Nat /\ [i \in 1 .. n |-> ByteAt(at + i)] = Segment(at, b)
    BY <2>1, <1>0, NotificationIs
  <2>4. AtBoundary(b) \/ b - at >= HeaderLen - 1
    <3>1. AtBoundary(at + n) \/ n >= MinCut
      BY <2>1 DEF NextNotification
    <3>2. n >= MinCut => n >= HeaderLen - 1
      BY <2>3, FrameAssumption DEF HeaderLen
    <3> QED BY <3>1, <3>2, <2>3
  <2>5. PICK j \in k .. Total :
          /\ Whole(j, b)
          /\ r.out = Run(k, j)
          /\ r.pending = Segment(End[j], b)
    BY <2>2, <2>3, <2>4, FeedExact
  <2>6. k \in 0 .. Total /\ k \in Nat /\ j \in Nat /\ j \in 0 .. Total /\ k <= j
    BY <2>2, LengthsType DEF Whole
  <2>7. decoded' = decoded \o Decoded(r.out) /\ pending' = r.pending
    <3>1. /\ decoded' = decoded \o Decoded(FeedOn(pending, [i \in 1 .. n |-> ByteAt(at + i)]).out)
          /\ pending' = FeedOn(pending, [i \in 1 .. n |-> ByteAt(at + i)]).pending
      BY <1>1 DEF Feed
    <3> QED BY <3>1, <2>2, <2>3
  <2> HIDE DEF r
  <2>8. decoded' = Run(0, j)
    <3>1. Decoded(Run(k, j)) = Run(k, j)
      BY <2>6, RunDecodes
    <3>2. Run(0, k) \o Run(k, j) = Run(0, j)
      BY <2>6, RunsJoin
    <3> QED BY <3>1, <3>2, <2>2, <2>5, <2>7
  <2>9. owed' \subseteq 1 .. j
    <3>1. owed' \subseteq owed \union {x \in Frames : at < End[x] /\ End[x] <= b}
      BY <1>1 DEF Feed
    <3>2. ASSUME NEW x \in Frames, End[x] <= b
          PROVE  x \in 1 .. j
      <4>1. x \in Nat /\ x >= 1 /\ End[x] \in Nat /\ x \in 0 .. Total
        BY FrameEnds
      <4> SUFFICES ASSUME j < x PROVE FALSE
        BY <4>1, <2>6
      <4>2. j + 1 \in Frames /\ j + 1 <= x /\ j < Total
        BY <4>1, <2>6, LengthsType DEF Frames, Total
      <4>3. End[j + 1] <= End[x] /\ End[j + 1] \in Nat
        BY <4>1, <4>2, EndsGrow, FrameEnds
      <4>4. b < End[j + 1]
        BY <4>2, <2>5 DEF Whole
      <4> QED BY <4>1, <4>3, <4>4, <3>2, <2>3
    <3>3. 1 .. k \subseteq 1 .. j
      BY <2>6
    <3> QED BY <3>1, <3>2, <3>3, <2>2
  <2> QED BY <2>5, <2>7, <2>8, <2>9
<1>2. ASSUME NEW n \in 1 .. Mtu, Lose(n)
      PROVE  InStep'
  <2>1. losses' = losses + 1
    BY <1>2 DEF Lose
  <2>2. losses' \in Nat /\ losses' # 0
    BY <2>1, <1>0
  <2> QED BY <2>2 DEF InStep
<1>3. CASE Reset
  <2>1. losses' = losses + 1
    BY <1>3 DEF Reset
  <2>2. losses' \in Nat /\ losses' # 0
    BY <2>1, <1>0
  <2> QED BY <2>2 DEF InStep
<1>4. CASE UNCHANGED vars
  BY <1>4 DEF vars, InStep
<1> QED BY <1>1, <1>2, <1>3, <1>4 DEF Next

\* As long as no notification is lost and the machine fills its notifications to
\* 8 bytes or more, whatever frames it sends and wherever it cuts them, what has
\* come out are exactly the frames that have ended, in order; so every frame
\* heard whole has.
THEOREM NothingLostAllOut ==
  ASSUME MinCut >= HeaderLen - 1
  PROVE  Spec => [](losses = 0 => AllOut /\ WholeFramesHeard)
<1>1. InStep => (losses = 0 => AllOut /\ WholeFramesHeard)
  <2> SUFFICES ASSUME InStep, losses = 0 PROVE AllOut /\ WholeFramesHeard
    OBVIOUS
  <2>1. PICK k : Whole(k, at) /\ decoded = Run(0, k) /\ owed \subseteq 1 .. k
    BY DEF InStep
  <2>2. k \in Nat /\ 0 \in 0 .. Total /\ k \in 0 .. Total
    BY <2>1, LengthsType DEF Whole
  <2>3. /\ Len(Run(0, k)) = k - 0
        /\ \A x \in 1 .. k - 0 : Run(0, k)[x] = FrameBytes(0 + x)
    BY <2>2, RunType
  <2>4. Len(decoded) = k /\ \A x \in 1 .. k : decoded[x] = FrameBytes(x)
    <3>1. k - 0 = k /\ \A x \in 1 .. k : 0 + x = x
      BY <2>2
    <3> QED BY <3>1, <2>1, <2>3
  <2>5. WholeFramesHeard
    BY <2>1, <2>4 DEF WholeFramesHeard
  <2> QED BY <2>1, <2>5 DEF AllOut
<1>2. MinCut >= HeaderLen - 1 /\ HeldOk /\ InStep /\ [Next]_vars => HeldOk' /\ InStep'
  BY HeldNext, InStepNext
<1> QED BY HeldInit, InStepInit, <1>1, <1>2, PTL DEF Spec
-----------------------------------------------------------------------------
(* What comes out after a loss *)

LEMMA FramesType ==
  ASSUME NEW S, NEW d \in Seq(S)
  PROVE  Walk(d).frames \in Seq(Seq(S))
<1> DEFINE L == Len(d) + 1
           c == CutOf(d)
           Bad(m) == ~ (c[L - m].frames \in Seq(Seq(S)))
           W == {m \in Nat : m <= L - 1 /\ Bad(m)}
<1>0. L \in Nat /\ L >= 1
  OBVIOUS
<1>1. ASSUME NEW i \in 1 .. L
      PROVE  c[i] = Cut(d, c, i)
  BY <1>1, CutIs
<1>2. ASSUME W # {}
      PROVE  FALSE
  <2>1. W \in SUBSET Nat
    OBVIOUS
  <2>2. PICK m \in W : \A y \in W : m <= y
    BY <1>2, <2>1, LeastNumber
  <2> DEFINE i == L - m
             n == FrameLength(From(d, i))
  <2>3. m \in Nat /\ m <= L - 1 /\ i \in 1 .. L /\ ~ (c[i].frames \in Seq(Seq(S)))
    BY <2>2, <1>0
  <2>4. c[i] = Cut(d, c, i)
    BY <2>3, <1>1
  <2>5. CASE n = NoLength \/ n > Len(d) - i + 1
    <3>1. Cut(d, c, i).frames = << >>
      BY <2>5 DEF Cut
    <3>2. << >> \in Seq(Seq(S))
      OBVIOUS
    <3> QED BY <3>1, <3>2, <2>3, <2>4
  <2>6. CASE ~ (n = NoLength \/ n > Len(d) - i + 1)
    <3>1. Cut(d, c, i).frames = <<SubSeq(d, i, i + n - 1)>> \o c[i + n].frames
      BY <2>6 DEF Cut
    <3>2. n \in Nat /\ n >= 12
      BY <2>6, FrameLengthType
    <3> DEFINE y == m - n
    <3>3. i + n = L - y /\ y \in Nat /\ y <= L - 1 /\ ~ (m <= y) /\ i + n - 1 <= Len(d)
      <4> HIDE DEF n
      <4>1. ~ (n > L - 1 - i + 1)
        BY <2>6
      <4> QED BY <4>1, <3>2, <2>3, <1>0
    <3>6. SubSeq(d, i, i + n - 1) \in Seq(S)
      <4> HIDE DEF n
      <4>1. \A x \in i .. i + n - 1 : d[x] \in S
        BY <3>2, <3>3, <2>3
      <4>2. i \in Int /\ i + n - 1 \in Int
        BY <3>2, <2>3
      <4> HIDE DEF i
      <4> QED BY <4>1, <4>2, SubSeqProperties
    <3> DEFINE sub == SubSeq(d, i, i + n - 1)
    <3> HIDE DEF n, y, sub
    <3>4. y \notin W
      BY <2>2, <3>3
    <3>5. c[i + n].frames \in Seq(Seq(S))
      BY <3>3, <3>4
    <3>7. <<sub>> \o c[i + n].frames \in Seq(Seq(S))
      <4>1. <<sub>> \in Seq(Seq(S))
        BY <3>6 DEF sub
      <4> QED BY <4>1, <3>5, ConcatProperties
    <3> QED BY <3>1, <3>7, <2>3, <2>4 DEF sub
  <2> QED BY <2>5, <2>6
<1>3. c[1].frames \in Seq(Seq(S))
  <2>1. L - 1 \in Nat /\ L - (L - 1) = 1 /\ L - 1 <= L - 1
    BY <1>0
  <2>2. L - 1 \notin W
    BY <1>2
  <2>3. ~ Bad(L - 1)
    <3> HIDE DEF Bad, L
    <3> QED BY <2>1, <2>2
  <2>4. c[L - (L - 1)].frames \in Seq(Seq(S))
    BY <2>3
  <2> HIDE DEF c, L
  <2> QED BY <2>1, <2>4
<1> QED BY <1>3, WalkIs

LEMMA OutType ==
  ASSUME NEW S, NEW p \in Seq(S), NEW d \in Seq(S)
  PROVE  FeedOn(p, d).out \in Seq(Seq(S))
<1>1. ASSUME NEW joined \in Seq(Seq(S)), NEW e \in Seq(S)
      PROVE  Split(joined, e).out \in Seq(Seq(S))
  <2> DEFINE w == Walk(e).frames
  <2>1. w \in Seq(Seq(S))
    BY FramesType
  <2> HIDE DEF w
  <2>2. joined \o w \in Seq(Seq(S)) /\ <<e>> \in Seq(Seq(S))
    BY <2>1, ConcatProperties
  <2>3. Split(joined, e).out \in {joined, <<e>>, joined \o w}
    BY DEF Split, w
  <2> QED BY <2>2, <2>3
<1> DEFINE joined == p \o d
           n == FrameLength(joined)
<1>2. joined \in Seq(S) /\ << >> \in Seq(Seq(S))
  OBVIOUS
<1>3. CASE p # << >> /\ n > Len(joined)
  BY <1>2, <1>3 DEF FeedOn
<1>4. CASE ~ (p # << >> /\ n > Len(joined)) /\ p # << >> /\ n \in 1 .. Len(joined)
           /\ CrcOk(SubSeq(joined, 1, n))
  <2>1. FeedOn(p, d) = Split(<<SubSeq(joined, 1, n)>>, From(joined, n + 1))
    BY <1>4 DEF FeedOn
  <2>2. From(joined, n + 1) \in Seq(S) /\ SubSeq(joined, 1, n) \in Seq(S)
    <3>1. /\ \A x \in n + 1 .. Len(joined) : joined[x] \in S
          /\ \A x \in 1 .. n : joined[x] \in S
      BY <1>2, <1>4
    <3>2. n + 1 \in Int /\ Len(joined) \in Int /\ n \in Int
      BY <1>2, <1>4
    <3> HIDE DEF joined, n
    <3> QED BY <3>1, <3>2, SubSeqProperties DEF From
  <2> HIDE DEF joined, n
  <2>3. <<SubSeq(joined, 1, n)>> \in Seq(Seq(S))
    BY <2>2
  <2> QED BY <2>1, <2>2, <2>3, <1>1
<1>5. CASE ~ (p # << >> /\ n > Len(joined))
           /\ ~ (p # << >> /\ n \in 1 .. Len(joined) /\ CrcOk(SubSeq(joined, 1, n)))
  <2>1. FeedOn(p, d) = Split(<< >>, d)
    BY <1>5 DEF FeedOn
  <2> QED BY <2>1, <1>1, <1>2
<1> QED BY <1>3, <1>4, <1>5

\* u is right up to m.
UptoFrom(out, u, m) ==
  /\ u = [i \in 0 .. Len(out) |-> u[i]]
  /\ \A i \in 0 .. m : u[i] = Upto(out, u)[i]

HasUpto(out, m) == \E u : UptoFrom(out, u, m)

LEMMA UptoExists ==
  ASSUME NEW S, NEW out \in Seq(S)
  PROVE  \E u : u = Upto(out, u)
<1> DEFINE L == Len(out)
           W == {m \in 0 .. L : HasUpto(out, m)}
<1>0. L \in Nat
  OBVIOUS
<1>1. 0 \in W
  <2>1. UptoFrom(out, [i \in 0 .. L |-> << >>], 0)
    BY <1>0 DEF UptoFrom, Upto
  <2>2. HasUpto(out, 0)
    BY <2>1, Zenon DEF HasUpto
  <2> QED BY <1>0, <2>2
<1>2. ASSUME NEW m \in 0 .. L - 1, m \in W
      PROVE  m + 1 \in W
  <2>0. m + 1 \in 0 .. L /\ m + 1 # 0 /\ (m + 1) - 1 = m /\ m \in Nat
    BY <1>0
  <2>1. PICK u : UptoFrom(out, u, m)
    BY <1>2, Zenon DEF HasUpto
  <2> DEFINE v == IF Decodes(out[m + 1]) THEN Append(u[m], out[m + 1]) ELSE u[m]
             g == [i \in 0 .. L |-> IF i = m + 1 THEN v ELSE u[i]]
  <2>2. g = [i \in 0 .. Len(out) |-> g[i]]
    OBVIOUS
  <2>3. \A i \in 0 .. m : g[i] = u[i]
    BY <2>0, <1>0
  <2>4. g[m + 1] = v
    BY <2>0
  <2> HIDE DEF g
  <2>5. ASSUME NEW i \in 0 .. m + 1
        PROVE  g[i] = Upto(out, g)[i]
    <3>1. i \in 0 .. Len(out)
      BY <2>0, <1>0
    <3>2. CASE i = m + 1
      <4>1. g[i - 1] = u[m]
        BY <3>2, <2>0, <2>3
      <4> QED BY <4>1, <3>1, <3>2, <2>0, <2>4 DEF Upto
    <3>3. CASE i # m + 1
      <4>1. i \in 0 .. m /\ (i # 0 => i - 1 \in 0 .. m)
        BY <3>3, <2>0
      <4>2. u[i] = Upto(out, u)[i]
        BY <4>1, <2>1 DEF UptoFrom
      <4>3. Upto(out, u)[i] = Upto(out, g)[i]
        BY <4>1, <3>1, <2>3 DEF Upto
      <4> QED BY <4>1, <4>2, <4>3, <2>3
    <3> QED BY <3>2, <3>3
  <2>6. UptoFrom(out, g, m + 1)
    BY <2>2, <2>5 DEF UptoFrom
  <2>7. HasUpto(out, m + 1)
    BY <2>6, Zenon DEF HasUpto
  <2> QED BY <2>0, <2>7
<1> HIDE DEF W, L
<1>3. L \in W
  BY <1>0, <1>1, <1>2, InductionTo
<1>4. PICK u : UptoFrom(out, u, L)
  BY <1>3, Zenon DEF W, HasUpto
<1>5. u = Upto(out, u)
  <2>1. /\ u = [i \in 0 .. Len(out) |-> u[i]]
        /\ \A i \in 0 .. Len(out) : u[i] = Upto(out, u)[i]
    BY <1>4 DEF UptoFrom, L
  <2>2. Upto(out, u) = [i \in 0 .. Len(out) |-> Upto(out, u)[i]]
    BY DEF Upto
  <2> QED BY <2>1, <2>2, Zenon
<1> QED BY <1>5

LEMMA DecodedType ==
  ASSUME NEW S, NEW out \in Seq(S)
  PROVE  Decoded(out) \in Seq(S)
<1> DEFINE L == Len(out)
           u == CHOOSE x : x = Upto(out, x)
<1>0. L \in Nat
  OBVIOUS
<1>1. u = Upto(out, u)
  BY UptoExists
<1> HIDE DEF u
<1> DEFINE W == {i \in 0 .. L : u[i] \in Seq(S)}
<1>2. 0 \in W
  BY <1>0, <1>1 DEF Upto
<1>3. ASSUME NEW n \in 0 .. L - 1, n \in W
      PROVE  n + 1 \in W
  <2>1. n + 1 \in 1 .. L /\ n + 1 \in 0 .. L /\ (n + 1) - 1 = n /\ n + 1 # 0
    BY <1>0
  <2>2. out[n + 1] \in S /\ u[n] \in Seq(S)
    BY <2>1, <1>3
  <2>3. Append(u[n], out[n + 1]) \in Seq(S)
    BY <2>2
  <2>4. u[n + 1] = IF Decodes(out[n + 1]) THEN Append(u[n], out[n + 1]) ELSE u[n]
    BY <2>1, <1>1 DEF Upto
  <2> QED BY <2>1, <2>2, <2>3, <2>4
<1> HIDE DEF W, L
<1>4. L \in W
  BY <1>0, <1>2, <1>3, InductionTo
<1> QED BY <1>4, DecodedIs DEF W, L, u

\* What was decoded stays decoded.
LEMMA StaysDecoded ==
  ASSUME NEW S, NEW s \in Seq(S), NEW t \in Seq(S), NEW f, \E j \in 1 .. Len(s) : s[j] = f
  PROVE  s \o t \in Seq(S) /\ \E j \in 1 .. Len(s \o t) : (s \o t)[j] = f
<1> DEFINE c == s \o t
<1>1. /\ c \in Seq(S) /\ Len(c) = Len(s) + Len(t)
      /\ \A i \in 1 .. Len(s) + Len(t) : c[i] = IF i <= Len(s) THEN s[i] ELSE t[i - Len(s)]
  BY ConcatProperties
<1> HIDE DEF c
<1>2. PICK j \in 1 .. Len(s) : s[j] = f
  OBVIOUS
<1>3. j \in 1 .. Len(c) /\ c[j] = f
  <2>1. Len(s) \in Nat /\ Len(t) \in Nat /\ j \in 1 .. Len(s) + Len(t)
    OBVIOUS
  <2> QED BY <2>1, <1>1, <1>2
<1> QED BY <1>1, <1>3 DEF c

LEMMA ValueType == \A b \in AllBytes : Value(b) \in Nat
<1> SUFFICES ASSUME NEW b \in AllBytes PROVE Value(b) \in Nat
  OBVIOUS
<1>1. b[1] \in Frames /\ b[2] \in Nat /\ b[2] \in 1 .. Lengths[b[1]]
  BY DEF AllBytes, Sent
<1>2. Lengths[b[1]] \in Nat
  BY <1>1, FrameEnds
<1> DEFINE i == b[2]
           n == Lengths[b[1]]
<1>3. n % 256 \in Nat /\ n \div 256 \in Nat
  <2>1. n \in Nat
    BY <1>2
  <2> HIDE DEF n
  <2> QED BY <2>1
<1>4. i > 9 => Body[i] \in Nat
  <2>1. b[1] \in 1 .. Len(Lengths)
    BY <1>1 DEF Frames
  <2>2. \A x \in 9 + 1 .. Lengths[b[1]] : Body[x] \in 0 .. 255
    BY <2>1, FrameAssumption DEF HeaderLen
  <2>3. i > 9 => i \in 9 + 1 .. Lengths[b[1]]
    BY <1>1, <1>2
  <2> QED BY <2>2, <2>3
<1>5. i \in 1 .. 9 \/ i > 9
  BY <1>1, <1>2
<1>6. CASE i \in 1 .. 9
  <2>1. Value(b) \in {88, 2, 7, 21, 80, n % 256, n \div 256, 0}
    <3>1. i = 1 \/ i = 2 \/ i = 3 \/ i = 4 \/ i = 5 \/ i = 6 \/ i = 7 \/ i = 8 \/ i = 9
      BY <1>6
    <3> QED BY <3>1 DEF Value
  <2> QED BY <2>1, <1>3
<1>7. CASE i > 9
  <2>1. Value(b) = Body[i]
    BY <1>1, <1>7 DEF Value
  <2> QED BY <2>1, <1>4, <1>7
<1> QED BY <1>5, <1>6, <1>7

\* The length read at bytes 6 to 9 of j bytes and then a frame: from the header
\* of that frame, and beyond any length of a frame.
LEMMA StrayLength ==
  ASSUME NEW j \in 1 .. 8, NEW r \in Nat, NEW q \in Nat, r + 256 * q >= 12,
         NEW v6 \in Nat, NEW v7 \in Nat, NEW v8 \in Nat, NEW v9 \in Nat,
         j = 1 => v6 = 80 /\ v7 = r /\ v8 = q,
         j = 2 => v6 = 21 /\ v7 = 80,
         j = 3 => v6 = 7 /\ v7 = 21,
         j = 4 => v6 = 2 /\ v7 = 7,
         j = 5 => v6 = 88 /\ v7 = 2 /\ v8 = 7,
         j = 6 => v7 = 88,
         j = 7 => v8 = 88,
         j = 8 => v9 = 88
  PROVE  v6 + 256 * v7 + 65536 * v8 + 16777216 * v9 > 1024
<1>1. CASE j = 1
  BY <1>1
<1>2. CASE j = 2
  BY <1>2
<1>3. CASE j = 3
  BY <1>3
<1>4. CASE j = 4
  BY <1>4
<1>5. CASE j = 5
  BY <1>5
<1>6. CASE j = 6
  BY <1>6
<1>7. CASE j = 7
  BY <1>7
<1>8. CASE j = 8
  BY <1>8
<1> QED BY <1>1, <1>2, <1>3, <1>4, <1>5, <1>6, <1>7, <1>8

\* Less than a header and the notification after it do not read as a frame: what
\* stands where the length would be is too large for one.
LEMMA HalfHeader ==
  ASSUME MaxFrameLen <= 1024,
         NEW p \in Seq(AllBytes), p # << >>, Len(p) < HeaderLen,
         NEW d \in Seq(AllBytes), Len(d) >= HeaderLen - 1,
         NEW k \in Frames, \A i \in 1 .. 8 : d[i] = <<k, i>>
  PROVE  FrameLength(p \o d) = NoLength
<1> DEFINE c == p \o d
           j == Len(p)
           m == Len(d)
           n == Lengths[k]
           q == n \div 256
           r == n % 256
<1>1. /\ c \in Seq(AllBytes) /\ Len(c) = j + m
      /\ \A i \in 1 .. j + m : c[i] = IF i <= j THEN p[i] ELSE d[i - j]
  BY ConcatProperties
<1>2. q \in Nat /\ r \in Nat /\ r + 256 * q >= 12
  <2>1. n \in Nat /\ n >= 12
    BY FrameEnds
  <2> HIDE DEF n
  <2> QED BY <2>1
<1>3. j \in 1 .. 8 /\ m \in Nat /\ m >= 8
  <2>1. j \in Nat /\ m \in Nat
    OBVIOUS
  <2>2. j # 0
    BY EmptySeq
  <2>3. j < 9 /\ m >= 8
    BY DEF HeaderLen
  <2> HIDE DEF j, m
  <2> QED BY <2>1, <2>2, <2>3
<1> HIDE DEF c, j, m, q, r
<1>4. ASSUME NEW i \in 6 .. 9
      PROVE  Value(c[i]) \in Nat /\ (i > j => c[i] = <<k, i - j>>)
  <2>1. i \in 1 .. j + m
    BY <1>3
  <2>2. c[i] \in AllBytes
    BY <2>1, <1>1
  <2>3. Value(c[i]) \in Nat
    BY <2>2, ValueType
  <2>4. ASSUME i > j PROVE c[i] = <<k, i - j>>
    <3>1. ~ (i <= j) /\ i - j \in 1 .. 8
      BY <2>4, <1>3
    <3> QED BY <3>1, <2>1, <1>1
  <2> QED BY <2>3, <2>4
<1> DEFINE w == [x \in 1 .. 8 |-> Value(<<k, x>>)]
           v == [i \in 6 .. 9 |-> Value(c[i])]
<1>5. w[1] = 88 /\ w[2] = 2 /\ w[3] = 7 /\ w[4] = 21 /\ w[5] = 80 /\ w[6] = r /\ w[7] = q
  BY DEF Value, q, r
<1>6. \A i \in 6 .. 9 : v[i] \in Nat
  BY <1>4
<1>7. \A i \in 6 .. 9 : i > j => v[i] = w[i - j]
  <2> SUFFICES ASSUME NEW i \in 6 .. 9, i > j PROVE v[i] = w[i - j]
    OBVIOUS
  <2>1. i - j \in 1 .. 8
    BY <1>3
  <2> QED BY <2>1, <1>4
<1>8. DeclaredLength(c) = v[6] + 256 * v[7] + 65536 * v[8] + 16777216 * v[9]
  BY DEF DeclaredLength
<1> DEFINE v6 == v[6]
           v7 == v[7]
           v8 == v[8]
           v9 == v[9]
<1>9. v6 \in Nat /\ v7 \in Nat /\ v8 \in Nat /\ v9 \in Nat
  BY <1>6
<1>10. /\ 6 > j => v6 = w[6 - j]
       /\ 7 > j => v7 = w[7 - j]
       /\ 8 > j => v8 = w[8 - j]
       /\ 9 > j => v9 = w[9 - j]
  BY <1>7
<1>14. DeclaredLength(c) = v6 + 256 * v7 + 65536 * v8 + 16777216 * v9
  BY <1>8
<1> HIDE DEF w, v, v6, v7, v8, v9
<1>11. v6 + 256 * v7 + 65536 * v8 + 16777216 * v9 > 1024
  <2>1. /\ j = 1 => v6 = 80 /\ v7 = r /\ v8 = q
        /\ j = 2 => v6 = 21 /\ v7 = 80
        /\ j = 3 => v6 = 7 /\ v7 = 21
        /\ j = 4 => v6 = 2 /\ v7 = 7
    BY <1>3, <1>5, <1>10
  <2>2. /\ j = 5 => v6 = 88 /\ v7 = 2 /\ v8 = 7
        /\ j = 6 => v7 = 88
        /\ j = 7 => v8 = 88
        /\ j = 8 => v9 = 88
    BY <1>3, <1>5, <1>10
  <2> QED BY <2>1, <2>2, <1>2, <1>3, <1>9, StrayLength
<1>12. DeclaredLength(c) > 1024 /\ DeclaredLength(c) \in Nat
  BY <1>9, <1>11, <1>14
<1>13. ~ (DeclaredLength(c) \in MinFrameLen .. MaxFrameLen)
  BY <1>12, FrameAssumption DEF MinFrameLen
<1> QED BY <1>13 DEF FrameLength, c

\* After a loss, at a boundary with nothing held that misses more than the
\* notification brings, the notification is read for itself.
LEMMA ReadForItself ==
  ASSUME MaxFrameLen <= 1024, MinCut >= HeaderLen - 1,
         NEW b \in 0 .. End[Total], NEW k \in 0 .. Total, End[k] < b,
         AtBoundary(b) \/ b - End[k] >= MinCut,
         NEW p \in Seq(AllBytes), Unfinished(p), FrameLength(p) <= Len(p) + Least
  PROVE  FeedOn(p, Segment(End[k], b)) = Split(<< >>, Segment(End[k], b))
<1> DEFINE a == End[k]
           d == Segment(a, b)
           c == p \o d
           n == FrameLength(c)
<1>0. End[Total] \in Nat /\ a \in Nat /\ a \in 0 .. b /\ b \in Nat /\ MinCut \in Nat /\ MinCut >= 8
  BY LengthsType, EndType, FrameAssumption DEF HeaderLen
<1>1. k + 1 \in Frames /\ \A i \in 1 .. b - a : i <= Lengths[k + 1] => d[i] = <<k + 1, i>>
  BY SegmentOpens
<1>9. (k + 1) - 1 = k
  BY LengthsType
<1>2. Lengths[k + 1] \in Nat /\ Lengths[k + 1] >= 12 /\ End[k + 1] = a + Lengths[k + 1]
  BY <1>1, <1>9, FrameEnds
<1>3. d \in Seq(AllBytes) /\ Len(d) = b - a
  <2>1. d \in Seq(Sent(b)) /\ Len(d) = b - a
    BY <1>0, SegmentType
  <2>2. Sent(b) \subseteq AllBytes
    BY <1>0, SentGrows DEF AllBytes
  <2> QED BY <2>1, <2>2
<1>4. Least \in Nat /\ Least <= b - a /\ b - a >= 8
  <2>1. CASE AtBoundary(b)
    <3>1. PICK x \in 0 .. Total : End[x] = b
      BY <2>1 DEF AtBoundary, Total
    <3>2. End[k + 1] <= b
      BY <3>1, EndsDiffer
    <3>3. b - a >= 12
      BY <3>2, <1>0, <1>2
    <3> QED BY <3>3, <1>0 DEF Least, MinFrameLen
  <2>2. CASE b - a >= MinCut
    BY <2>2, <1>0 DEF Least, MinFrameLen
  <2> QED BY <2>1, <2>2
<1>5. /\ c \in Seq(AllBytes) /\ Len(c) = Len(p) + (b - a) /\ Len(p) \in Nat
      /\ \A i \in 1 .. Len(p) + (b - a) : c[i] = IF i <= Len(p) THEN p[i] ELSE d[i - Len(p)]
  <2> HIDE DEF d
  <2>1. /\ c \in Seq(AllBytes) /\ Len(c) = Len(p) + Len(d)
        /\ \A i \in 1 .. Len(p) + Len(d) : c[i] = IF i <= Len(p) THEN p[i] ELSE d[i - Len(p)]
    BY <1>3, ConcatProperties
  <2> HIDE DEF c
  <2> QED BY <2>1, <1>3
<1>6. CASE p = << >>
  BY <1>6 DEF FeedOn
<1>7. CASE p # << >> /\ Len(p) < HeaderLen
  <2>1. \A i \in 1 .. 8 : d[i] = <<k + 1, i>>
    <3> TAKE i \in 1 .. 8
    <3>1. b - a \in Nat /\ b - a >= 8
      BY <1>0, <1>4
    <3> DEFINE held == b - a
               len == Lengths[k + 1]
    <3>2. held \in Nat /\ held >= 8 /\ len \in Nat /\ len >= 12
      BY <3>1, <1>2
    <3> HIDE DEF d, held, len
    <3>3. i \in 1 .. held /\ i <= len
      BY <3>2
    <3> QED BY <3>3, <1>1 DEF held, len
  <2>2. Len(d) >= HeaderLen - 1
    BY <1>3, <1>4 DEF HeaderLen
  <2> HIDE DEF d
  <2>3. n = 0
    BY <2>1, <2>2, <1>1, <1>3, <1>7, HalfHeader DEF NoLength
  <2> HIDE DEF n
  <2>4. ~ (n > Len(c)) /\ ~ (n \in 1 .. Len(c))
    BY <2>3, <1>5, <1>0
  <2> QED BY <2>4 DEF FeedOn, n, c, d
<1>8. CASE p # << >> /\ Len(p) >= HeaderLen
  <2>1. n = FrameLength(p)
    BY <1>3, <1>8, LengthOfStart
  <2>2. n > Len(p) /\ n <= Len(c) /\ n \in Nat
    <3>1. FrameLength(p) > Len(p)
      BY <1>8, <1>5 DEF Unfinished, HeaderLen
    <3>2. FrameLength(p) \in Nat
      BY FrameLengthType DEF NoLength
    <3> HIDE DEF n, c
    <3> QED BY <3>1, <3>2, <2>1, <1>0, <1>4, <1>5
  <2>3. ~ CrcOk(SubSeq(c, 1, n))
    <3> SUFFICES ASSUME CrcOk(SubSeq(c, 1, n)) PROVE FALSE
      OBVIOUS
    <3>1. PICK m \in Frames : SubSeq(c, 1, n) = FrameBytes(m)
      BY DEF CrcOk
    <3> DEFINE j == Len(p) + 1
               s == SubSeq(c, 1, n)
    <3> HIDE DEF n, c
    <3>2. j \in 1 .. n /\ j \in 1 .. Len(p) + (b - a) /\ ~ (j <= Len(p)) /\ j - Len(p) = 1 /\ j > 9
      <4> DEFINE l == Len(p)
                 e == b - a
      <4>1. l \in Nat /\ l >= 9 /\ e \in Nat /\ e >= 8 /\ n > l /\ n \in Nat
        <5>1. l \in Nat /\ l >= 9
          BY <1>8, <1>5 DEF HeaderLen
        <5>2. e \in Nat /\ e >= 8
          BY <1>4, <1>0
        <5>3. n > l /\ n \in Nat
          BY <2>2
        <5> QED BY <5>1, <5>2, <5>3
      <4> HIDE DEF l, e
      <4>2. l + 1 \in 1 .. n /\ l + 1 \in 1 .. l + e /\ ~ (l + 1 <= l) /\ (l + 1) - l = 1 /\ l + 1 > 9
        BY <4>1
      <4> QED BY <4>2 DEF l, e
    <3>3. c[j] = d[1]
      BY <3>2, <1>5
    <3>4. d[1] = <<k + 1, 1>>
      <4>1. 1 \in 1 .. b - a /\ 1 <= Lengths[k + 1]
        BY <1>0, <1>2, <1>4
      <4> HIDE DEF d
      <4> QED BY <4>1, <1>1
    <3>5. Len(s) = n /\ s[j] = c[j]
      <4>1. \A x \in 1 .. n : c[x] \in AllBytes
        BY <2>2, <1>5
      <4>2. 1 \in Int /\ n \in Int
        BY <2>2
      <4>3. /\ Len(s) = IF 1 <= n THEN n - 1 + 1 ELSE 0
            /\ \A x \in 1 .. n - 1 + 1 : s[x] = c[1 + x - 1]
        BY <4>1, <4>2, SubSeqProperties
      <4>4. j \in 1 .. n - 1 + 1 /\ 1 + j - 1 = j /\ 1 <= n /\ n - 1 + 1 = n
        BY <3>2, <2>2
      <4> HIDE DEF s, j
      <4> QED BY <4>3, <4>4
    <3>6. Len(FrameBytes(m)) = Lengths[m] /\ \A i \in 1 .. Lengths[m] : FrameBytes(m)[i] = <<m, i>>
      BY FrameBytesType
    <3> HIDE DEF s, d
    <3>7. s = FrameBytes(m)
      BY <3>1 DEF s
    <3>8. j \in 1 .. Lengths[m] /\ s[j] = <<m, j>>
      BY <3>2, <3>5, <3>6, <3>7
    <3>9. <<m, j>> = <<k + 1, 1>>
      BY <3>3, <3>4, <3>5, <3>8
    <3> QED BY <3>9, <3>2
  <2>4. ~ (n > Len(c))
    <3> HIDE DEF n, c
    <3> QED BY <2>2, <1>5, <1>0
  <2> QED BY <2>3, <2>4 DEF FeedOn
<1>10. Len(p) < HeaderLen \/ Len(p) >= HeaderLen
  BY <1>5 DEF HeaderLen
<1> QED BY <1>6, <1>7, <1>8, <1>10

\* What is held is the unfinished start of the frame that the stream is in, or a
\* leftover at a boundary that swallows nothing.
FollowsStream ==
  \/ \E k : Whole(k, at) /\ pending = Segment(End[k], at)
  \/ CleanBoundary(at, pending)

\* Then the next notification brings out the frames that end in it.
LEMMA HeardStep ==
  ASSUME MaxFrameLen <= 1024, MinCut >= HeaderLen - 1,
         HeldOk, FollowsStream,
         NEW b \in 0 .. End[Total], at < b, AtBoundary(b) \/ b - at >= MinCut
  PROVE  \E k \in 0 .. Total : \E j \in k .. Total :
           /\ Whole(k, at) /\ Whole(j, b)
           /\ FeedOn(pending, Segment(at, b)).out = Run(k, j)
           /\ FeedOn(pending, Segment(at, b)).pending = Segment(End[j], b)
<1>0. /\ at \in 0 .. End[Total] /\ at \in Nat /\ End[Total] \in Nat /\ b \in Nat /\ at \in 0 .. b
      /\ pending \in Seq(AllBytes) /\ Unfinished(pending) /\ Total \in Nat
  <2>1. at \in 0 .. End[Total] /\ pending \in Seq(Sent(at)) /\ Unfinished(pending)
    BY DEF HeldOk
  <2>2. End[Total] \in Nat
    BY LengthsType, EndType
  <2>3. at \in Nat /\ b \in Nat /\ at <= End[Total] /\ at \in 0 .. b
    BY <2>1, <2>2
  <2>4. Sent(at) \subseteq AllBytes
    BY <2>2, <2>3, SentGrows DEF AllBytes
  <2> QED BY <2>1, <2>2, <2>3, <2>4, LengthsType
<1>1. ASSUME NEW k, Whole(k, at), pending = Segment(End[k], at)
      PROVE  \E j \in k .. Total :
               /\ Whole(j, b)
               /\ FeedOn(pending, Segment(at, b)).out = Run(k, j)
               /\ FeedOn(pending, Segment(at, b)).pending = Segment(End[j], b)
  <2>1. AtBoundary(b) \/ b - at >= HeaderLen - 1
    <3>1. b - at >= MinCut => b - at >= HeaderLen - 1
      BY <1>0, FrameAssumption DEF HeaderLen
    <3> QED BY <3>1
  <2> QED BY <1>0, <1>1, <2>1, FeedExact
<1>2. ASSUME CleanBoundary(at, pending)
      PROVE  \E k \in 0 .. Total : \E j \in k .. Total :
               /\ Whole(k, at) /\ Whole(j, b)
               /\ FeedOn(pending, Segment(at, b)).out = Run(k, j)
               /\ FeedOn(pending, Segment(at, b)).pending = Segment(End[j], b)
  <2>1. PICK k \in 0 .. Total : End[k] = at
    BY <1>2 DEF CleanBoundary, AtBoundary, Total
  <2>2. FrameLength(pending) <= Len(pending) + Least
    BY <1>2 DEF CleanBoundary
  <2>3. End[k] < b /\ (AtBoundary(b) \/ b - End[k] >= MinCut)
    BY <2>1
  <2>4. FeedOn(pending, Segment(End[k], b)) = Split(<< >>, Segment(End[k], b))
    BY <1>0, <2>2, <2>3, ReadForItself
  <2>5. Whole(k, at)
    <3>1. ASSUME k < Total PROVE at < End[k + 1]
      <4>1. k + 1 \in Frames /\ (k + 1) - 1 = k
        BY <3>1, <1>0 DEF Frames, Total
      <4>2. End[k + 1] = End[k] + Lengths[k + 1] /\ Lengths[k + 1] >= 12 /\ Lengths[k + 1] \in Nat
        BY <4>1, FrameEnds
      <4> QED BY <4>2, <2>1, <1>0
    <3> QED BY <3>1, <2>1, <1>0 DEF Whole
  <2>6. PICK j \in k .. Total : Whole(j, b)
    <3>1. End[k] <= b
      BY <2>1, <1>0
    <3> QED BY <3>1, WholeFrom
  <2>7. << >> \in Seq(Seq(AllBytes)) /\ Run(k, j) \in Seq(Seq(AllBytes))
    BY <2>6, RunType
  <2>8. Split(<< >>, Segment(End[k], b)) = [out |-> << >> \o Run(k, j), pending |-> Segment(End[j], b)]
    BY <2>6, <2>7, SplitFinds
  <2>9. << >> \o Run(k, j) = Run(k, j)
    BY <2>7, ConcatEmptySeq
  <2> DEFINE r == FeedOn(pending, Segment(at, b))
  <2>10. r = [out |-> Run(k, j), pending |-> Segment(End[j], b)]
    BY <2>1, <2>4, <2>8, <2>9
  <2> HIDE DEF r
  <2>11. r.out = Run(k, j) /\ r.pending = Segment(End[j], b)
    BY <2>10
  <2> QED BY <2>5, <2>6, <2>11 DEF r
<1>3. ASSUME NEW k, Whole(k, at) PROVE k \in 0 .. Total
  BY <1>3 DEF Whole
<1> QED BY <1>1, <1>2, <1>3 DEF FollowsStream

\* A frame that has ended between a and b is one of those between.
LEMMA EndedIsBetween ==
  ASSUME NEW b \in Nat, NEW a \in Nat, NEW k \in 0 .. Total, NEW j \in k .. Total,
         Whole(k, a), Whole(j, b), NEW f \in Frames, a < End[f], End[f] <= b
  PROVE  \E x \in 1 .. Len(Run(k, j)) : Run(k, j)[x] = FrameBytes(f)
<1>1. f \in Nat /\ f >= 1 /\ End[f] \in Nat /\ f \in 0 .. Total /\ k \in Nat /\ j \in Nat /\ Total \in Nat
  BY FrameEnds, LengthsType
<1>2. k < f
  <2> SUFFICES ASSUME f <= k PROVE FALSE
    BY <1>1
  <2>1. End[f] <= End[k] /\ End[k] <= a /\ End[k] \in Nat
    BY EndsGrow, EndType DEF Whole
  <2> QED BY <2>1, <1>1
<1>3. f <= j
  <2> SUFFICES ASSUME j < f PROVE FALSE
    BY <1>1
  <2>1. j + 1 \in Frames /\ j + 1 <= f /\ j < Total
    BY <1>1 DEF Frames, Total
  <2>2. End[j + 1] <= End[f] /\ End[j + 1] \in Nat
    BY <1>1, <2>1, EndsGrow, FrameEnds
  <2>3. b < End[j + 1]
    BY <2>1 DEF Whole
  <2> QED BY <1>1, <2>2, <2>3
<1>4. f - k \in 1 .. j - k /\ k + (f - k) = f
  BY <1>1, <1>2, <1>3
<1>5. Len(Run(k, j)) = j - k /\ Run(k, j)[f - k] = FrameBytes(k + (f - k))
  BY <1>4, RunType
<1>6. Run(k, j)[f - k] = FrameBytes(f) /\ f - k \in 1 .. Len(Run(k, j))
  BY <1>4, <1>5
<1> QED BY <1>6

HeardOk ==
  /\ decoded \in Seq(Seq(AllBytes))
  /\ WholeFramesHeard
  /\ synced => FollowsStream

LEMMA CleanIfEmpty == \A n : AtBoundary(n) => CleanBoundary(n, << >>)
<1>1. FrameLength(<< >>) = 0
  <2>1. ~ (Len(<< >>) >= HeaderLen)
    BY DEF HeaderLen
  <2> QED BY <2>1 DEF FrameLength, NoLength
<1>2. Least \in Nat
  BY FrameAssumption DEF Least, MinFrameLen
<1>3. FrameLength(<< >>) <= Len(<< >>) + Least
  BY <1>1, <1>2
<1> QED BY <1>3 DEF CleanBoundary

LEMMA HeardInit == Init => HeardOk
<1> SUFFICES ASSUME Init PROVE HeardOk
  OBVIOUS
<1>1. at = 0 /\ decoded = << >> /\ pending = << >> /\ owed = {}
  BY DEF Init
<1>2. AtBoundary(0)
  BY LengthsType, EndIs DEF AtBoundary, Total
<1>3. CleanBoundary(at, pending)
  BY <1>1, <1>2, CleanIfEmpty
<1>4. decoded \in Seq(Seq(AllBytes))
  BY <1>1
<1> QED BY <1>1, <1>3, <1>4 DEF HeardOk, WholeFramesHeard, FollowsStream

LEMMA HeardNext ==
  ASSUME MaxFrameLen <= 1024, MinCut >= HeaderLen - 1, HeldOk, HeardOk, [Next]_vars
  PROVE  HeardOk'
<1>0. /\ at \in 0 .. End[Total] /\ pending \in Seq(Sent(at))
      /\ decoded \in Seq(Seq(AllBytes)) /\ WholeFramesHeard /\ (synced => FollowsStream)
  BY DEF HeldOk, HeardOk
<1>1. ASSUME NEW n \in 1 .. Mtu, Feed(n)
      PROVE  HeardOk'
  <2> DEFINE b == at'
             d == Segment(at, b)
             r == FeedOn(pending, d)
             more == Decoded(r.out)
  <2>1. NextNotification(n)
    BY <1>1 DEF Feed
  <2>2. /\ b \in 0 .. End[Total] /\ at \in 0 .. b /\ at < b /\ b \in Nat /\ at \in Nat
        /\ n = b - at /\ b = at + n /\ [i \in 1 .. n |-> ByteAt(at + i)] = d
    BY <2>1, <1>0, NotificationIs
  <2>3. decoded' = decoded \o more /\ pending' = r.pending
    <3>1. /\ decoded' = decoded \o Decoded(FeedOn(pending, [i \in 1 .. n |-> ByteAt(at + i)]).out)
          /\ pending' = FeedOn(pending, [i \in 1 .. n |-> ByteAt(at + i)]).pending
      BY <1>1 DEF Feed
    <3> QED BY <3>1, <2>2
  <2>4. /\ synced' = (synced \/ CleanBoundary(at', pending'))
        /\ owed' = IF synced THEN owed \union {k \in Frames : at < End[k] /\ End[k] <= at'} ELSE owed
    BY <1>1 DEF Feed
  <2>5. more \in Seq(Seq(AllBytes))
    <3>1. End[Total] \in Nat /\ b <= End[Total] /\ at <= End[Total]
      <4> DEFINE e == End[Total]
      <4>1. e \in Nat
        BY LengthsType, EndType
      <4>2. b \in 0 .. e /\ at \in 0 .. b
        BY <2>2
      <4> HIDE DEF b, d, e
      <4>3. b <= e /\ at <= e
        BY <4>1, <4>2
      <4> QED BY <4>1, <4>3 DEF e
    <3>2. Sent(b) \subseteq AllBytes /\ Sent(at) \subseteq AllBytes
      BY <3>1, <2>2, SentGrows DEF AllBytes
    <3>3. d \in Seq(Sent(b))
      BY <2>2, SegmentType
    <3> HIDE DEF d
    <3>4. d \in Seq(AllBytes) /\ pending \in Seq(AllBytes)
      BY <1>0, <3>2, <3>3
    <3>5. r.out \in Seq(Seq(AllBytes))
      BY <3>4, OutType
    <3> QED BY <3>5, DecodedType
  <2> HIDE DEF more, r
  <2>6. decoded' \in Seq(Seq(AllBytes))
    BY <1>0, <2>3, <2>5
  <2>7. \A k \in owed : \E j \in 1 .. Len(decoded') : decoded'[j] = FrameBytes(k)
    <3> SUFFICES ASSUME NEW k \in owed
                 PROVE  \E j \in 1 .. Len(decoded') : decoded'[j] = FrameBytes(k)
      OBVIOUS
    <3>1. \E j \in 1 .. Len(decoded) : decoded[j] = FrameBytes(k)
      BY <1>0 DEF WholeFramesHeard
    <3>2. \E j \in 1 .. Len(decoded \o more) : (decoded \o more)[j] = FrameBytes(k)
      BY <1>0, <2>5, <3>1, StaysDecoded
    <3> QED BY <3>2, <2>3
  <2>8. CASE synced
    <3>1. AtBoundary(b) \/ b - at >= MinCut
      BY <2>1, <2>2 DEF NextNotification
    <3>2. PICK k \in 0 .. Total : \E j \in k .. Total :
            Whole(k, at) /\ Whole(j, b) /\ r.out = Run(k, j) /\ r.pending = Segment(End[j], b)
      BY <1>0, <2>2, <2>8, <3>1, HeardStep DEF r
    <3>3. PICK j \in k .. Total :
            Whole(k, at) /\ Whole(j, b) /\ r.out = Run(k, j) /\ r.pending = Segment(End[j], b)
      BY <3>2
    <3>4. more = Run(k, j)
      BY <3>3, RunDecodes DEF more
    <3>5. ASSUME NEW f \in Frames, at < End[f], End[f] <= b
          PROVE  \E i \in 1 .. Len(decoded') : decoded'[i] = FrameBytes(f)
      <4>1. \E x \in 1 .. Len(more) : more[x] = FrameBytes(f)
        BY <2>2, <3>3, <3>4, <3>5, EndedIsBetween
      <4>2. PICK x \in 1 .. Len(more) : more[x] = FrameBytes(f)
        BY <4>1
      <4>3. /\ Len(decoded \o more) = Len(decoded) + Len(more)
            /\ \A i \in 1 .. Len(decoded) + Len(more) :
                 (decoded \o more)[i] = IF i <= Len(decoded) THEN decoded[i] ELSE more[i - Len(decoded)]
        BY <1>0, <2>5, ConcatProperties
      <4> DEFINE l == Len(decoded)
                 m == Len(more)
      <4>4. l \in Nat /\ m \in Nat /\ x \in 1 .. m
        BY <1>0, <2>5
      <4> HIDE DEF l, m
      <4>5. l + x \in 1 .. l + m /\ ~ (l + x <= l) /\ (l + x) - l = x
        BY <4>4
      <4>6. (decoded \o more)[l + x] = more[x] /\ Len(decoded \o more) = l + m
        BY <4>3, <4>5 DEF l, m
      <4>7. l + x \in 1 .. Len(decoded') /\ decoded'[l + x] = FrameBytes(f)
        BY <4>2, <4>5, <4>6, <2>3
      <4> QED BY <4>7
    <3>6. WholeFramesHeard'
      BY <2>4, <2>7, <2>8, <3>5 DEF WholeFramesHeard
    <3>7. FollowsStream'
      BY <3>3, <2>3 DEF FollowsStream
    <3> QED BY <2>6, <3>6, <3>7 DEF HeardOk
  <2>9. CASE ~ synced
    <3>1. WholeFramesHeard'
      BY <2>4, <2>7, <2>9 DEF WholeFramesHeard
    <3>2. synced' => FollowsStream'
      BY <2>4, <2>9 DEF FollowsStream
    <3> QED BY <2>6, <3>1, <3>2 DEF HeardOk
  <2> QED BY <2>8, <2>9
<1>2. ASSUME NEW n \in 1 .. Mtu, Lose(n)
      PROVE  HeardOk'
  <2>1. synced' = CleanBoundary(at', pending) /\ UNCHANGED <<pending, decoded, owed>>
    BY <1>2 DEF Lose
  <2>2. synced' => FollowsStream'
    BY <2>1 DEF FollowsStream
  <2> QED BY <1>0, <2>1, <2>2 DEF HeardOk, WholeFramesHeard
<1>3. CASE Reset
  <2>1. pending' = << >> /\ synced' = AtBoundary(at) /\ UNCHANGED <<at, decoded, owed>>
    BY <1>3 DEF Reset
  <2>2. synced' => CleanBoundary(at', pending')
    BY <2>1, CleanIfEmpty
  <2>3. synced' => FollowsStream'
    BY <2>2 DEF FollowsStream
  <2> QED BY <1>0, <2>1, <2>3 DEF HeardOk, WholeFramesHeard
<1>4. CASE UNCHANGED vars
  BY <1>0, <1>4 DEF vars, HeardOk, WholeFramesHeard, FollowsStream
<1> QED BY <1>1, <1>2, <1>3, <1>4 DEF Next

\* Whatever was lost before, and however the stream is cut into notifications of
\* 8 bytes or more, each frame heard whole since the last clean boundary comes
\* out.  That a frame is at most 1024 bytes long keeps less than a header from
\* reading as a frame together with the notification after it.
THEOREM HeardIsReturned ==
  ASSUME MaxFrameLen <= 1024, MinCut >= HeaderLen - 1
  PROVE  Spec => []WholeFramesHeard
<1>1. HeardOk => WholeFramesHeard
  BY DEF HeardOk
<1>2. HeldOk /\ HeardOk /\ [Next]_vars => HeldOk' /\ HeardOk'
  BY HeldNext, HeardNext
<1> QED BY HeldInit, HeardInit, <1>1, <1>2, PTL DEF Spec
=============================================================================
