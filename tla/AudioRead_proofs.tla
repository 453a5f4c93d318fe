--------------------------- MODULE AudioRead_proofs ---------------------------
(***************************************************************************)
(* Proofs about AudioRead: that its state is well-typed, that there is no  *)
(* silence inside a sound file, and that every sample is at its place when *)
(* all frames have the same length, for all files, decoders and handles.   *)
(***************************************************************************)
EXTENDS AudioRead, FiniteSetTheorems, SequenceTheorems, WellFoundedInduction, TLAPS

\* While a read is under way, only sound has been written.
Sounding == pc # "idle" => out \in Seq(Samples)

\* In a file that can be decoded from its start, a seek is for the sample that
\* is read next, and no frame was ever found to be the first that can be had.
Seeking == ~file.drops =>
  /\ pc = "seek" => time_stamp = ReadPos
  /\ valid_first = NoPts

\* All frames have the same length.
Regular == \A f, g \in Frames : FrameEnd(f) - f = FrameEnd(g) - g

\* The sample that is read next is in the decoder's frame, and not in the buffer.
MustConvert == Turn /\ ~BeforeFirst /\ ~Buffered /\ At(cur, ReadPos)

\* A resampler holds a frame under that frame's position, unless its handle is
\* about to convert the decoder's frame anyway: the frame was fed to it after a
\* frame of another decoder.
Labelled == Regular /\ Delay = 0 => \A w \in Handles :
  /\ swr[w].held = <<>>
  /\ \/ swr[w].pos = NoPts /\ swr[w].buf = <<>>
     \/ swr[w].pos \in Frames /\ swr[w].buf = Frame(swr[w].pos)
     \/ w = who /\ MustConvert

\* No file is assumed to be like this: the theorem is about those that are.
RegularInPlace == Regular => SamplesInPlace

IInv == /\ TypeOK
        /\ Sounding
        /\ Seeking
        /\ NoNeedlessSilence
        /\ Labelled
        /\ RegularInPlace

-----------------------------------------------------------------------------
(***************************************************************************)
(* The least and the greatest element of a set of integers.                *)
(***************************************************************************)

\* A set of natural numbers has a least element.
LEMMA LeastNatural ==
  ASSUME NEW T, T \subseteq Nat, T # {}
  PROVE  \E n \in T : \A k \in T : n <= k
<1> DEFINE R == OpToRel(<, Nat)
<1>1. IsWellFoundedOn(R, Nat)
  BY NatLessThanWellFounded
<1>2. \A m, n \in Nat : m < n => <<m, n>> \in R
  BY DEF OpToRel
<1> HIDE DEF R
<1>3. PICK n \in T : \A k \in T : <<k, n>> \notin R
  BY <1>1, WFMin
<1>4. ASSUME NEW k \in T PROVE n <= k
  <2>1. ~(k < n)
    BY <1>2, <1>3
  <2> QED
    BY <2>1
<1> QED
  BY <1>4

\* A set of integers with a lower bound has a least element, and Min is it.
LEMMA Least ==
  ASSUME NEW S, S \subseteq Int, S # {}, NEW b \in Int, \A x \in S : b <= x
  PROVE  Min(S) \in S /\ \A y \in S : Min(S) <= y
<1> DEFINE T == {x - b : x \in S}
<1>1. T \subseteq Nat /\ T # {}
  <2>1. \A x \in T : x \in Nat
    OBVIOUS
  <2> QED
    BY <2>1
<1>2. \A y \in S : y - b \in T
  OBVIOUS
<1>3. \A n \in T : \E m \in S : n = m - b
  OBVIOUS
<1> HIDE DEF T
<1>4. PICK n \in T : \A k \in T : n <= k
  BY <1>1, LeastNatural
<1>5. PICK m \in S : n = m - b
  BY <1>3
<1>6. ASSUME NEW y \in S PROVE m <= y
  <2>1. n <= y - b
    BY <1>2, <1>4
  <2> QED
    BY <1>5, <2>1
<1> QED
  BY <1>6 DEF Min

\* A set of integers with an upper bound has a greatest element, and Max is it.
LEMMA Greatest ==
  ASSUME NEW S, S \subseteq Int, S # {}, NEW b \in Int, \A x \in S : x <= b
  PROVE  Max(S) \in S /\ \A y \in S : y <= Max(S)
<1> DEFINE T == {b - x : x \in S}
<1>1. T \subseteq Nat /\ T # {}
  <2>1. \A x \in T : x \in Nat
    OBVIOUS
  <2> QED
    BY <2>1
<1>2. \A y \in S : b - y \in T
  OBVIOUS
<1>3. \A n \in T : \E m \in S : n = b - m
  OBVIOUS
<1> HIDE DEF T
<1>4. PICK n \in T : \A k \in T : n <= k
  BY <1>1, LeastNatural
<1>5. PICK m \in S : n = b - m
  BY <1>3
<1>6. ASSUME NEW y \in S PROVE m >= y
  <2>1. n <= b - y
    BY <1>2, <1>4
  <2> QED
    BY <1>5, <2>1
<1>7. Max(S) \in S /\ \A y \in S : Max(S) >= y
  BY <1>6 DEF Max
<1> QED
  BY <1>7

-----------------------------------------------------------------------------
(***************************************************************************)
(* The file: where its frames begin and end.                               *)
(***************************************************************************)

\* What the assumptions say of the file that is read.
LEMMA FileFacts ==
  ASSUME file \in Files
  PROVE  /\ Length \in Nat /\ Delay \in Nat
         /\ 0 \in Frames
         /\ Frames \subseteq Nat
         /\ \A f \in Frames : f < Length
         /\ LastFrame \in Frames
         /\ \A f \in Frames : f <= LastFrame
<1>1. Length \in Nat /\ Delay \in Nat /\ 0 \in Frames /\ Frames \subseteq 0..Length - 1
  BY AudioAssumption DEF Length, Delay, Frames
<1>2. Frames \subseteq Int /\ Frames # {} /\ Length \in Int
  BY <1>1
<1>3. \A f \in Frames : f <= Length
  BY <1>1
<1>4. LastFrame \in Frames /\ \A f \in Frames : f <= LastFrame
  BY <1>2, <1>3, Greatest DEF LastFrame
<1> QED
  BY <1>1, <1>4

\* A frame lasts until the next one, the last one until the end.
LEMMA Ends ==
  ASSUME file \in Files, NEW f \in Frames
  PROVE  /\ FrameEnd(f) \in Frames \cup {Length}
         /\ FrameEnd(f) \in Nat /\ f < FrameEnd(f) /\ FrameEnd(f) <= Length
         /\ \A g \in Frames \cup {Length} : f < g => FrameEnd(f) <= g
         /\ FrameEnd(f) = Length <=> f = LastFrame
<1> DEFINE later == {g \in Frames \cup {Length} : g > f}
<1>1. /\ Length \in Nat /\ f \in Nat /\ f < Length /\ Frames \subseteq Nat
      /\ \A g \in Frames : g < Length
      /\ LastFrame \in Frames
      /\ \A g \in Frames : g <= LastFrame
  BY FileFacts
<1>2. ASSUME NEW g \in later PROVE g \in Int /\ f <= g
  BY <1>1
<1>3. Length \in later
  BY <1>1
<1>4. FrameEnd(f) = Min(later)
  BY DEF FrameEnd
<1> HIDE DEF later
<1>5. later \subseteq Int /\ later # {} /\ f \in Int
  BY <1>1, <1>2, <1>3
<1>6. FrameEnd(f) \in later /\ \A g \in later : FrameEnd(f) <= g
  BY <1>2, <1>4, <1>5, Least
<1>7. /\ FrameEnd(f) \in Frames \cup {Length} /\ FrameEnd(f) > f
      /\ \A g \in Frames \cup {Length} : f < g => FrameEnd(f) <= g
  BY <1>1, <1>6 DEF later
<1>8. FrameEnd(f) \in Nat /\ FrameEnd(f) <= Length
  BY <1>1, <1>7
<1>9. f = LastFrame => FrameEnd(f) = Length
  <2>1. ASSUME f = LastFrame, FrameEnd(f) \in Frames PROVE FALSE
    BY <1>1, <1>7, <1>8, <2>1
  <2> QED
    BY <1>7, <2>1
<1>10. f # LastFrame => FrameEnd(f) # Length
  <2>1. ASSUME f # LastFrame PROVE FrameEnd(f) < Length
    <3>1. f < LastFrame
      BY <1>1, <2>1
    <3>2. FrameEnd(f) <= LastFrame
      BY <1>1, <1>7, <3>1
    <3> QED
      BY <1>1, <1>8, <3>2
  <2> QED
    BY <1>8, <2>1
<1> QED
  BY <1>7, <1>8, <1>9, <1>10

\* A frame before the last one is followed by a frame.
LEMMA Follows ==
  ASSUME file \in Files, NEW f \in Frames, f # LastFrame
  PROVE  FrameEnd(f) \in Frames
BY Ends

\* The samples of a frame.
LEMMA FrameSamples ==
  ASSUME file \in Files, NEW f \in Frames
  PROVE  /\ Frame(f) \in Seq(Samples)
         /\ Len(Frame(f)) = FrameEnd(f) - f
         /\ \A i \in 1..Len(Frame(f)) : Frame(f)[i] = f + i - 1
<1>1. /\ f \in Nat /\ FrameEnd(f) \in Nat /\ f < FrameEnd(f)
      /\ FrameEnd(f) <= Length /\ Length \in Nat
  BY FileFacts, Ends
<1> DEFINE n == FrameEnd(f) - f
<1>2. n \in Nat
  BY <1>1
<1>3. Frame(f) = [i \in 1..n |-> f + i - 1]
  BY DEF Frame
<1>4. \A i \in 1..n : f + i - 1 \in Samples
  BY <1>1 DEF Samples
<1> HIDE DEF n
<1>5. Frame(f) \in [1..n -> Samples]
  BY <1>3, <1>4
<1>6. Frame(f) \in Seq(Samples) /\ Len(Frame(f)) = n
  BY <1>2, <1>5, SeqDef
<1> QED
  BY <1>3, <1>6 DEF n

\* A seek leads to a frame, or behind the last one; without dropped frames to
\* the one that has the sample.
LEMMA Lands ==
  ASSUME file \in Files, NEW t
  PROVE  /\ IsPts(Landing(t)) => Landing(t) \in Frames
         /\ ~file.drops => Landing(t) \in Frames
         /\ ~file.drops /\ t \in Nat => Landing(t) <= t
<1> DEFINE K == {f \in Frames : f <= t} \cup {0}
<1>1. /\ 0 \in Frames /\ Frames \subseteq Nat /\ Length \in Nat
      /\ \A f \in Frames : f <= Length
  BY FileFacts
<1>2. ASSUME NEW f \in K PROVE f \in Frames /\ f \in Int /\ f <= Length
  BY <1>1
<1>3. 0 \in K /\ \A f \in K : t \in Nat => f <= t
  BY <1>1
<1>4. Found(t) = Max(K)
  BY DEF Found
<1> HIDE DEF K
<1>5. K \subseteq Int /\ K # {} /\ Length \in Int
  BY <1>1, <1>2, <1>3
<1>6. Found(t) \in K
  BY <1>2, <1>4, <1>5, Greatest
<1>7. Found(t) \in Frames /\ (t \in Nat => Found(t) <= t)
  BY <1>2, <1>3, <1>6
<1>8. IsPts(After(Found(t))) => After(Found(t)) \in Frames
  BY <1>7, Follows DEF After, IsPts
<1> QED
  BY <1>7, <1>8 DEF Landing

-----------------------------------------------------------------------------
(***************************************************************************)
(* The choice of a decoder.                                                *)
(***************************************************************************)

\* A decoder and what it may hold.
Holds == [pos : Frames \cup {NoPts}, ts : 0..Cap]

\* Some decoder is the least recently used.
LEMMA SomeLru ==
  ASSUME TypeOK
  PROVE  Lru # {}
<1> DEFINE T == {dec[i].ts : i \in 1..len}
<1>1. 1 \in 1..len /\ \A i \in 1..len : dec[i].ts \in Nat
  BY AudioAssumption DEF TypeOK, Decoders
<1>2. T \subseteq Nat /\ T # {}
  BY <1>1
<1>3. PICK n \in T : \A k \in T : n <= k
  BY <1>2, LeastNatural
<1>4. PICK i \in 1..len : n = dec[i].ts
  OBVIOUS
<1>5. i \in Lru
  BY <1>3, <1>4 DEF Lru
<1> QED
  BY <1>5

\* find_stream returns a decoder that is open.
LEMMA Choice ==
  ASSUME TypeOK, NEW t
  PROVE  Chosen(t) \in 1..len
<1>1. ASSUME NEW S, S \subseteq 1..len, S # {} PROVE Min(S) \in S
  <2>1. S \subseteq Int /\ \A i \in S : 1 <= i
    BY <1>1, AudioAssumption DEF TypeOK, Decoders
  <2>2. PICK b \in Int : \A i \in S : b <= i
    BY <2>1
  <2> QED
    BY <1>1, <2>1, <2>2, Least
<1>2. Close(t) \subseteq 1..len /\ Lru \subseteq 1..len
  BY DEF Close, Lru
<1>3. CASE Close(t) # {}
  BY <1>1, <1>2, <1>3 DEF Chosen
<1>4. CASE Close(t) = {}
  BY <1>1, <1>2, <1>4, SomeLru DEF Chosen
<1> QED
  BY <1>3, <1>4

\* The rank of the decoder chosen is at most the number of decoders.
LEMMA RankFits ==
  ASSUME NEW i \in Decoders
  PROVE  Cardinality({k \in Decoders : dec[k].ts > 0} \cup {i}) \in 0..Cap
<1> DEFINE S == {k \in Decoders : dec[k].ts > 0} \cup {i}
<1>1. Cap \in Nat /\ S \subseteq 1..Cap
  BY AudioAssumption DEF Decoders
<1>2. IsFiniteSet(1..Cap) /\ Cardinality(1..Cap) = Cap
  BY <1>1, FS_Interval
<1>3. IsFiniteSet(S) /\ Cardinality(S) <= Cardinality(1..Cap)
  BY <1>1, <1>2, FS_Subset
<1>4. Cardinality(S) \in Nat
  BY <1>3, FS_CardinalityType
<1> HIDE DEF S
<1>5. Cardinality(S) \in 0..Cap
  BY <1>1, <1>2, <1>3, <1>4
<1> QED
  BY <1>5 DEF S

\* Noting the time of use changes nothing but the times of use.
LEMMA Touched ==
  ASSUME TypeOK, NEW i \in Decoders
  PROVE  /\ Touch(i) \in [Decoders -> Holds]
         /\ \A j \in Decoders : Touch(i)[j].pos = dec[j].pos
<1> DEFINE n == Cardinality({k \in Decoders : dec[k].ts > 0} \cup {i})
           earlier(ts) == IF dec[i].ts > 0 /\ ts > dec[i].ts THEN ts - 1 ELSE ts
<1>1. n \in 0..Cap
  BY RankFits
<1>2. dec \in [Decoders -> Holds] /\ Cap \in Nat
  BY AudioAssumption DEF TypeOK, Holds
<1> HIDE DEF n
<1>3. Touch(i) = [j \in Decoders |-> IF j = i
                    THEN [dec[j] EXCEPT !.ts = n]
                    ELSE [dec[j] EXCEPT !.ts = earlier(dec[j].ts)]]
  BY DEF Touch, n
<1>4. \A j \in Decoders : earlier(dec[j].ts) \in 0..Cap
  BY <1>2 DEF Holds
<1> HIDE DEF earlier
<1>5. ASSUME NEW j \in Decoders
      PROVE  Touch(i)[j] \in Holds /\ Touch(i)[j].pos = dec[j].pos
  <2>1. dec[j] \in Holds /\ earlier(dec[j].ts) \in 0..Cap
    BY <1>2, <1>4
  <2>2. Touch(i)[j] = [dec[j] EXCEPT !.ts = n]
        \/ Touch(i)[j] = [dec[j] EXCEPT !.ts = earlier(dec[j].ts)]
    BY <1>3
  <2> QED
    BY <1>1, <2>1, <2>2 DEF Holds
<1> QED
  BY <1>3, <1>5

-----------------------------------------------------------------------------
(***************************************************************************)
(* The resampler and the caller's buffer.                                  *)
(***************************************************************************)

\* A resampler and what it may hold.
Resamplers == [pos : Nat \cup {NoPts}, buf : Seq(Samples), held : Seq(Samples)]

\* The resampler gives samples of the file and holds back what it may.
LEMMA Converts ==
  ASSUME file \in Files, NEW s, s.held \in Seq(Samples), NEW f \in Frames,
         NEW q \in Nat \cup {NoPts}
  PROVE  /\ Convert(s, f, q) \in Resamplers
         /\ Len(Convert(s, f, q).held) <= Delay
<1> DEFINE all == s.held \o Frame(f)
           n == IF Len(all) > Delay THEN Len(all) - Delay ELSE 0
<1>1. Frame(f) \in Seq(Samples) /\ Delay \in Nat
  BY FrameSamples, FileFacts
<1>2. all \in Seq(Samples)
  BY <1>1, ConcatProperties
<1>3. Convert(s, f, q) = [pos |-> q, buf |-> SubSeq(all, 1, n),
                          held |-> SubSeq(all, n + 1, Len(all))]
  BY DEF Convert
<1> HIDE DEF all
<1>4. Len(all) \in Nat /\ \A i \in 1..Len(all) : all[i] \in Samples
  BY <1>2, LenProperties, ElementOfSeq
<1>5. n \in Int /\ 0 <= n /\ n <= Len(all) /\ Len(all) - n <= Delay
  BY <1>1, <1>4
<1> HIDE DEF n
<1>6. SubSeq(all, 1, n) \in Seq(Samples)
  BY <1>4, <1>5, SubSeqProperties
<1>7. /\ SubSeq(all, n + 1, Len(all)) \in Seq(Samples)
      /\ Len(SubSeq(all, n + 1, Len(all))) <= Delay
  <2>1. n + 1 \in Int /\ Len(all) \in Int /\ \A i \in (n + 1)..Len(all) : all[i] \in Samples
    BY <1>4, <1>5
  <2>2. /\ SubSeq(all, n + 1, Len(all)) \in Seq(Samples)
        /\ Len(SubSeq(all, n + 1, Len(all))) =
             IF n + 1 <= Len(all) THEN Len(all) - (n + 1) + 1 ELSE 0
    BY <2>1, SubSeqProperties
  <2> QED
    BY <1>1, <1>4, <1>5, <2>2
<1> QED
  BY <1>3, <1>6, <1>7 DEF Resamplers

\* What the code zeroes is all that has not been written yet.
LEMMA Zeroes ==
  ASSUME TypeOK, ZeroRest
  PROVE  /\ out' \in Seq(Samples \cup {Silence})
         /\ Len(out') = size
         /\ Len(out) \in Nat /\ Len(out) <= size /\ size \in Nat
         /\ \A i \in 1..Len(out) : out'[i] = out[i]
         /\ \A i \in (Len(out) + 1)..size : out'[i] = Silence
<1> DEFINE S == Samples \cup {Silence}
           m == size - Len(out)
           zeroes == [i \in 1..m |-> Silence]
<1>1. out \in Seq(S) /\ Len(out) \in Nat /\ size \in Nat /\ Len(out) <= size
  <2>1. out \in Seq(S) /\ Len(out) <= size
    BY DEF TypeOK
  <2>2. size \in Nat
    BY AudioAssumption DEF TypeOK
  <2> HIDE DEF S
  <2>3. Len(out) \in Nat
    BY <2>1, LenProperties
  <2> QED
    BY <2>1, <2>2, <2>3
<1>2. m \in Nat
  BY <1>1
<1>3. out' = out \o zeroes
  BY DEF ZeroRest
<1>4. Silence \in S
  OBVIOUS
<1> HIDE DEF m, S
<1>5. zeroes \in [1..m -> S]
  BY <1>4
<1>6. zeroes \in Seq(S) /\ Len(zeroes) = m /\ \A i \in 1..m : zeroes[i] = Silence
  BY <1>2, <1>5, SeqDef
<1> HIDE DEF zeroes
<1>7. /\ out' \in Seq(S) /\ Len(out') = Len(out) + m
      /\ \A i \in 1..Len(out) + m :
           out'[i] = IF i <= Len(out) THEN out[i] ELSE zeroes[i - Len(out)]
  BY <1>1, <1>3, <1>6, ConcatProperties
<1>8. Len(out) + m = size
  BY <1>1 DEF m
<1>9. ASSUME NEW i \in 1..Len(out) PROVE out'[i] = out[i]
  <2>1. i \in 1..Len(out) + m /\ i <= Len(out)
    BY <1>1, <1>2
  <2> QED
    BY <1>7, <2>1
<1>10. ASSUME NEW i \in (Len(out) + 1)..size PROVE out'[i] = Silence
  <2>1. i \in 1..Len(out) + m /\ ~(i <= Len(out)) /\ i - Len(out) \in 1..m
    BY <1>1, <1>2, <1>8
  <2> QED
    BY <1>6, <1>7, <2>1
<1> QED
  BY <1>1, <1>7, <1>8, <1>9, <1>10 DEF S

\* What is copied from the buffer of the resampler fits and goes behind what has
\* been written; the sample at a place is that of the buffer for the place.
LEMMA Copies ==
  ASSUME TypeOK, Sounding, CopyBuffered
  PROVE  /\ out' \in Seq(Samples)
         /\ Len(out') <= size
         /\ Len(out) \in Nat /\ Len(out') \in Nat
         /\ \A i \in 1..Len(out) : out'[i] = out[i]
         /\ \A i \in (Len(out) + 1)..Len(out') :
              LET j == offset + i - swr[who].pos
              IN  j \in 1..Len(swr[who].buf) /\ out'[i] = swr[who].buf[j]
<1> DEFINE s == swr[who]
           from == From(s)
           n == Count(s, from)
           piece == SubSeq(s.buf, from + 1, from + n)
<1>1. /\ out \in Seq(Samples) /\ Len(out) \in Nat /\ size \in Nat /\ Len(out) < size
      /\ offset \in Nat
  BY AudioAssumption, LenProperties DEF TypeOK, Sounding, CopyBuffered, Turn
<1>2. s \in Resamplers
  BY DEF TypeOK, Resamplers
<1>3. /\ s.buf \in Seq(Samples) /\ Len(s.buf) \in Nat
      /\ \A i \in 1..Len(s.buf) : s.buf[i] \in Samples
  BY <1>2, LenProperties, ElementOfSeq DEF Resamplers
<1>4. s.pos \in Nat /\ ReadPos \in s.pos..s.pos + Len(s.buf) - 1
  BY <1>2, <1>3 DEF CopyBuffered, Buffered, IsPts, Resamplers
<1>5. out' = out \o piece
  BY DEF CopyBuffered
<1>6. from = offset + Len(out) - s.pos /\ from \in Int /\ 0 <= from /\ from < Len(s.buf)
  BY <1>1, <1>3, <1>4 DEF From, ReadPos
<1>7. n \in Int /\ 1 <= n /\ n <= size - Len(out) /\ n <= Len(s.buf) - from
  <2> DEFINE x == size - Len(out)
             y == Len(s.buf) - from
  <2>1. x \in Int /\ y \in Int /\ 1 <= x /\ 1 <= y
    BY <1>1, <1>3, <1>6
  <2>2. n = Min({x, y})
    BY DEF Count
  <2> HIDE DEF x, y, n
  <2>3. {x, y} \subseteq Int /\ {x, y} # {}
    BY <2>1
  <2>4. PICK b \in Int : \A z \in {x, y} : b <= z
    BY <2>1
  <2>5. n \in {x, y} /\ \A z \in {x, y} : n <= z
    BY <2>2, <2>3, <2>4, Least
  <2>6. n \in Int /\ 1 <= n /\ n <= x /\ n <= y
    BY <2>1, <2>5
  <2> QED
    BY <2>6 DEF x, y
<1> HIDE DEF n, from
<1>8. \A i \in (from + 1)..(from + n) : s.buf[i] \in Samples
  BY <1>3, <1>6, <1>7
<1> HIDE DEF s
<1>9. /\ piece \in Seq(Samples) /\ Len(piece) = n
      /\ \A i \in 1..n : piece[i] = s.buf[from + i]
  <2>1. from + 1 \in Int /\ from + n \in Int
    BY <1>6, <1>7
  <2>2. /\ piece \in Seq(Samples)
        /\ Len(piece) = IF from + 1 <= from + n THEN (from + n) - (from + 1) + 1 ELSE 0
        /\ \A i \in 1..(from + n) - (from + 1) + 1 : piece[i] = s.buf[(from + 1) + i - 1]
    BY <1>8, <2>1, SubSeqProperties
  <2> HIDE DEF piece
  <2>3. Len(piece) = n /\ (from + n) - (from + 1) + 1 = n
    BY <1>6, <1>7, <2>2
  <2>4. ASSUME NEW i \in 1..n PROVE piece[i] = s.buf[from + i]
    <3>1. (from + 1) + i - 1 = from + i
      BY <1>6, <1>7
    <3> QED
      BY <2>2, <2>3, <3>1
  <2> QED
    BY <2>2, <2>3, <2>4
<1> HIDE DEF piece
<1>10. /\ out' \in Seq(Samples) /\ Len(out') = Len(out) + n
       /\ \A i \in 1..Len(out) + n :
            out'[i] = IF i <= Len(out) THEN out[i] ELSE piece[i - Len(out)]
  BY <1>1, <1>5, <1>9, ConcatProperties
<1>11. Len(out') <= size /\ Len(out') \in Nat
  BY <1>1, <1>7, <1>10
<1>12. ASSUME NEW i \in 1..Len(out) PROVE out'[i] = out[i]
  <2>1. i \in 1..Len(out) + n /\ i <= Len(out)
    BY <1>1, <1>7
  <2> QED
    BY <1>10, <2>1
<1>13. ASSUME NEW i \in (Len(out) + 1)..Len(out')
       PROVE  LET j == offset + i - s.pos
              IN  j \in 1..Len(s.buf) /\ out'[i] = s.buf[j]
  <2>1. i \in 1..Len(out) + n /\ ~(i <= Len(out)) /\ i - Len(out) \in 1..n
    BY <1>1, <1>7, <1>10
  <2>2. out'[i] = s.buf[from + (i - Len(out))]
    BY <1>9, <1>10, <2>1
  <2>3. i \in Int /\ s.pos \in Int /\ Len(out) \in Int
    BY <1>1, <1>4
  <2>4. from + (i - Len(out)) = offset + i - s.pos
    <3>1. offset \in Int /\ from \in Int /\ from = offset + Len(out) - s.pos
      BY <1>1, <1>6
    <3>2. \A l, p, o \in Int : (o + l - p) + (i - l) = o + i - p
      BY <2>3
    <3> QED
      BY <2>3, <3>1, <3>2
  <2>5. from + (i - Len(out)) \in 1..Len(s.buf)
    BY <1>3, <1>6, <1>7, <2>1, <2>3
  <2> QED
    BY <2>2, <2>4, <2>5
<1> QED
  BY <1>1, <1>10, <1>11, <1>12, <1>13 DEF s

-----------------------------------------------------------------------------
(***************************************************************************)
(* Type correctness.                                                       *)
(***************************************************************************)

\* What the type invariant says of the decoder and the resampler at work.
LEMMA AtWork ==
  ASSUME TypeOK
  PROVE  /\ file \in Files /\ cur \in Decoders /\ who \in Handles
         /\ dec \in [Decoders -> Holds]
         /\ swr \in [Handles -> Resamplers]
         /\ \A i \in Decoders : IsPts(dec[i].pos) => dec[i].pos \in Frames
         /\ size \in Nat /\ offset \in Nat
<1>1. cur \in Decoders
  BY AudioAssumption DEF TypeOK, Decoders
<1>2. dec \in [Decoders -> Holds] /\ swr \in [Handles -> Resamplers]
  BY DEF TypeOK, Holds, Resamplers
<1>3. \A i \in Decoders : IsPts(dec[i].pos) => dec[i].pos \in Frames
  BY <1>2 DEF Holds, IsPts
<1>4. size \in Nat /\ offset \in Nat
  BY AudioAssumption DEF TypeOK
<1> QED
  BY <1>1, <1>2, <1>3, <1>4 DEF TypeOK

\* Moving the decoder at work to a frame or to none keeps it well-typed.
LEMMA Moves ==
  ASSUME TypeOK, NEW f \in Frames \cup {NoPts}, MoveTo(f)
  PROVE  dec' \in [Decoders -> Holds] /\ dec'[cur].pos = f
BY AtWork DEF MoveTo, Holds

\* So does feeding the resampler of the handle that reads.
LEMMA Feeds ==
  ASSUME TypeOK, NEW f \in Frames, NEW q \in Nat \cup {NoPts}, NEW s,
         s.held \in Seq(Samples), swr' = [swr EXCEPT ![who] = Convert(s, f, q)]
  PROVE  /\ swr' \in [Handles -> Resamplers]
         /\ \A w \in Handles : Len(swr'[w].held) <= Delay
         /\ swr'[who] = Convert(s, f, q)
         /\ \A w \in Handles : w # who => swr'[w] = swr[w]
<1>1. Convert(s, f, q) \in Resamplers /\ Len(Convert(s, f, q).held) <= Delay
  BY AtWork, Converts
<1>2. \A w \in Handles : Len(swr[w].held) <= Delay
  BY DEF TypeOK
<1>3. who \in Handles /\ swr \in [Handles -> Resamplers]
  BY AtWork
<1> HIDE DEF Resamplers
<1>4. /\ swr'[who] = Convert(s, f, q)
      /\ \A w \in Handles : w # who => swr'[w] = swr[w]
  BY <1>3
<1> QED
  BY <1>1, <1>2, <1>3, <1>4

\* A stream that has just been opened is well-typed.
LEMMA TypesInit == Init => TypeOK
<1> SUFFICES ASSUME Init PROVE TypeOK
  OBVIOUS
<1>1. file \in Files /\ Cap \in Nat \ {0} /\ Delay \in Nat
  BY AudioAssumption, FileFacts DEF Init
<1>2. len \in Decoders /\ cur \in 1..len
  BY <1>1 DEF Init, Decoders
<1>3. dec \in [Decoders -> [pos : Frames \cup {NoPts}, ts : 0..Cap]]
  BY <1>1 DEF Init
<1>4. <<>> \in Seq(Samples) /\ <<>> \in Seq(Samples \cup {Silence}) /\ Len(<<>>) = 0
  BY EmptySeq
<1>5. /\ swr \in [Handles -> [pos : Nat \cup {NoPts}, buf : Seq(Samples),
                              held : Seq(Samples)]]
      /\ \A w \in Handles : Len(swr[w].held) <= Delay
  BY <1>1, <1>4 DEF Init
<1>6. /\ valid_first \in Frames \cup {NoPts} /\ pc = "idle" /\ who \in Handles
      /\ offset \in Nat /\ size \in Sizes \cup {0}
      /\ out \in Seq(Samples \cup {Silence}) /\ Len(out) <= size
  BY <1>4 DEF Init
<1> QED
  BY <1>1, <1>2, <1>3, <1>5, <1>6 DEF TypeOK

\* The file stays the same.
LEMMA FileStays == [Next]_vars => file' = file
BY DEF Next, Works, Breaks, vars, Ask, FillHead, CopyBuffered, ConvertCurrent,
       GrabNext, GrabNextEnd, BeginSeek, Return, SeekBack, SeekLands, SeekHitsEnd,
       Skip, SkipHitsEnd, SeekEnds, SeekRefused, GrabFails, Opened, GiveUp

\* The type invariant says the same of the next state, in terms of the file as
\* it is now.
LEMMA TypesAgain ==
  ASSUME file \in Files, file' = file, len' \in Decoders,
         dec' \in [Decoders -> Holds],
         swr' \in [Handles -> Resamplers],
         \A w \in Handles : Len(swr'[w].held) <= Delay,
         valid_first' \in Frames \cup {NoPts},
         pc' \in {"idle", "read", "seek", "skip"},
         who' \in Handles, offset' \in Nat, size' \in Sizes \cup {0}, cur' \in 1..len',
         out' \in Seq(Samples \cup {Silence}), Len(out') <= size',
         pc' = "skip" => IsPts(dec'[cur'].pos)
  PROVE  TypeOK'
BY Zenon DEF TypeOK, Holds, Resamplers, Samples, Frames, Length, Delay, IsPts

\* A read that is given up leaves everything well-typed.
LEMMA GivesUpTyped ==
  ASSUME TypeOK, GiveUp, dec' \in [Decoders -> Holds]
  PROVE  TypeOK'
<1>1. /\ out' \in Seq(Samples \cup {Silence}) /\ Len(out') = size
      /\ size \in Nat /\ pc' = "idle"
      /\ UNCHANGED <<file, len, swr, valid_first, who, offset, size, cur>>
  BY Zeroes DEF GiveUp, request
<1>2. Len(out') <= size'
  BY <1>1
<1>3. swr \in [Handles -> Resamplers]
  BY AtWork
<1>4. /\ file \in Files /\ len \in Decoders /\ valid_first \in Frames \cup {NoPts}
      /\ \A w \in Handles : Len(swr[w].held) <= Delay
      /\ who \in Handles /\ offset \in Nat /\ size \in Sizes \cup {0} /\ cur \in 1..len
  BY DEF TypeOK
<1> QED
  BY <1>1, <1>2, <1>3, <1>4, TypesAgain

\* The samples written by a read that goes on are those written so far.
LEMMA GoesOnTyped ==
  ASSUME TypeOK, UNCHANGED <<file, len, offset, size, who, cur, out>>,
         dec' \in [Decoders -> Holds],
         swr' \in [Handles -> Resamplers],
         \A w \in Handles : Len(swr'[w].held) <= Delay,
         valid_first' \in Frames \cup {NoPts},
         pc' \in {"idle", "read", "seek", "skip"},
         pc' = "skip" => IsPts(dec'[cur].pos)
  PROVE  TypeOK'
<1>1. /\ file \in Files /\ len \in Decoders
      /\ who \in Handles /\ offset \in Nat /\ size \in Sizes \cup {0} /\ cur \in 1..len
      /\ out \in Seq(Samples \cup {Silence}) /\ Len(out) <= size
  BY DEF TypeOK
<1> QED
  BY <1>1, TypesAgain

\* The frame after the decoder's own.
LEMMA NextFrame ==
  ASSUME TypeOK, IsPts(dec[cur].pos), dec[cur].pos < LastFrame
  PROVE  FrameEnd(dec[cur].pos) \in Frames
<1>1. dec[cur].pos \in Frames /\ file \in Files /\ cur \in Decoders
  BY AtWork
<1>2. dec[cur].pos \in Int /\ LastFrame \in Int
  BY <1>1, FileFacts
<1>3. dec[cur].pos # LastFrame
  BY <1>2
<1> QED
  BY <1>1, <1>3, Follows

\* Each action keeps the state well-typed.
LEMMA TypesStep == TypeOK /\ Sounding /\ [Next]_vars => TypeOK'
<1> SUFFICES ASSUME TypeOK, Sounding, [Next]_vars PROVE TypeOK'
  OBVIOUS
<1>1. /\ file \in Files /\ cur \in Decoders /\ who \in Handles
      /\ dec \in [Decoders -> Holds] /\ swr \in [Handles -> Resamplers]
  BY AtWork
<1>2. /\ len \in Decoders /\ 1..len \subseteq Decoders
      /\ \A w \in Handles : Len(swr[w].held) <= Delay
      /\ valid_first \in Frames \cup {NoPts}
      /\ pc \in {"idle", "read", "seek", "skip"}
      /\ who \in Handles /\ offset \in Nat /\ size \in Sizes \cup {0} /\ cur \in 1..len
      /\ out \in Seq(Samples \cup {Silence}) /\ Len(out) <= size
      /\ pc = "skip" => IsPts(dec[cur].pos)
  BY AudioAssumption DEF TypeOK, Decoders
<1>3. swr[who].held \in Seq(Samples) /\ swr[who].buf \in Seq(Samples)
      /\ swr[who].pos \in Nat \cup {NoPts}
  BY <1>1 DEF Resamplers
<1>4. ASSUME NEW w \in Handles, NEW t \in Reach[w], NEW n \in Sizes, Ask(w, t, n)
      PROVE  TypeOK'
  <2>1. Chosen(t) \in 1..len /\ Chosen(t) \in Decoders
    BY <1>2, Choice
  <2>2. dec' \in [Decoders -> Holds]
    BY <1>4, <2>1, Touched DEF Ask
  <2>3. t \in Nat /\ n \in Nat
    BY AudioAssumption
  <2>4. out' \in Seq(Samples \cup {Silence}) /\ Len(out') <= size'
    BY <1>4, <2>3, EmptySeq DEF Ask
  <2>5. /\ pc' = "read" /\ who' = w /\ offset' = t /\ size' = n /\ cur' = Chosen(t)
        /\ UNCHANGED <<file, len, swr, valid_first>>
    BY <1>4 DEF Ask
  <2> QED
    BY <1>1, <1>2, <2>1, <2>2, <2>3, <2>4, <2>5, TypesAgain
<1>5. CASE FillHead \/ SeekRefused
  BY <1>1, <1>5, GivesUpTyped DEF FillHead, SeekRefused
<1>6. CASE CopyBuffered
  <2>1. out' \in Seq(Samples) /\ Len(out') <= size
    BY <1>6, Copies
  <2>2. out' \in Seq(Samples \cup {Silence})
    BY <2>1, SeqMonotonic
  <2>3. UNCHANGED <<file, len, dec, swr, valid_first, pc, who, offset, size, cur>>
    BY <1>6 DEF CopyBuffered, request
  <2> QED
    BY <1>1, <1>2, <2>1, <2>2, <2>3, TypesAgain
<1>7. CASE ConvertCurrent
  <2>1. IsPts(dec[cur].pos) /\ pc = "read"
    BY <1>7 DEF ConvertCurrent, At, Turn
  <2>2. dec[cur].pos \in Frames /\ dec[cur].pos \in Nat
    BY <1>1, <2>1, AtWork, FileFacts
  <2>3. /\ swr' \in [Handles -> Resamplers]
        /\ \A w \in Handles : Len(swr'[w].held) <= Delay
    BY <1>1, <1>3, <1>7, <2>2, Feeds DEF ConvertCurrent
  <2>4. UNCHANGED <<file, len, dec, valid_first, pc, who, offset, size, cur, out>>
    BY <1>7 DEF ConvertCurrent, request
  <2> QED
    BY <1>1, <1>2, <2>3, <2>4, GoesOnTyped
<1>8. CASE GrabNext
  <2>1. IsPts(dec[cur].pos) /\ dec[cur].pos < LastFrame /\ pc = "read"
    BY <1>8 DEF GrabNext, JustBefore, Turn
  <2>2. FrameEnd(dec[cur].pos) \in Frames
    BY <2>1, NextFrame
  <2>3. dec' \in [Decoders -> Holds]
    BY <1>8, <2>2, Moves DEF GrabNext
  <2>4. NextPos \in Nat \cup {NoPts}
    BY <1>3, LenProperties DEF NextPos, IsPts
  <2>5. /\ swr' \in [Handles -> Resamplers]
        /\ \A w \in Handles : Len(swr'[w].held) <= Delay
    BY <1>1, <1>3, <1>8, <2>2, <2>4, Feeds DEF GrabNext
  <2>6. UNCHANGED <<file, len, valid_first, pc, who, offset, size, cur, out>>
    BY <1>8 DEF GrabNext, request
  <2> QED
    BY <1>1, <1>2, <2>1, <2>3, <2>5, <2>6, GoesOnTyped
<1>9. CASE GrabNextEnd \/ SeekHitsEnd \/ SkipHitsEnd \/ GrabFails
  <2>1. MoveTo(NoPts) /\ GiveUp
    BY <1>9 DEF GrabNextEnd, SeekHitsEnd, SkipHitsEnd, GrabFails
  <2> QED
    BY <2>1, Moves, GivesUpTyped
<1>10. CASE BeginSeek
  <2>1. pc' = "seek"
        /\ UNCHANGED <<file, len, dec, swr, valid_first, who, offset, size, cur, out>>
    BY <1>10 DEF BeginSeek, request
  <2> QED
    BY <1>1, <1>2, <2>1, GoesOnTyped
<1>11. CASE Return
  <2>1. pc' = "idle"
        /\ UNCHANGED <<file, len, dec, swr, valid_first, who, offset, size, cur, out>>
    BY <1>11 DEF Return, request
  <2> QED
    BY <1>1, <1>2, <2>1, GoesOnTyped
<1>12. CASE SeekBack
  <2>1. MoveTo(Landing(time_stamp)) /\ Landing(time_stamp) \in Frames
    BY <1>1, <1>12, Lands DEF SeekBack
  <2>2. /\ pc = "seek"
        /\ UNCHANGED <<file, len, swr, valid_first, pc, who, offset, size, cur, out>>
    BY <1>12 DEF SeekBack, request
  <2> QED
    BY <1>1, <1>2, <2>1, <2>2, Moves, GoesOnTyped
<1>13. CASE SeekLands
  <2> DEFINE p == Landing(time_stamp)
  <2>1. MoveTo(p) /\ p \in Frames /\ IsPts(p)
    BY <1>1, <1>13, Lands DEF SeekLands
  <2>2. dec' \in [Decoders -> Holds] /\ dec'[cur].pos = p
    BY <2>1, Moves
  <2>3. valid_first' \in Frames \cup {NoPts}
    BY <1>2, <1>13, <2>1 DEF SeekLands, NewFirst
  <2>4. pc' = "skip" /\ UNCHANGED <<file, len, swr, who, offset, size, cur, out>>
    BY <1>13 DEF SeekLands, request
  <2> QED
    BY <1>1, <1>2, <2>1, <2>2, <2>3, <2>4, GoesOnTyped
<1>14. CASE Skip
  <2>1. IsPts(dec[cur].pos) /\ dec[cur].pos < LastFrame /\ pc = "skip"
    BY <1>2, <1>14 DEF Skip, Skipping
  <2>2. FrameEnd(dec[cur].pos) \in Frames /\ MoveTo(FrameEnd(dec[cur].pos))
    BY <1>14, <2>1, NextFrame DEF Skip
  <2>3. dec' \in [Decoders -> Holds] /\ IsPts(dec'[cur].pos)
    <3>1. FrameEnd(dec[cur].pos) # NoPts
      BY <1>1, <2>2, FileFacts, AudioAssumption
    <3> QED
      BY <2>2, <3>1, Moves DEF IsPts
  <2>4. UNCHANGED <<file, len, swr, valid_first, pc, who, offset, size, cur, out>>
    BY <1>14 DEF Skip, request
  <2> QED
    BY <1>1, <1>2, <2>1, <2>3, <2>4, GoesOnTyped
<1>15. CASE SeekEnds
  <2>1. IsPts(dec[cur].pos)
    BY <1>2, <1>15 DEF SeekEnds
  <2>2. dec[cur].pos \in Frames /\ dec[cur].pos \in Nat
    BY <1>1, <2>1, AtWork, FileFacts
  <2>3. Flushed(swr[who]).held \in Seq(Samples)
    BY <1>1, EmptySeq DEF Flushed, Resamplers
  <2>4. /\ swr' \in [Handles -> Resamplers]
        /\ \A w \in Handles : Len(swr'[w].held) <= Delay
    <3>1. swr' = [swr EXCEPT ![who] =
                    Convert(Flushed(swr[who]), dec[cur].pos, dec[cur].pos)]
      BY <1>15 DEF SeekEnds
    <3> QED
      BY <2>2, <2>3, <3>1, Feeds
  <2>5. pc' = "read"
        /\ UNCHANGED <<file, len, dec, valid_first, who, offset, size, cur, out>>
    BY <1>15 DEF SeekEnds, request
  <2> QED
    BY <1>1, <1>2, <2>4, <2>5, GoesOnTyped
<1>16. CASE Opened
  <2>1. len' \in Decoders /\ 1..len \subseteq 1..len'
    BY <1>16, AudioAssumption DEF Opened, TypeOK, Decoders
  <2>2. UNCHANGED <<file, dec, swr, valid_first, pc, who, offset, size, cur, out>>
    BY <1>16 DEF Opened, request
  <2> QED
    BY <1>1, <1>2, <2>1, <2>2, TypesAgain
<1>17. CASE UNCHANGED vars
  <2>1. UNCHANGED <<file, len, dec, swr, valid_first, pc, who, offset, size, cur, out>>
    BY <1>17 DEF vars
  <2> QED
    BY <1>1, <1>2, <2>1, TypesAgain
<1> QED
  BY <1>4, <1>5, <1>6, <1>7, <1>8, <1>9, <1>10, <1>11, <1>12, <1>13, <1>14, <1>15,
     <1>16, <1>17
     DEF Next, Works, Breaks

-----------------------------------------------------------------------------
(***************************************************************************)
(* No silence inside a sound file.                                         *)
(***************************************************************************)

\* A read that goes on has written samples, none of them silence.
LEMMA SoundingStep == TypeOK /\ Sounding /\ [Next]_vars => Sounding'
<1> SUFFICES ASSUME TypeOK, Sounding, [Next]_vars, file' = file, pc' # "idle"
             PROVE  out' \in Seq(Samples)
  BY FileStays DEF Sounding, Samples, Length
<1>1. CASE CopyBuffered
  BY <1>1, Copies
<1>2. ASSUME NEW w \in Handles, NEW t \in Reach[w], NEW n \in Sizes, Ask(w, t, n)
      PROVE  out' \in Seq(Samples)
  BY <1>2, EmptySeq DEF Ask
<1>3. CASE pc # "idle" /\ out' = out
  BY <1>3 DEF Sounding
<1>4. CASE \/ ConvertCurrent \/ GrabNext \/ BeginSeek \/ SeekBack \/ SeekLands \/ Skip
           \/ SeekEnds \/ Opened \/ UNCHANGED vars
  <2>1. pc # "idle" /\ out' = out
    BY <1>4 DEF ConvertCurrent, GrabNext, BeginSeek, SeekBack, SeekLands, Skip, SeekEnds,
                Opened, vars, Turn, Skipping
  <2> QED
    BY <1>3, <2>1
<1>5. CASE \/ FillHead \/ GrabNextEnd \/ Return \/ SeekHitsEnd \/ SkipHitsEnd
           \/ SeekRefused \/ GrabFails
  BY <1>5 DEF FillHead, GrabNextEnd, Return, SeekHitsEnd, SkipHitsEnd, SeekRefused,
              GrabFails, GiveUp
<1> QED
  BY <1>1, <1>2, <1>4, <1>5 DEF Next, Works, Breaks

\* The next sample to be read has a place in the file or behind it.
LEMMA ReadPosType == ASSUME TypeOK PROVE ReadPos \in Nat /\ Len(out) \in Nat
BY AtWork, LenProperties DEF TypeOK, ReadPos

\* Where nothing is dropped, a seek never lands behind the sample.
LEMMA LandsInFront ==
  ASSUME TypeOK, Seeking, ~file.drops, pc = "seek"
  PROVE  IsPts(Landing(time_stamp)) /\ ~TooFar(Landing(time_stamp)) /\ ~(time_stamp < 0)
<1>1. time_stamp = ReadPos /\ ReadPos \in Nat
  BY ReadPosType DEF Seeking
<1>2. /\ Landing(time_stamp) \in Frames /\ Landing(time_stamp) <= time_stamp
      /\ Landing(time_stamp) \in Nat
  BY <1>1, AtWork, Lands, FileFacts
<1> QED
  BY <1>1, <1>2, AudioAssumption DEF TooFar, IsPts

\* A seek is for the sample that is read, and notes no first frame, where
\* nothing is dropped.
LEMMA SeekingStep == TypeOK /\ Seeking /\ [Next]_vars => Seeking'
<1> SUFFICES ASSUME TypeOK, Seeking, [Next]_vars, ~file.drops
             PROVE  (pc' = "seek" => time_stamp' = ReadPos') /\ valid_first' = NoPts
  BY FileStays DEF Seeking
<1>1. valid_first = NoPts
  BY DEF Seeking
<1>2. CASE BeginSeek
  BY <1>1, <1>2 DEF BeginSeek, ReadPos, request
<1>3. CASE SeekBack
  BY <1>3, LandsInFront DEF SeekBack
<1>4. CASE SeekLands
  <2>1. ~TooFar(Landing(time_stamp))
    BY <1>4, LandsInFront DEF SeekLands
  <2> QED
    BY <1>1, <1>4, <2>1 DEF SeekLands, NewFirst
<1>5. CASE Opened \/ UNCHANGED vars
  BY <1>1, <1>5 DEF Opened, vars, Seeking, ReadPos, request
<1>6. CASE pc' # "seek" /\ valid_first' = valid_first
  BY <1>1, <1>6
<1>7. ASSUME NEW w \in Handles, NEW t \in Reach[w], NEW n \in Sizes, Ask(w, t, n)
      PROVE  pc' # "seek" /\ valid_first' = valid_first
  BY <1>7 DEF Ask
<1>8. CASE \/ FillHead \/ CopyBuffered \/ ConvertCurrent \/ GrabNext \/ GrabNextEnd
           \/ Return \/ SeekHitsEnd \/ Skip \/ SkipHitsEnd \/ SeekEnds
           \/ SeekRefused \/ GrabFails
  <2>1. pc' # "seek" /\ valid_first' = valid_first
    BY <1>8 DEF FillHead, CopyBuffered, ConvertCurrent, GrabNext, GrabNextEnd, Return,
                SeekHitsEnd, Skip, SkipHitsEnd, SeekEnds, SeekRefused, GrabFails, GiveUp,
                Turn, Skipping
  <2> QED
    BY <1>6, <2>1
<1> QED
  BY <1>2, <1>3, <1>4, <1>5, <1>6, <1>7, <1>8 DEF Next, Works, Breaks

\* In a sound file that can be decoded from its start, a read is given up behind
\* the end only.
LEMMA GivesUpAtEnd ==
  ASSUME TypeOK, Seeking, ~file.drops, ~file.damaged,
         FillHead \/ GrabNextEnd \/ SeekHitsEnd \/ SkipHitsEnd \/ SeekRefused \/ GrabFails
  PROVE  GiveUp /\ ZeroRest /\ Length <= ReadPos
<1>1. /\ file \in Files /\ cur \in Decoders /\ ReadPos \in Nat
      /\ \A i \in Decoders : IsPts(dec[i].pos) => dec[i].pos \in Frames
  BY AtWork, ReadPosType
<1>2. ~FillHead
  BY DEF Seeking, FillHead, BeforeFirst, IsPts
<1>3. ~SeekHitsEnd /\ ~SeekRefused
  BY LandsInFront DEF SeekHitsEnd, SeekRefused
<1>4. ~GrabFails
  BY DEF GrabFails
<1>5. CASE GrabNextEnd
  <2>1. /\ IsPts(dec[cur].pos) /\ dec[cur].pos = LastFrame
        /\ ReadPos \in FrameEnd(dec[cur].pos)..2 * FrameEnd(dec[cur].pos) - dec[cur].pos - 1
    BY <1>5 DEF GrabNextEnd, JustBefore
  <2>2. FrameEnd(dec[cur].pos) = Length /\ Length \in Nat
    BY <1>1, <2>1, Ends, FileFacts
  <2>3. Length <= ReadPos
    BY <1>1, <2>1, <2>2
  <2> QED
    BY <1>5, <2>3 DEF GrabNextEnd, GiveUp
<1>6. CASE SkipHitsEnd
  <2>1. /\ dec[cur].pos = LastFrame /\ FrameEnd(dec[cur].pos) <= ReadPos
    BY <1>6 DEF SkipHitsEnd, Skipping
  <2>2. FrameEnd(dec[cur].pos) = Length
    BY <1>1, <2>1, Ends, FileFacts
  <2> QED
    BY <1>6, <2>1, <2>2 DEF SkipHitsEnd, GiveUp
<1> QED
  BY <1>2, <1>3, <1>4, <1>5, <1>6

\* No action leaves silence inside a sound file.
LEMMA SilenceStep ==
  TypeOK /\ Sounding /\ Seeking /\ NoNeedlessSilence /\ [Next]_vars
    => NoNeedlessSilence'
<1> SUFFICES ASSUME TypeOK, Sounding, Seeking, NoNeedlessSilence, [Next]_vars,
                    file' = file, pc' = "idle", ~file.drops, ~file.damaged,
                    NEW i \in 1..Len(out'), out'[i] = Silence
             PROVE  offset' + i - 1 >= Length
  BY FileStays DEF NoNeedlessSilence, Length
<1>1. \A j \in 1..Len(out) : pc # "idle" => out[j] # Silence
  <2>1. Silence \notin Samples
    BY AudioAssumption, AtWork, FileFacts DEF Samples
  <2> QED
    BY <2>1, ElementOfSeq DEF Sounding
<1>2. ReadPos \in Nat /\ Len(out) \in Nat /\ offset \in Nat /\ Length \in Nat
  BY AtWork, ReadPosType, FileFacts
<1>3. ASSUME GiveUp, ZeroRest, Length <= ReadPos, pc # "idle"
      PROVE  offset' + i - 1 >= Length
  <2>1. /\ Len(out') = size /\ size \in Nat /\ Len(out) <= size
        /\ \A j \in 1..Len(out) : out'[j] = out[j]
    BY <1>3, Zeroes
  <2>2. ~(i \in 1..Len(out))
    BY <1>1, <1>3, <2>1
  <2>3. i \in Int /\ Len(out) < i
    BY <1>2, <2>1, <2>2
  <2>4. offset' = offset /\ Length <= offset + Len(out)
    BY <1>3 DEF GiveUp, request, ReadPos
  <2> QED
    BY <1>2, <2>3, <2>4
<1>4. CASE \/ FillHead \/ GrabNextEnd \/ SeekHitsEnd \/ SkipHitsEnd \/ SeekRefused
           \/ GrabFails
  <2>1. GiveUp /\ ZeroRest /\ Length <= ReadPos
    BY <1>4, GivesUpAtEnd
  <2>2. pc # "idle"
    BY <1>4 DEF FillHead, GrabNextEnd, SeekHitsEnd, SkipHitsEnd, SeekRefused, GrabFails,
                Turn, Grabbing, Skipping
  <2> QED
    BY <1>3, <2>1, <2>2
<1>5. CASE Return
  BY <1>1, <1>5 DEF Return
<1>6. CASE Opened \/ UNCHANGED vars
  <2>1. out' = out /\ pc' = pc /\ offset' = offset
    BY <1>6 DEF Opened, vars, request
  <2> QED
    BY <2>1 DEF NoNeedlessSilence
<1>7. CASE \/ CopyBuffered \/ ConvertCurrent \/ GrabNext \/ BeginSeek \/ SeekBack
           \/ SeekLands \/ Skip \/ SeekEnds
  BY <1>7 DEF CopyBuffered, ConvertCurrent, GrabNext, BeginSeek, SeekBack, SeekLands, Skip,
              SeekEnds, Turn, Skipping
<1>8. ASSUME NEW w \in Handles, NEW t \in Reach[w], NEW n \in Sizes, Ask(w, t, n)
      PROVE  FALSE
  BY <1>8 DEF Ask
<1> QED
  BY <1>4, <1>5, <1>6, <1>7, <1>8 DEF Next, Works, Breaks

-----------------------------------------------------------------------------
(***************************************************************************)
(* Every sample at its place, where all frames have the same length.       *)
(***************************************************************************)

\* The same in numbers.
LEMMA SameLength ==
  ASSUME file \in Files, Regular
  PROVE  \E n \in Nat \ {0} : \A f \in Frames : FrameEnd(f) = f + n
<1> DEFINE n == FrameEnd(0) - 0
<1>1. 0 \in Frames /\ Frames \subseteq Nat
  BY FileFacts
<1>2. \A f \in Frames : FrameEnd(f) \in Nat /\ f < FrameEnd(f)
  BY Ends
<1>3. n \in Nat \ {0}
  BY <1>1, <1>2
<1>4. \A f \in Frames : FrameEnd(f) - f = n
  BY <1>1 DEF Regular
<1> HIDE DEF n
<1>5. ASSUME NEW f \in Frames PROVE FrameEnd(f) = f + n
  BY <1>1, <1>2, <1>3, <1>4
<1> QED
  BY <1>3, <1>5

\* A resampler that holds nothing back gives the frame it is fed.
LEMMA ConvertsAll ==
  ASSUME file \in Files, Delay = 0, NEW s, s.held = <<>>, NEW f \in Frames, NEW q
  PROVE  Convert(s, f, q) = [pos |-> q, buf |-> Frame(f), held |-> <<>>]
<1> DEFINE all == s.held \o Frame(f)
           n == IF Len(all) > Delay THEN Len(all) - Delay ELSE 0
<1>1. Frame(f) \in Seq(Samples)
  BY FrameSamples
<1>2. all = Frame(f)
  BY <1>1, ConcatEmptySeq
<1>3. Convert(s, f, q) = [pos |-> q, buf |-> SubSeq(all, 1, n),
                          held |-> SubSeq(all, n + 1, Len(all))]
  BY DEF Convert
<1>4. Len(all) \in Nat
  BY <1>1, <1>2, LenProperties
<1> HIDE DEF all
<1>5. n = Len(all)
  BY <1>4
<1> HIDE DEF n
<1>6. SubSeq(all, 1, n) = all
  BY <1>1, <1>2, <1>5, SubSeqFull
<1>7. SubSeq(all, n + 1, Len(all)) = <<>>
  BY <1>4, <1>5, SubSeqEmpty
<1> QED
  BY <1>2, <1>3, <1>6, <1>7

\* A frame of the decoder at work, when the resampler has nothing of the sample
\* that follows it.  The buffer ends where a frame ends; if it is not the
\* decoder's, the two are a frame apart.
LEMMA Apart ==
  ASSUME file \in Files, NEW n \in Nat \ {0}, \A f \in Frames : FrameEnd(f) = f + n,
         NEW g \in Frames, NEW h \in Frames \cup {Length}, g # h,
         NEW t \in g..g + n - 1
  PROVE  ~(t \in h..h + n - 1)
<1>1. /\ Length \in Nat /\ Frames \subseteq Nat
      /\ \A f \in Frames : f < Length
  BY FileFacts
<1>2. g \in Nat /\ h \in Nat /\ g < Length
  BY <1>1
<1>3. CASE h < g
  <2>1. h \in Frames
    BY <1>2, <1>3
  <2>2. FrameEnd(h) <= g /\ FrameEnd(h) = h + n
    BY <1>3, <2>1, Ends
  <2> QED
    BY <1>2, <2>2
<1>4. CASE g < h
  <2>1. FrameEnd(g) <= h /\ FrameEnd(g) = g + n
    BY <1>4, Ends
  <2> QED
    BY <1>2, <2>1
<1> QED
  BY <1>2, <1>3, <1>4

\* Labelled and what it says of the next state, in terms of the file as it is now.
LEMMA LabelledAgain ==
  ASSUME file' = file,
         \A w \in Handles :
           /\ swr'[w].held = <<>>
           /\ \/ swr'[w].pos = NoPts /\ swr'[w].buf = <<>>
              \/ swr'[w].pos \in Frames /\ swr'[w].buf = Frame(swr'[w].pos)
              \/ w = who' /\ MustConvert'
  PROVE  Labelled'
BY Zenon DEF Labelled, Frames, Frame, FrameEnd, Length

\* After the decoder has gone on to its next frame, the resampler holds that
\* frame, under its position or else where the sample is not looked for.
LEMMA GrabbedIsLabelled ==
  ASSUME TypeOK, Labelled, Regular, Delay = 0, GrabNext
  PROVE  /\ swr'[who].held = <<>>
         /\ \/ swr'[who].pos \in Frames /\ swr'[who].buf = Frame(swr'[who].pos)
            \/ MustConvert'
<1> DEFINE c == dec[cur].pos
           g == FrameEnd(c)
           s == swr[who]
<1>1. /\ file \in Files /\ cur \in Decoders /\ who \in Handles
      /\ dec \in [Decoders -> Holds] /\ swr \in [Handles -> Resamplers]
      /\ ReadPos \in Nat
  BY AtWork, ReadPosType
<1>2. PICK n \in Nat \ {0} : \A f \in Frames : FrameEnd(f) = f + n
  BY <1>1, SameLength
<1>3. IsPts(c) /\ c < LastFrame /\ JustBefore(cur, ReadPos) /\ ~BeforeFirst /\ Turn
  BY DEF GrabNext, JustBefore
<1>4. c \in Frames /\ g \in Frames /\ g \in Nat /\ c \in Nat /\ g = c + n
  BY <1>1, <1>2, <1>3, NextFrame, AtWork, FileFacts
<1>5. ReadPos \in g..g + n - 1
  <2>1. ReadPos \in g..2 * g - c - 1
    BY <1>3 DEF JustBefore
  <2> HIDE DEF g, c
  <2>2. 2 * g - c - 1 = g + n - 1
    BY <1>2, <1>4
  <2> QED
    BY <2>1, <2>2
<1>6. ~MustConvert
  BY <1>1, <1>4, <1>5 DEF MustConvert, At
<1>7. /\ s.held = <<>>
      /\ \/ s.pos = NoPts /\ s.buf = <<>>
         \/ s.pos \in Frames /\ s.buf = Frame(s.pos)
  BY <1>1, <1>6 DEF Labelled
<1>8. /\ swr'[who] = [pos |-> NextPos, buf |-> Frame(g), held |-> <<>>]
      /\ dec'[cur].pos = g
      /\ UNCHANGED <<file, valid_first, pc, who, offset, size, cur, out>>
  <2>1. swr' = [swr EXCEPT ![who] = Convert(s, g, NextPos)] /\ MoveTo(g)
    BY DEF GrabNext
  <2>2. Convert(s, g, NextPos) = [pos |-> NextPos, buf |-> Frame(g), held |-> <<>>]
    BY <1>1, <1>4, <1>7, ConvertsAll
  <2>3. swr'[who] = Convert(s, g, NextPos)
    BY <1>1, <2>1
  <2>4. dec'[cur].pos = g
    BY <1>4, <2>1, Moves
  <2> QED
    BY <2>2, <2>3, <2>4 DEF GrabNext, request
<1> HIDE DEF c, g
<1>9. ASSUME ~(IsPts(NextPos) /\ ReadPos \in NextPos..NextPos + Len(Frame(g)) - 1)
      PROVE  MustConvert'
  <2>1. ReadPos' = ReadPos
    BY <1>8 DEF ReadPos
  <2>2. ~Buffered'
    BY <1>8, <1>9, <2>1 DEF Buffered, IsPts
  <2>3. Turn' /\ ~BeforeFirst'
    BY <1>3, <1>8, <2>1 DEF Turn, BeforeFirst, IsPts
  <2>4. At(cur, ReadPos)'
    <3>1. g # NoPts
      BY <1>4, AudioAssumption
    <3>2. FrameEnd(g) = g + n
      BY <1>2, <1>4
    <3>3. At(cur, ReadPos)' <=> /\ dec'[cur].pos # NoPts
                                /\ ReadPos' \in dec'[cur].pos..FrameEnd(dec'[cur].pos) - 1
      BY <1>8 DEF At, IsPts, FrameEnd, Frames, Length
    <3>4. ReadPos \in g..FrameEnd(g) - 1
      BY <1>4, <1>5, <3>2
    <3> QED
      BY <1>8, <2>1, <3>1, <3>3, <3>4
  <2> QED
    BY <2>2, <2>3, <2>4 DEF MustConvert
<1>10. CASE s.pos = NoPts
  BY <1>8, <1>9, <1>10 DEF NextPos, IsPts
<1>11. CASE s.pos \in Frames /\ s.buf = Frame(s.pos)
  <2> DEFINE h == FrameEnd(s.pos)
  <2>1. h \in Frames \cup {Length}
    BY <1>1, <1>11, Ends
  <2>2. NextPos = h
    <3>1. Len(s.buf) = h - s.pos /\ s.pos \in Nat /\ h \in Nat
      BY <1>1, <1>11, FrameSamples, Ends, FileFacts
    <3>2. s.pos # NoPts
      BY <3>1, AudioAssumption
    <3> HIDE DEF h
    <3>3. s.pos + Len(s.buf) = h
      BY <3>1
    <3> QED
      BY <3>2, <3>3 DEF NextPos, IsPts
  <2>3. CASE h = g
    BY <1>4, <1>8, <2>2, <2>3
  <2>4. CASE h # g
    <3>1. ~(ReadPos \in h..h + n - 1)
      BY <1>1, <1>2, <1>4, <1>5, <2>1, <2>4, Apart
    <3>2. Len(Frame(g)) = n
      BY <1>1, <1>2, <1>4, FrameSamples
    <3> QED
      BY <1>8, <1>9, <2>2, <3>1, <3>2
  <2> QED
    BY <2>3, <2>4
<1> QED
  BY <1>7, <1>8, <1>10, <1>11

\* The sample that must be converted next is the only thing a read can go on
\* with.
LEMMA OnlyConvert ==
  ASSUME TypeOK, MustConvert,
         \/ \E w \in Handles : \E t \in Reach[w], n \in Sizes : Ask(w, t, n)
         \/ FillHead \/ CopyBuffered \/ GrabNext \/ GrabNextEnd \/ BeginSeek \/ Return
         \/ SeekBack \/ SeekLands \/ SeekHitsEnd \/ Skip \/ SkipHitsEnd \/ SeekEnds
         \/ Breaks
  PROVE  FALSE
<1>1. /\ pc = "read" /\ Len(out) < size /\ ~BeforeFirst /\ ~Buffered
      /\ At(cur, ReadPos) /\ Len(out) \in Nat /\ size \in Nat
  BY AtWork, ReadPosType DEF MustConvert, Turn
<1>2. ~JustBefore(cur, ReadPos)
  <2>1. /\ dec[cur].pos \in Frames /\ FrameEnd(dec[cur].pos) \in Nat
        /\ ReadPos \in dec[cur].pos..FrameEnd(dec[cur].pos) - 1
    BY <1>1, AtWork, Ends DEF At
  <2>2. ReadPos < FrameEnd(dec[cur].pos) /\ ReadPos \in Nat
    BY <2>1, ReadPosType, AtWork, FileFacts
  <2> QED
    BY <2>1, <2>2, ReadPosType DEF JustBefore
<1>3. ~\E w \in Handles : \E t \in Reach[w], n \in Sizes : Ask(w, t, n)
  BY <1>1 DEF Ask
<1>4. ~FillHead /\ ~CopyBuffered
  BY <1>1 DEF FillHead, CopyBuffered
<1>5. ~GrabNext /\ ~GrabNextEnd /\ ~BeginSeek
  BY <1>1, <1>2 DEF GrabNext, GrabNextEnd, BeginSeek, MustSeek
<1>6. ~Return
  BY <1>1 DEF Return
<1>7. ~SeekBack /\ ~SeekLands /\ ~SeekHitsEnd /\ ~Skip /\ ~SkipHitsEnd /\ ~SeekEnds
  BY <1>1 DEF SeekBack, SeekLands, SeekHitsEnd, Skip, Skipping, SkipHitsEnd, SeekEnds
<1>8. ~SeekRefused /\ ~GrabFails
  BY <1>1, <1>2 DEF SeekRefused, GrabFails, Grabbing, Skipping
<1> QED
  BY <1>3, <1>4, <1>5, <1>6, <1>7, <1>8 DEF Breaks

\* The file stays as regular as it is.
LEMMA StaysRegular ==
  ASSUME file' = file
  PROVE  (Regular' <=> Regular) /\ Delay' = Delay
<1>1. Delay' = Delay
  BY DEF Delay
<1>2. Regular' <=> Regular
  BY Zenon DEF Regular, FrameEnd, Frames, Length
<1> QED
  BY <1>1, <1>2

\* Each action keeps the resamplers' frames under their positions.
LEMMA LabelledStep == TypeOK /\ Labelled /\ [Next]_vars => Labelled'
<1> DEFINE Right(s) == \/ s.pos = NoPts /\ s.buf = <<>>
                       \/ s.pos \in Frames /\ s.buf = Frame(s.pos)
<1> SUFFICES ASSUME TypeOK, Labelled, [Next]_vars PROVE Labelled'
  OBVIOUS
<1> SUFFICES ASSUME file' = file, Regular, Delay = 0, NEW w \in Handles
             PROVE  swr'[w].held = <<>> /\ (Right(swr'[w]) \/ (w = who' /\ MustConvert'))
  <2>1. file' = file /\ (Regular' <=> Regular) /\ Delay' = Delay
    BY FileStays, StaysRegular
  <2>2. CASE Regular /\ Delay = 0
    BY <2>1, <2>2, LabelledAgain
  <2>3. CASE ~(Regular /\ Delay = 0)
    BY <2>1, <2>3 DEF Labelled
  <2> QED
    BY <2>2, <2>3
<1>1. swr[w].held = <<>> /\ (Right(swr[w]) \/ (w = who /\ MustConvert))
  BY DEF Labelled
<1>2. /\ file \in Files /\ who \in Handles /\ swr \in [Handles -> Resamplers]
      /\ \A i \in Decoders : IsPts(dec[i].pos) => dec[i].pos \in Frames
      /\ cur \in Decoders /\ Frames \subseteq Nat
  BY AtWork, FileFacts
<1> HIDE DEF Right
<1>3. CASE w # who
  <2>1. swr'[w] = swr[w]
    BY <1>2, <1>3 DEF Next, Works, Breaks, vars, Ask, FillHead, CopyBuffered,
       ConvertCurrent, GrabNext, GrabNextEnd, BeginSeek, Return, SeekBack, SeekLands,
       SeekHitsEnd, Skip, SkipHitsEnd, SeekEnds, SeekRefused, GrabFails, Opened, GiveUp
  <2> QED
    BY <1>1, <1>3, <2>1
<1>4. CASE w = who /\ ConvertCurrent
  <2> DEFINE f == dec[cur].pos
  <2>1. f \in Frames /\ f \in Nat
    BY <1>2, <1>4 DEF ConvertCurrent, At
  <2>2. swr' = [swr EXCEPT ![who] = Convert(swr[who], f, f)]
    BY <1>4 DEF ConvertCurrent
  <2>3. Convert(swr[who], f, f) = [pos |-> f, buf |-> Frame(f), held |-> <<>>]
    BY <1>1, <1>2, <1>4, <2>1, ConvertsAll
  <2>4. swr'[w] = [pos |-> f, buf |-> Frame(f), held |-> <<>>]
    BY <1>2, <1>4, <2>2, <2>3
  <2> QED
    BY <2>1, <2>4 DEF Right
<1>5. CASE w = who /\ SeekEnds
  <2> DEFINE f == dec[cur].pos
             s == Flushed(swr[who])
  <2>1. f \in Frames /\ f \in Nat
    BY <1>2, <1>5 DEF SeekEnds, TypeOK
  <2>2. s.held = <<>>
    BY <1>2 DEF Flushed, Resamplers
  <2>3. swr' = [swr EXCEPT ![who] = Convert(s, f, f)]
    BY <1>5 DEF SeekEnds
  <2> HIDE DEF s
  <2>4. Convert(s, f, f) = [pos |-> f, buf |-> Frame(f), held |-> <<>>]
    BY <1>2, <2>1, <2>2, ConvertsAll
  <2>5. swr'[w] = [pos |-> f, buf |-> Frame(f), held |-> <<>>]
    BY <1>2, <1>5, <2>3, <2>4
  <2> QED
    BY <2>1, <2>5 DEF Right
<1>6. CASE w = who /\ GrabNext
  <2>1. who' = who
    BY <1>6 DEF GrabNext, request
  <2> QED
    BY <1>6, <2>1, GrabbedIsLabelled DEF Right
<1>7. CASE Opened \/ UNCHANGED vars
  <2>1. UNCHANGED <<file, dec, swr, valid_first, pc, who, offset, size, cur, out>>
    BY <1>7 DEF Opened, vars, request
  <2>2. MustConvert' <=> MustConvert
    BY <2>1 DEF MustConvert, Turn, BeforeFirst, Buffered, At, ReadPos, IsPts, FrameEnd,
                Frames, Length
  <2> QED
    BY <1>1, <2>1, <2>2
<1>8. CASE /\ w = who
           /\ \/ \E v \in Handles : \E t \in Reach[v], n \in Sizes : Ask(v, t, n)
              \/ FillHead \/ CopyBuffered \/ GrabNextEnd \/ BeginSeek \/ Return
              \/ SeekBack \/ SeekLands \/ SeekHitsEnd \/ Skip \/ SkipHitsEnd \/ Breaks
  <2>1. ~MustConvert
    BY <1>8, OnlyConvert
  <2>2. swr' = swr
    BY <1>8 DEF Breaks, Ask, FillHead, CopyBuffered, GrabNextEnd, BeginSeek, Return,
       SeekBack, SeekLands, SeekHitsEnd, Skip, SkipHitsEnd, SeekRefused, GrabFails, GiveUp
  <2> QED
    BY <1>1, <2>1, <2>2
<1> QED
  BY <1>3, <1>4, <1>5, <1>6, <1>7, <1>8 DEF Next, Works, Breaks

\* Each action leaves the samples written in place.
LEMMA PlaceStep ==
  TypeOK /\ Sounding /\ Labelled /\ RegularInPlace /\ [Next]_vars => RegularInPlace'
<1> SUFFICES ASSUME TypeOK, Sounding, Labelled, RegularInPlace, [Next]_vars
             PROVE  RegularInPlace'
  OBVIOUS
<1> SUFFICES ASSUME Regular, Delay = 0, NEW i \in 1..Len(out')
             PROVE  out'[i] \in {offset' + i - 1, Silence}
  <2>1. (Regular' <=> Regular) /\ Delay' = Delay
    BY FileStays, StaysRegular
  <2> QED
    BY <2>1 DEF RegularInPlace, SamplesInPlace
<1>1. \A j \in 1..Len(out) : out[j] \in {offset + j - 1, Silence}
  BY DEF RegularInPlace, SamplesInPlace
<1>2. /\ file \in Files /\ who \in Handles /\ Frames \subseteq Nat /\ offset \in Nat
      /\ Len(out) \in Nat
  BY AtWork, FileFacts, ReadPosType
<1>3. CASE CopyBuffered
  <2>1. /\ Len(out') \in Nat
        /\ \A j \in 1..Len(out) : out'[j] = out[j]
        /\ \A j \in (Len(out) + 1)..Len(out') :
             LET k == offset + j - swr[who].pos
             IN  k \in 1..Len(swr[who].buf) /\ out'[j] = swr[who].buf[k]
    BY <1>3, Copies
  <2>2. offset' = offset
    BY <1>3 DEF CopyBuffered, request
  <2>3. CASE i \in 1..Len(out)
    BY <1>1, <2>1, <2>2, <2>3
  <2>4. CASE i \in (Len(out) + 1)..Len(out')
    <3> DEFINE p == swr[who].pos
               k == offset + i - p
    <3>1. k \in 1..Len(swr[who].buf) /\ out'[i] = swr[who].buf[k]
      BY <2>1, <2>4
    <3>2. ~MustConvert /\ p # NoPts
      BY <1>3, OnlyConvert DEF CopyBuffered, Buffered, IsPts
    <3>3. p \in Frames /\ swr[who].buf = Frame(p)
      BY <1>2, <3>2 DEF Labelled
    <3> HIDE DEF p
    <3>4. out'[i] = p + k - 1
      BY <1>2, <3>1, <3>3, FrameSamples
    <3>5. p + k - 1 = offset + i - 1
      <4>1. p \in Int /\ offset \in Int
        BY <1>2, <3>3
      <4>2. i \in Int
        BY <2>1, <2>4
      <4>3. \A o, j, q \in Int : q + (o + j - q) - 1 = o + j - 1
        OBVIOUS
      <4> QED
        BY <4>1, <4>2, <4>3
    <3> QED
      BY <2>2, <3>4, <3>5
  <2>5. i \in 1..Len(out) \/ i \in (Len(out) + 1)..Len(out')
    BY <1>2, <2>1
  <2> QED
    BY <2>3, <2>4, <2>5
<1>4. CASE \/ FillHead \/ GrabNextEnd \/ SeekHitsEnd \/ SkipHitsEnd \/ SeekRefused
           \/ GrabFails
  <2>1. GiveUp /\ ZeroRest
    BY <1>4 DEF FillHead, GrabNextEnd, SeekHitsEnd, SkipHitsEnd, SeekRefused, GrabFails,
                GiveUp
  <2>2. /\ Len(out') = size /\ size \in Nat /\ Len(out) <= size
        /\ \A j \in 1..Len(out) : out'[j] = out[j]
        /\ \A j \in (Len(out) + 1)..size : out'[j] = Silence
    BY <2>1, Zeroes
  <2>3. offset' = offset
    BY <2>1 DEF GiveUp, request
  <2>4. i \in 1..Len(out) \/ i \in (Len(out) + 1)..size
    BY <1>2, <2>2
  <2> QED
    BY <1>1, <2>2, <2>3, <2>4
<1>5. ASSUME NEW w \in Handles, NEW t \in Reach[w], NEW n \in Sizes, Ask(w, t, n)
      PROVE  FALSE
  BY <1>5, EmptySeq DEF Ask
<1>6. CASE \/ ConvertCurrent \/ GrabNext \/ BeginSeek \/ Return \/ SeekBack \/ SeekLands
           \/ Skip \/ SeekEnds \/ Opened \/ UNCHANGED vars
  <2>1. out' = out /\ offset' = offset
    BY <1>6 DEF ConvertCurrent, GrabNext, BeginSeek, Return, SeekBack, SeekLands, Skip,
                SeekEnds, Opened, vars, request
  <2> QED
    BY <1>1, <2>1
<1> QED
  BY <1>3, <1>4, <1>5, <1>6 DEF Next, Works, Breaks

-----------------------------------------------------------------------------
(***************************************************************************)
(* The invariant and the theorems.                                         *)
(***************************************************************************)

\* The invariant holds of a stream that has just been opened.
LEMMA InductiveInit == Init => IInv
<1> SUFFICES ASSUME Init PROVE IInv
  OBVIOUS
<1>1. pc = "idle" /\ out = <<>> /\ Len(out) = 0 /\ valid_first = NoPts
  BY EmptySeq DEF Init
<1>2. Sounding /\ Seeking
  BY <1>1 DEF Sounding, Seeking
<1>3. NoNeedlessSilence /\ RegularInPlace
  BY <1>1 DEF NoNeedlessSilence, RegularInPlace, SamplesInPlace
<1>4. Labelled
  <2>1. \A w \in Handles : /\ swr[w].held = <<>>
                           /\ swr[w].pos = NoPts /\ swr[w].buf = <<>>
    BY DEF Init
  <2> QED
    BY <2>1 DEF Labelled
<1> QED
  BY <1>2, <1>3, <1>4, TypesInit DEF IInv

\* Each step preserves it.
LEMMA InductiveStep == IInv /\ [Next]_vars => IInv'
BY TypesStep, SoundingStep, SeekingStep, SilenceStep, LabelledStep, PlaceStep DEF IInv

\* Types, the sound of reads under way, what a seek is for and what resamplers
\* hold: together they hold in every state.
THEOREM Inductive == Spec => []IInv
<1> QED
  BY InductiveInit, InductiveStep, PTL DEF Spec

\* No action leaves the types of the variables; a resampler never holds back
\* more than it may, and a read never writes more than it was asked for.
THEOREM TypeCorrect == Spec => []TypeOK
<1>1. IInv => TypeOK
  BY DEF IInv
<1> QED
  BY <1>1, Inductive, PTL

\* In a sound file that can be decoded from its start, audio_read zeroes only
\* what lies behind the end, however many handles and decoders there are and
\* whatever was read before.
THEOREM SilentBehindTheEndOnly == Spec => []NoNeedlessSilence
<1>1. IInv => NoNeedlessSilence
  BY DEF IInv
<1> QED
  BY <1>1, Inductive, PTL

\* When all frames are equally long and the rate is not converted, every sample
\* delivered is the one at its place, although grab_next_frame goes by the end
\* of the last output and not by the frame that the decoder gave.  With a last
\* frame that is shorter it is not.
THEOREM RegularFramesInPlace == Spec => [](Regular => SamplesInPlace)
<1>1. IInv => (Regular => SamplesInPlace)
  BY DEF IInv, RegularInPlace
<1> QED
  BY <1>1, Inductive, PTL

=============================================================================
