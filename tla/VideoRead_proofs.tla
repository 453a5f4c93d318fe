--------------------------- MODULE VideoRead_proofs ---------------------------
(***************************************************************************)
(* Proofs about VideoRead: that its state is well-typed, that a decoder's  *)
(* GOP is noted rightly and that the frame shown is the frame asked for,   *)
(* for all files, numbers of decoders and viewers.                         *)
(***************************************************************************)
EXTENDS VideoRead, FiniteSetTheorems, WellFoundedInduction, TLAPS

\* A read is for a frame of the stream, of a sound file for one that exists.
Requested == pc # "idle" =>
  /\ req \in Int /\ StartTime <= req
  /\ ~file.damaged => req <= LastPts

\* seek only goes back, and where the GOPs are spaced not behind the first key
\* frame in search of a frame that can be decoded.
Seeking == pc = "seek" =>
  /\ seek_target \in Int /\ seek_target <= req
  /\ Spaced /\ FirstShown <= req => Min(KeyPts) <= seek_target

\* In a sound file a decoder that knows its GOP has a frame, and no decoder has
\* one that cannot be decoded.
Held == ~file.damaged => \A i \in Decoders :
  /\ IsPts(dec[i].gop) => IsPts(dec[i].pos)
  /\ IsPts(dec[i].pos) => FirstShown <= dec[i].pos

\* What is skipped from is not behind the target, unless nothing is before it.
Aimed == pc = "skip" /\ ~file.damaged =>
  /\ IsPts(dec[cur].pos)
  /\ dec[cur].pos <= req \/ (req < FirstShown /\ dec[cur].pos = FirstShown)

\* GopTrue of all decoders, those not open yet included.
GopKnown == BeginsWithKey => \A i \in Decoders :
  IsPts(dec[i].pos) /\ (pc = "seek" => i # cur) =>
    dec[i].gop = Max(KeysUpTo(dec[i].pos))

IInv == TypeOK /\ Requested /\ Seeking /\ Held /\ Aimed /\ GopKnown /\ RightFrame

-----------------------------------------------------------------------------
(***************************************************************************)
(* The least and the greatest element of a set of integers.                *)
(***************************************************************************)

\* A set of natural numbers has a least element.
LEMMA LeastNatural ==
  ASSUME NEW T, T \subseteq Nat, T # {}
  PROVE  \E n \in T : \A k \in T : n <= k
<1> DEFINE R == OpToRel(<, Nat)
<1>1. IsWellFoundedOn(R, Nat)
  BY NatLessThanWellFounded
<1>2. \A m, n \in Nat : m < n => <<m, n>> \in R
  BY DEF OpToRel
<1> HIDE DEF R
<1>3. PICK n \in T : \A k \in T : <<k, n>> \notin R
  BY <1>1, WFMin
<1>4. ASSUME NEW k \in T PROVE n <= k
  <2>1. ~(k < n)
    BY <1>2, <1>3
  <2> QED
    BY <2>1
<1> QED
  BY <1>4

\* A set of integers with a lower bound has a least element, and Min is it.
LEMMA Least ==
  ASSUME NEW S, S \subseteq Int, S # {}, NEW b \in Int, \A x \in S : b <= x
  PROVE  Min(S) \in S /\ \A y \in S : Min(S) <= y
<1> DEFINE T == {x - b : x \in S}
<1>1. T \subseteq Nat /\ T # {}
  <2>1. \A x \in T : x \in Nat
    OBVIOUS
  <2> QED
    BY <2>1
<1>2. \A y \in S : y - b \in T
  OBVIOUS
<1>3. \A n \in T : \E m \in S : n = m - b
  OBVIOUS
<1> HIDE DEF T
<1>4. PICK n \in T : \A k \in T : n <= k
  BY <1>1, LeastNatural
<1>5. PICK m \in S : n = m - b
  BY <1>3
<1>6. ASSUME NEW y \in S PROVE m <= y
  <2>1. n <= y - b
    BY <1>2, <1>4
  <2> QED
    BY <1>5, <2>1
<1> QED
  BY <1>6 DEF Min

\* A set of integers with an upper bound has a greatest element, and Max is it.
LEMMA Greatest ==
  ASSUME NEW S, S \subseteq Int, S # {}, NEW b \in Int, \A x \in S : x <= b
  PROVE  Max(S) \in S /\ \A y \in S : y <= Max(S)
<1> DEFINE T == {b - x : x \in S}
<1>1. T \subseteq Nat /\ T # {}
  <2>1. \A x \in T : x \in Nat
    OBVIOUS
  <2> QED
    BY <2>1
<1>2. \A y \in S : b - y \in T
  OBVIOUS
<1>3. \A n \in T : \E m \in S : n = b - m
  OBVIOUS
<1> HIDE DEF T
<1>4. PICK n \in T : \A k \in T : n <= k
  BY <1>1, LeastNatural
<1>5. PICK m \in S : n = b - m
  BY <1>3
<1>6. ASSUME NEW y \in S PROVE m >= y
  <2>1. n <= b - y
    BY <1>2, <1>4
  <2> QED
    BY <1>5, <2>1
<1>7. Max(S) \in S /\ \A y \in S : Max(S) >= y
  BY <1>6 DEF Max
<1> QED
  BY <1>7

-----------------------------------------------------------------------------
(***************************************************************************)
(* The file: its key frames and where a seek lands.                        *)
(***************************************************************************)

\* What the assumptions say of the file that is read.
LEMMA Keys ==
  ASSUME file \in Files
  PROVE  /\ StartTime \in Int /\ LastPts \in Int /\ Lead \in Nat
         /\ KeyPts \subseteq Int
         /\ \A k \in KeyPts : StartTime <= k /\ k <= LastPts
         /\ Min(KeyPts) \in KeyPts
         /\ \A k \in KeyPts : Min(KeyPts) <= k
         /\ ~file.damaged => \A k \in KeyPts : k + Lead <= LastPts
<1>1. /\ StartTime \in Int /\ LastPts \in Int
      /\ file.keys \in (SUBSET (StartTime..LastPts)) \ {{}}
      /\ file.lead \in 0..LastPts
      /\ ~file.damaged => \A k \in file.keys : k + file.lead <= LastPts
  BY VideoAssumption
<1>2. /\ KeyPts \subseteq Int /\ KeyPts # {} /\ Lead \in Nat
      /\ \A k \in KeyPts : StartTime <= k /\ k <= LastPts
  BY <1>1 DEF KeyPts, Lead
<1>3. Min(KeyPts) \in KeyPts /\ \A k \in KeyPts : Min(KeyPts) <= k
  BY <1>1, <1>2, Least
<1> QED
  BY <1>1, <1>2, <1>3 DEF KeyPts, Lead

\* The last key frame up to a time.
LEMMA LastKey ==
  ASSUME file \in Files, NEW t, KeysUpTo(t) # {}
  PROVE  /\ Max(KeysUpTo(t)) \in KeyPts
         /\ Max(KeysUpTo(t)) <= t
         /\ \A k \in KeyPts : k <= t => k <= Max(KeysUpTo(t))
<1>1. /\ KeysUpTo(t) \subseteq Int
      /\ LastPts \in Int
      /\ \A k \in KeysUpTo(t) : k <= LastPts
  BY Keys DEF KeysUpTo
<1>2. /\ Max(KeysUpTo(t)) \in KeysUpTo(t)
      /\ \A k \in KeysUpTo(t) : k <= Max(KeysUpTo(t))
  BY <1>1, Greatest
<1> QED
  BY <1>2 DEF KeysUpTo

\* A seek lands on the first frame that is output after the last key frame not
\* later than the time, or after the first key frame of all.
LEMMA Lands ==
  ASSUME file \in Files, NEW t
  PROVE  /\ FirstShown \in Int
         /\ Landing(t) \in Int
         /\ FirstShown <= Landing(t)
         /\ KeysUpTo(t) # {} => Landing(t) = Lead + Max(KeysUpTo(t))
         /\ KeysUpTo(t) = {} => Landing(t) = FirstShown
         /\ ~file.damaged => Landing(t) <= LastPts
<1> DEFINE K == KeysUpTo(t)
<1>1. Min(KeyPts) \in Int /\ Lead \in Nat
  BY Keys
<1>2. CASE K = {}
  <2>1. Landing(t) = Lead + Min(KeyPts)
    BY <1>2 DEF Landing
  <2> QED
    BY <1>1, <1>2, <2>1, Keys DEF FirstShown
<1>3. CASE K # {}
  <2>1. PICK k \in KeyPts : k = Max(K)
    BY <1>3, LastKey
  <2>2. Landing(t) = Lead + k
    BY <1>3, <2>1 DEF Landing
  <2>3. k \in Int /\ Min(KeyPts) <= k /\ (~file.damaged => k + Lead <= LastPts)
    BY <2>1, Keys
  <2> QED
    BY <1>1, <1>3, <2>1, <2>2, <2>3, Keys DEF FirstShown
<1> QED
  BY <1>2, <1>3

-----------------------------------------------------------------------------
(***************************************************************************)
(* The choice of a decoder.                                                *)
(***************************************************************************)

\* A decoder and what it may hold.
Holds == [pos : Pts, gop : KeyPts \cup {NoPts}, ts : 0..Cap]

\* A set of decoders has a first and a last one.
LEMMA FirstAndLast ==
  ASSUME TypeOK, NEW S, S \subseteq 1..len, S # {}
  PROVE  Min(S) \in S /\ Max(S) \in S
<1>1. /\ len \in Int /\ S \subseteq Int
      /\ \A i \in S : 1 <= i
      /\ \A i \in S : i <= len
  BY VideoAssumption DEF TypeOK, Decoders
<1>2. PICK b \in Int : \A i \in S : b <= i
  BY <1>1
<1>3. Min(S) \in S
  BY <1>1, <1>2, Least
<1>4. Max(S) \in S
  BY <1>1, Greatest
<1> QED
  BY <1>3, <1>4

\* Some decoder is the least recently used.
LEMMA SomeLru ==
  ASSUME TypeOK
  PROVE  Lru # {}
<1> DEFINE T == {dec[i].ts : i \in 1..len}
<1>1. 1 \in 1..len /\ \A i \in 1..len : dec[i].ts \in Nat
  BY VideoAssumption DEF TypeOK, Decoders
<1>2. T \subseteq Nat /\ T # {}
  BY <1>1
<1>3. PICK n \in T : \A k \in T : n <= k
  BY <1>2, LeastNatural
<1>4. PICK i \in 1..len : n = dec[i].ts
  OBVIOUS
<1>5. i \in Lru
  BY <1>3, <1>4 DEF Lru
<1> QED
  BY <1>5

\* find_stream returns a decoder that is open; without a seek, one that has the
\* frame, or one before it, or one of its GOP.
LEMMA Choice ==
  ASSUME TypeOK, NEW t
  PROVE  /\ Chosen(t) \in 1..len
         /\ ~NeedSeek(t) => Chosen(t) \in Exact(t) \cup Nearest(t) \cup SameGop(t)
<1>1. /\ Exact(t) \subseteq 1..len /\ Nearest(t) \subseteq 1..len
      /\ SameGop(t) \subseteq 1..len /\ Lru \subseteq 1..len
  BY DEF Exact, Nearest, Behind, SameGop, Lru
<1>2. CASE Exact(t) # {}
  BY <1>1, <1>2, FirstAndLast DEF Chosen
<1>3. CASE Exact(t) = {} /\ Nearest(t) # {}
  BY <1>1, <1>3, FirstAndLast DEF Chosen
<1>4. CASE Exact(t) = {} /\ Nearest(t) = {} /\ SameGop(t) # {}
  BY <1>1, <1>4, FirstAndLast DEF Chosen
<1>5. CASE Exact(t) = {} /\ Nearest(t) = {} /\ SameGop(t) = {}
  BY <1>1, <1>5, FirstAndLast, SomeLru DEF Chosen, NeedSeek
<1> QED
  BY <1>2, <1>3, <1>4, <1>5

\* The rank of the decoder chosen is at most the number of decoders.
LEMMA RankFits ==
  ASSUME NEW i \in Decoders
  PROVE  Cardinality({k \in Decoders : dec[k].ts > 0} \cup {i}) \in 0..Cap
<1> DEFINE S == {k \in Decoders : dec[k].ts > 0} \cup {i}
<1>1. Cap \in Nat /\ S \subseteq 1..Cap
  BY VideoAssumption DEF Decoders
<1>2. IsFiniteSet(1..Cap) /\ Cardinality(1..Cap) = Cap
  BY <1>1, FS_Interval
<1>3. IsFiniteSet(S) /\ Cardinality(S) <= Cardinality(1..Cap)
  BY <1>1, <1>2, FS_Subset
<1>4. Cardinality(S) \in Nat
  BY <1>3, FS_CardinalityType
<1> HIDE DEF S
<1>5. Cardinality(S) \in 0..Cap
  BY <1>1, <1>2, <1>3, <1>4
<1> QED
  BY <1>5 DEF S

\* Noting the time of use changes nothing but the times of use.
LEMMA Touched ==
  ASSUME TypeOK, NEW i \in Decoders
  PROVE  /\ Touch(i) \in [Decoders -> Holds]
         /\ \A j \in Decoders : /\ Touch(i)[j].pos = dec[j].pos
                                /\ Touch(i)[j].gop = dec[j].gop
<1> DEFINE n == Cardinality({k \in Decoders : dec[k].ts > 0} \cup {i})
           earlier(ts) == IF dec[i].ts > 0 /\ ts > dec[i].ts THEN ts - 1 ELSE ts
<1>1. n \in 0..Cap
  BY RankFits
<1>2. dec \in [Decoders -> Holds] /\ Cap \in Nat
  BY VideoAssumption DEF TypeOK, Holds
<1> HIDE DEF n
<1>3. Touch(i) = [j \in Decoders |-> IF j = i
                    THEN [dec[j] EXCEPT !.ts = n]
                    ELSE [dec[j] EXCEPT !.ts = earlier(dec[j].ts)]]
  BY DEF Touch, n
<1>4. \A j \in Decoders : earlier(dec[j].ts) \in 0..Cap
  BY <1>2 DEF Holds
<1> HIDE DEF earlier
<1>5. ASSUME NEW j \in Decoders
      PROVE  /\ Touch(i)[j] \in Holds
             /\ Touch(i)[j].pos = dec[j].pos
             /\ Touch(i)[j].gop = dec[j].gop
  <2>1. dec[j] \in Holds /\ earlier(dec[j].ts) \in 0..Cap
    BY <1>2, <1>4
  <2>2. Touch(i)[j] = [dec[j] EXCEPT !.ts = n]
        \/ Touch(i)[j] = [dec[j] EXCEPT !.ts = earlier(dec[j].ts)]
    BY <1>3
  <2> QED
    BY <1>1, <2>1, <2>2 DEF Holds
<1> QED
  BY <1>3, <1>5

-----------------------------------------------------------------------------
(***************************************************************************)
(* Type correctness.                                                       *)
(***************************************************************************)

\* What the type invariant says of the decoder at work.
LEMMA AtWork ==
  ASSUME TypeOK
  PROVE  /\ cur \in Decoders
         /\ dec \in [Decoders -> Holds]
         /\ KeyPts \subseteq Int
         /\ \A i \in Decoders : IsPts(dec[i].pos) =>
              /\ dec[i].pos \in Int
              /\ Min(KeyPts) <= dec[i].pos /\ dec[i].pos <= LastPts
<1>1. cur \in Decoders /\ dec \in [Decoders -> Holds]
  BY VideoAssumption DEF TypeOK, Decoders, Holds
<1>2. Min(KeyPts) \in Int /\ LastPts \in Int /\ KeyPts \subseteq Int
  BY Keys DEF TypeOK
<1>3. ASSUME NEW i \in Decoders, IsPts(dec[i].pos)
      PROVE  dec[i].pos \in Min(KeyPts)..LastPts
  BY <1>1, <1>3 DEF Holds, Pts, IsPts
<1> QED
  BY <1>1, <1>2, <1>3

\* Moving a decoder to a frame of the file keeps it well-typed.
LEMMA Moves ==
  ASSUME TypeOK, NEW p \in Int, FirstShown <= p \/ Min(KeyPts) <= p, p <= LastPts
  PROVE  /\ LandsOn(p) \in [Decoders -> Holds]
         /\ ArrivesAt(p) \in [Decoders -> Holds]
<1>1. cur \in Decoders /\ dec \in [Decoders -> Holds]
  BY AtWork
<1>2. p \in Pts
  BY Keys DEF TypeOK, Pts, FirstShown
<1> QED
  BY <1>1, <1>2 DEF LandsOn, ArrivesAt, Holds

\* A stream that has just been opened is well-typed.
LEMMA TypesInit == Init => TypeOK
<1> SUFFICES ASSUME Init PROVE TypeOK
  OBVIOUS
<1>1. Fresh \in [pos : Pts, gop : KeyPts \cup {NoPts}, ts : 0..Cap]
  BY VideoAssumption DEF Fresh, Pts
<1>2. len \in Decoders /\ cur \in 1..len
  BY VideoAssumption DEF Init, Decoders
<1>3. dec \in [Decoders -> [pos : Pts, gop : KeyPts \cup {NoPts}, ts : 0..Cap]]
  BY <1>1 DEF Init
<1>4. /\ file \in Files /\ who \in Viewers
      /\ pc \in {"idle", "seek", "skip"}
      /\ sought \in BOOLEAN
      /\ shown \in (Pts \ {NoPts}) \cup {Blank, Garbage}
      /\ settled \subseteq Viewers
  BY DEF Init
<1>5. req \in (UNION {Reach[w] : w \in Viewers}) \cup {NoPts}
  BY DEF Init
<1> QED
  BY <1>2, <1>3, <1>4, <1>5, Zenon DEF TypeOK

\* Each action keeps the state well-typed.
LEMMA TypesStep == TypeOK /\ [Next]_vars => TypeOK'
<1> SUFFICES ASSUME TypeOK, [Next]_vars PROVE TypeOK'
  OBVIOUS
<1>1. file \in Files /\ 1..len \subseteq Decoders /\ len \in Nat
  BY VideoAssumption DEF TypeOK, Decoders
<1>2. ASSUME NEW w \in Viewers, NEW t \in Reach[w], Ask(w, t) PROVE TypeOK'
  <2>1. Chosen(t) \in 1..len /\ Chosen(t) \in Decoders
    BY <1>1, Choice
  <2>2. Touch(Chosen(t)) \in [Decoders -> Holds]
    BY <2>1, Touched
  <2>3. NeedSeek(t) \in BOOLEAN
    BY DEF NeedSeek
  <2>4. dec' \in [Decoders -> Holds]
    BY <1>2, <2>2 DEF Ask
  <2>5. Pts' = Pts /\ KeyPts' = KeyPts
    BY <1>2 DEF Ask, Pts, KeyPts
  <2>6. settled' \subseteq Viewers
    BY <1>2 DEF Ask, TypeOK
  <2> QED
    BY <1>2, <2>1, <2>3, <2>4, <2>5, <2>6 DEF Ask, TypeOK, Holds
<1>3. CASE SeekBack
  <2>1. LandsOn(Landing(seek_target)) \in [Decoders -> Holds]
    BY <1>1, <1>3, Lands, Moves DEF SeekBack
  <2> QED
    BY <1>3, <2>1 DEF SeekBack, TypeOK, Holds, Pts, KeyPts
<1>4. CASE SeekLands
  <2>1. ArrivesAt(Landing(seek_target)) \in [Decoders -> Holds]
    BY <1>1, <1>4, Lands, Moves DEF SeekLands
  <2> QED
    BY <1>4, <2>1 DEF SeekLands, TypeOK, Holds, Pts, KeyPts
<1>5. NoPts \in Pts /\ LosesFrame \in [Decoders -> Holds]
      /\ [dec EXCEPT ![cur].pos = NoPts, ![cur].gop = NoPts] \in [Decoders -> Holds]
  BY AtWork DEF LosesFrame, Holds, Pts
<1>6. CASE SeekHitsEnd
  BY <1>5, <1>6 DEF SeekHitsEnd, Finish, TypeOK, Holds, Pts, KeyPts
<1>7. CASE SeekFails
  BY <1>7 DEF SeekFails, Finish, TypeOK, Pts, KeyPts
<1>8. CASE Skip
  <2>1. dec[cur].pos \in Int /\ Min(KeyPts) <= dec[cur].pos /\ dec[cur].pos < LastPts
    BY <1>8, AtWork DEF Skip, Skipping
  <2>2. Min(KeyPts) \in Int /\ LastPts \in Int
    BY <1>1, Keys
  <2>3. ArrivesAt(dec[cur].pos + 1) \in [Decoders -> Holds]
    BY <2>1, <2>2, Moves
  <2> QED
    BY <1>8, <2>3 DEF Skip, TypeOK, Holds, Pts, KeyPts
<1>9. CASE SkipHitsEnd
  BY <1>5, <1>9 DEF SkipHitsEnd, Finish, TypeOK, Holds, Pts, KeyPts
<1>10. CASE GrabFails
  BY <1>5, <1>10 DEF GrabFails, Finish, TypeOK, Holds, Pts, KeyPts
<1>11. CASE Show
  <2>1. shown' \in (Pts \ {NoPts}) \cup {Blank, Garbage}
    BY <1>11, AtWork DEF Show, Finish, IsPts, Holds
  <2> QED
    BY <1>11, <2>1 DEF Show, Finish, TypeOK, Pts, KeyPts
<1>12. CASE Opened
  <2>1. len' \in Decoders /\ 1..len \subseteq 1..len'
    BY <1>12, VideoAssumption DEF Opened, TypeOK, Decoders
  <2> QED
    BY <1>12, <2>1 DEF Opened, TypeOK, Pts, KeyPts
<1>13. CASE UNCHANGED vars
  BY <1>13 DEF vars, TypeOK, Pts, KeyPts
<1> QED
  BY <1>2, <1>3, <1>4, <1>6, <1>7, <1>8, <1>9, <1>10, <1>11, <1>12, <1>13
     DEF Next, Works, Breaks

\* The state is well-typed: whatever is asked for, a decoder stands on a frame
\* of the file or on none, and the one at work is open.
THEOREM TypeCorrect == Spec => []TypeOK
<1> QED
  BY TypesInit, TypesStep, PTL DEF Spec

-----------------------------------------------------------------------------
(***************************************************************************)
(* The target of a read and the time sought.                               *)
(***************************************************************************)

\* The file stays the same.
LEMMA FileStays == [Next]_vars => file' = file
BY DEF Next, Works, Breaks, vars, Ask, SeekBack, SeekLands, SeekHitsEnd, SeekFails,
       Skip, SkipHitsEnd, GrabFails, Show, Opened, Finish

\* A read is only begun for a frame that may be asked for.
LEMMA RequestedStep == TypeOK /\ Requested /\ [Next]_vars => Requested'
<1> SUFFICES ASSUME TypeOK, Requested, [Next]_vars PROVE Requested'
  OBVIOUS
<1>1. file' = file
  BY FileStays
<1>2. ASSUME NEW w \in Viewers, NEW t \in Reach[w], Ask(w, t) PROVE Requested'
  <2>1. t \in Int /\ StartTime <= t
    BY VideoAssumption
  <2> QED
    BY <1>1, <1>2, <2>1 DEF Ask, Wanted, Requested
<1>3. CASE pc # "idle" /\ req' = req
  BY <1>1, <1>3 DEF Requested
<1>4. CASE pc' = "idle"
  BY <1>4 DEF Requested
<1>5. CASE Works \/ Breaks \/ Opened \/ UNCHANGED vars
  BY <1>1, <1>3, <1>4, <1>5
     DEF Works, Breaks, vars, SeekBack, SeekLands, SeekHitsEnd, SeekFails, Skip,
         SkipHitsEnd, GrabFails, Show, Opened, Finish
<1> QED
  BY <1>2, <1>5 DEF Next

\* In a file whose GOPs are spaced, going back a second from behind a frame that
\* can be shown does not lead before the first key frame.
LEMMA StaysInFile ==
  ASSUME TypeOK, Spaced, req \in Int, FirstShown <= req, NEW t \in Int, t <= req,
         Min(KeyPts) <= t, TooFar(Landing(t))
  PROVE  Min(KeyPts) <= t - Second
<1>1. Min(KeyPts) \in KeyPts /\ Min(KeyPts) \in Int /\ Lead \in Nat /\ Second \in Nat
  BY Keys, VideoAssumption DEF TypeOK
<1>2. KeysUpTo(t) # {}
  BY <1>1 DEF KeysUpTo
<1>3. PICK k \in KeyPts : k = Max(KeysUpTo(t)) /\ k <= t
  BY <1>2, LastKey DEF TypeOK
<1>4. k \in Int /\ k + Lead > req
  BY <1>2, <1>3, Keys, Lands DEF TypeOK, TooFar
<1>5. Lead # 0
  BY <1>1, <1>3, <1>4
<1>6. k # Min(KeyPts)
  BY <1>1, <1>4 DEF FirstShown
<1>7. k >= Min(KeyPts) + Second
  BY <1>5, <1>6 DEF Spaced
<1> QED
  BY <1>1, <1>3, <1>4, <1>7

\* Each step of a seek aims at the frame asked for or before it.
LEMMA SeekingStep ==
  TypeOK /\ Requested /\ Seeking /\ [Next]_vars => Seeking'
<1> SUFFICES ASSUME TypeOK, Requested, Seeking, [Next]_vars PROVE Seeking'
  OBVIOUS
<1>1. file' = file
  BY FileStays
<1>2. Min(KeyPts) \in Int /\ StartTime <= Min(KeyPts) /\ StartTime \in Int
      /\ Lead \in Nat /\ Second \in Nat
  BY Keys, VideoAssumption DEF TypeOK
<1>3. ASSUME NEW t, seek_target' = t, t \in Int, t <= req',
             Spaced /\ FirstShown <= req' => Min(KeyPts) <= t
      PROVE  Seeking'
  BY <1>1, <1>3 DEF Seeking, Spaced, FirstShown, Lead, KeyPts
<1>4. ASSUME NEW w \in Viewers, NEW t \in Reach[w], Ask(w, t) PROVE Seeking'
  <2>1. t \in Int
    BY VideoAssumption
  <2>2. FirstShown <= t => Min(KeyPts) <= t
    BY <1>2, <2>1 DEF FirstShown
  <2> QED
    BY <1>3, <1>4, <2>1, <2>2 DEF Ask
<1>5. CASE SeekBack
  <2>1. /\ seek_target \in Int /\ seek_target <= req /\ req \in Int
        /\ Spaced /\ FirstShown <= req => Min(KeyPts) <= seek_target
    BY <1>5 DEF SeekBack, Seeking, Requested
  <2>2. TooFar(Landing(seek_target)) /\ req' = req
    BY <1>5 DEF SeekBack
  <2>3. CASE seek_target < StartTime
    <3>1. seek_target' = seek_target
      BY <1>5, <2>3 DEF SeekBack
    <3> QED
      BY <1>3, <2>1, <2>2, <3>1
  <2>4. CASE ~(seek_target < StartTime)
    <3>1. seek_target' = seek_target - Second
      BY <1>5, <2>4 DEF SeekBack
    <3>2. Spaced /\ FirstShown <= req => Min(KeyPts) <= seek_target - Second
      BY <2>1, <2>2, StaysInFile
    <3>3. seek_target - Second \in Int /\ seek_target - Second <= req
      BY <1>2, <2>1
    <3> QED
      BY <1>3, <2>2, <3>1, <3>2, <3>3
  <2> QED
    BY <2>3, <2>4
<1>6. CASE Opened \/ UNCHANGED vars
  <2>1. UNCHANGED <<file, pc, req, seek_target>>
    BY <1>6 DEF Opened, vars
  <2> QED
    BY <2>1 DEF Seeking, Spaced, FirstShown, Lead, KeyPts
<1>7. CASE pc' # "seek"
  BY <1>7 DEF Seeking
<1>8. CASE SeekLands \/ SeekHitsEnd \/ Skip \/ SkipHitsEnd \/ Show \/ Breaks
  <2>1. pc' # "seek"
    BY <1>8 DEF Breaks, SeekLands, SeekHitsEnd, SeekFails, Skip, Skipping,
                SkipHitsEnd, GrabFails, Show, Finish
  <2> QED
    BY <1>7, <2>1
<1> QED
  BY <1>4, <1>5, <1>6, <1>8 DEF Next, Works

-----------------------------------------------------------------------------
(***************************************************************************)
(* The GOP noted for a decoder.                                            *)
(***************************************************************************)

\* A key frame is the last one up to itself.
LEMMA OwnGop ==
  ASSUME file \in Files, NEW p \in KeyPts
  PROVE  Max(KeysUpTo(p)) = p
<1>1. p \in Int /\ p <= p /\ KeysUpTo(p) # {}
  BY Keys DEF KeysUpTo
<1>2. PICK k \in KeyPts : k = Max(KeysUpTo(p)) /\ k <= p /\ p <= k
  BY <1>1, LastKey
<1>3. k \in Int
  BY Keys
<1> QED
  BY <1>1, <1>2, <1>3

\* A frame that is no key frame belongs to the GOP of the one before it.
LEMMA SameGopAsBefore ==
  ASSUME file \in Files, NEW p \in Int, p + 1 \notin KeyPts
  PROVE  KeysUpTo(p + 1) = KeysUpTo(p)
<1>1. ASSUME NEW k \in KeyPts PROVE k <= p + 1 <=> k <= p
  <2>1. k \in Int /\ k # p + 1
    BY Keys
  <2> QED
    BY <2>1
<1> QED
  BY <1>1 DEF KeysUpTo

\* In a file that begins with a key frame, nobody seeks before that one, and a
\* seek lands on the key frame of its target.
LEMMA PlainSeek ==
  ASSUME TypeOK, Requested, Seeking, BeginsWithKey, pc = "seek"
  PROVE  /\ KeysUpTo(seek_target) # {}
         /\ Landing(seek_target) \in KeyPts
         /\ ~TooFar(Landing(seek_target))
<1>1. Lead = 0 /\ StartTime \in KeyPts /\ Spaced
  BY DEF BeginsWithKey, Spaced
<1>2. StartTime \in Int /\ Min(KeyPts) \in Int /\ Min(KeyPts) <= StartTime
      /\ Min(KeyPts) \in KeyPts
  BY <1>1, Keys DEF TypeOK
<1>3. seek_target \in Int /\ seek_target <= req /\ req \in Int /\ StartTime <= req
  BY DEF Seeking, Requested
<1>4. FirstShown <= req
  BY <1>1, <1>2, <1>3 DEF FirstShown
<1>5. Min(KeyPts) <= seek_target
  BY <1>1, <1>4 DEF Seeking
<1>6. KeysUpTo(seek_target) # {}
  BY <1>2, <1>5 DEF KeysUpTo
<1>7. PICK k \in KeyPts : k = Max(KeysUpTo(seek_target)) /\ k <= seek_target
  BY <1>6, LastKey DEF TypeOK
<1>8. k \in Int
  BY Keys DEF TypeOK
<1>9. Landing(seek_target) = k
  BY <1>1, <1>6, <1>7, <1>8, Lands DEF TypeOK
<1> QED
  BY <1>3, <1>6, <1>7, <1>8, <1>9 DEF TooFar

\* Each step leaves the GOP noted for a decoder that of its frame.
LEMMA GopStep ==
  TypeOK /\ Requested /\ Seeking /\ GopKnown /\ [Next]_vars => GopKnown'
<1> SUFFICES ASSUME TypeOK, Requested, Seeking, GopKnown, [Next]_vars, BeginsWithKey,
                    file' = file,
                    NEW i \in Decoders, IsPts(dec'[i].pos), pc' = "seek" => i # cur'
             PROVE  dec'[i].gop = Max(KeysUpTo(dec'[i].pos))
  BY FileStays DEF GopKnown, BeginsWithKey, Lead, KeyPts, KeysUpTo, IsPts
<1>1. /\ file \in Files /\ cur \in Decoders /\ dec \in [Decoders -> Holds]
  BY AtWork DEF TypeOK
<1>2. IsPts(dec[i].pos) /\ (pc = "seek" => i # cur) =>
        dec[i].gop = Max(KeysUpTo(dec[i].pos))
  BY DEF GopKnown
\* A decoder that is left alone.
<1>3. ASSUME dec'[i].pos = dec[i].pos, dec'[i].gop = dec[i].gop, pc = "seek" => i # cur
      PROVE  dec'[i].gop = Max(KeysUpTo(dec'[i].pos))
  BY <1>2, <1>3
\* A decoder that arrives at a frame of its GOP or at a key frame.
<1>4. ASSUME NEW p \in Int, dec' = ArrivesAt(p), i = cur,
             p \in KeyPts \/ dec[i].gop = Max(KeysUpTo(p))
      PROVE  dec'[i].gop = Max(KeysUpTo(dec'[i].pos))
  <2>1. dec'[i].pos = p /\ dec'[i].gop = IF p \in KeyPts THEN p ELSE dec[i].gop
    BY <1>1, <1>4 DEF ArrivesAt, Holds
  <2> QED
    BY <1>1, <1>4, <2>1, OwnGop
<1>5. ASSUME NEW w \in Viewers, NEW t \in Reach[w], Ask(w, t)
      PROVE  dec'[i].gop = Max(KeysUpTo(dec'[i].pos))
  <2>1. Chosen(t) \in Decoders
    BY Choice, VideoAssumption DEF TypeOK, Decoders
  <2> QED
    BY <1>3, <1>5, <2>1, Touched DEF Ask
<1>7. CASE SeekBack
  BY <1>7, PlainSeek DEF SeekBack
<1>8. CASE SeekLands
  <2>1. pc = "seek" /\ dec' = ArrivesAt(Landing(seek_target))
    BY <1>8 DEF SeekLands
  <2>2. Landing(seek_target) \in KeyPts /\ Landing(seek_target) \in Int
    BY <1>1, <2>1, PlainSeek, Lands
  <2>3. i # cur => dec'[i] = dec[i]
    BY <1>1, <2>1 DEF ArrivesAt
  <2> QED
    BY <1>3, <1>4, <2>1, <2>2, <2>3
<1>9. CASE Skip
  <2> DEFINE p == dec[cur].pos + 1
  <2>1. pc = "skip" /\ dec' = ArrivesAt(p) /\ IsPts(dec[cur].pos)
    BY <1>9 DEF Skip, Skipping
  <2>2. dec[cur].pos \in Int
    BY <1>1, <2>1, AtWork
  <2>3. i # cur => dec'[i] = dec[i]
    BY <1>1, <2>1 DEF ArrivesAt
  <2>4. CASE i = cur
    <3>1. dec[i].gop = Max(KeysUpTo(dec[i].pos))
      BY <1>2, <2>1, <2>4
    <3>2. p \in KeyPts \/ dec[i].gop = Max(KeysUpTo(p))
      BY <1>1, <2>2, <2>4, <3>1, SameGopAsBefore
    <3> QED
      BY <1>4, <2>1, <2>2, <2>4, <3>2
  <2> QED
    BY <1>3, <2>1, <2>3, <2>4
\* A decoder that loses its frame.
<1>10. ASSUME dec'[cur].pos = NoPts, \A j \in Decoders : j # cur => dec'[j] = dec[j]
       PROVE  dec'[i].gop = Max(KeysUpTo(dec'[i].pos))
  <2>1. i # cur
    BY <1>10 DEF IsPts
  <2> QED
    BY <1>3, <1>10, <2>1
<1>11. CASE SeekHitsEnd \/ SkipHitsEnd \/ GrabFails
  <2>1. dec'[cur].pos = NoPts /\ \A j \in Decoders : j # cur => dec'[j] = dec[j]
    BY <1>1, <1>11 DEF SeekHitsEnd, SkipHitsEnd, GrabFails, LosesFrame, Holds
  <2> QED
    BY <1>10, <2>1
<1>12. CASE SeekFails
  BY <1>12, PlainSeek DEF SeekFails
<1>13. CASE Show \/ Opened \/ UNCHANGED vars
  <2>1. dec' = dec /\ (pc = "seek" => i # cur)
    BY <1>13 DEF Show, Opened, vars, Finish
  <2> QED
    BY <1>3, <2>1
<1> QED
  BY <1>5, <1>7, <1>8, <1>9, <1>11, <1>12, <1>13 DEF Next, Works, Breaks

-----------------------------------------------------------------------------
(***************************************************************************)
(* The frame shown.                                                        *)
(***************************************************************************)

\* In a sound file no read comes to the end.
LEMMA NoEnd ==
  TypeOK /\ Requested /\ ~file.damaged => ~SeekHitsEnd /\ ~SkipHitsEnd /\ ~GrabFails
<1> SUFFICES ASSUME TypeOK, Requested, ~file.damaged
             PROVE  ~SeekHitsEnd /\ ~SkipHitsEnd /\ ~GrabFails
  OBVIOUS
<1>1. LastPts \in Int /\ Landing(seek_target) \in Int /\ Landing(seek_target) <= LastPts
  BY Keys, Lands DEF TypeOK
<1>2. ~SeekHitsEnd
  BY <1>1 DEF SeekHitsEnd
<1>3. ~SkipHitsEnd
  BY <1>1 DEF SkipHitsEnd, Skipping, Requested
<1> QED
  BY <1>2, <1>3 DEF GrabFails

\* Each step leaves decoders with frames that the file can give.
LEMMA HeldStep == TypeOK /\ Requested /\ Held /\ [Next]_vars => Held'
<1> SUFFICES ASSUME TypeOK, Requested, Held, [Next]_vars, ~file.damaged, file' = file
             PROVE  \A i \in Decoders :
                      /\ IsPts(dec'[i].gop) => IsPts(dec'[i].pos)
                      /\ IsPts(dec'[i].pos) => FirstShown <= dec'[i].pos
  BY FileStays DEF Held, IsPts, FirstShown, Lead, KeyPts
<1> TAKE i \in Decoders
<1>1. /\ file \in Files /\ cur \in Decoders /\ dec \in [Decoders -> Holds]
  BY AtWork DEF TypeOK
<1>2. ASSUME dec'[i].pos = dec[i].pos, dec'[i].gop = dec[i].gop
      PROVE  /\ IsPts(dec'[i].gop) => IsPts(dec'[i].pos)
             /\ IsPts(dec'[i].pos) => FirstShown <= dec'[i].pos
  BY <1>2 DEF Held
<1>3. ASSUME NEW p \in Int, FirstShown <= p, dec' = LandsOn(p) \/ dec' = ArrivesAt(p)
      PROVE  /\ IsPts(dec'[i].gop) => IsPts(dec'[i].pos)
             /\ IsPts(dec'[i].pos) => FirstShown <= dec'[i].pos
  <2>1. dec'[cur].pos = p /\ (i # cur => dec'[i] = dec[i])
    BY <1>1, <1>3 DEF LandsOn, ArrivesAt, Holds
  <2> QED
    BY <1>2, <1>3, <2>1, VideoAssumption DEF IsPts
<1>4. ASSUME NEW w \in Viewers, NEW t \in Reach[w], Ask(w, t)
      PROVE  dec'[i].pos = dec[i].pos /\ dec'[i].gop = dec[i].gop
  <2>1. Chosen(t) \in Decoders
    BY Choice, VideoAssumption DEF TypeOK, Decoders
  <2> QED
    BY <1>4, <2>1, Touched DEF Ask
<1>5. CASE SeekBack \/ SeekLands
  BY <1>1, <1>3, <1>5, Lands DEF SeekBack, SeekLands
<1>6. CASE Skip
  <2>1. /\ IsPts(dec[cur].pos) /\ dec[cur].pos \in Int
        /\ dec' = ArrivesAt(dec[cur].pos + 1)
    BY <1>6, AtWork DEF Skip, Skipping
  <2>2. FirstShown <= dec[cur].pos /\ FirstShown \in Int
    BY <1>1, <2>1, Lands DEF Held
  <2> QED
    BY <1>3, <2>1, <2>2
<1>7. CASE SeekFails \/ Show \/ Opened \/ UNCHANGED vars
  BY <1>2, <1>7 DEF SeekFails, Show, Opened, vars
<1> QED
  BY <1>2, <1>4, <1>5, <1>6, <1>7, NoEnd DEF Next, Works, Breaks

\* Each step leaves the decoder at work where it can still reach the frame asked for.
LEMMA AimedStep ==
  TypeOK /\ Requested /\ Seeking /\ Held /\ Aimed /\ [Next]_vars => Aimed'
<1> SUFFICES ASSUME TypeOK, Requested, Seeking, Held, Aimed, [Next]_vars, ~file.damaged,
                    file' = file, pc' = "skip"
             PROVE  /\ IsPts(dec'[cur'].pos)
                    /\ \/ dec'[cur'].pos <= req'
                       \/ req' < FirstShown /\ dec'[cur'].pos = FirstShown
  BY FileStays DEF Aimed, IsPts, FirstShown, Lead, KeyPts
<1>1. /\ file \in Files /\ cur \in Decoders /\ dec \in [Decoders -> Holds]
      /\ FirstShown \in Int /\ Min(KeyPts) \in Int /\ StartTime \in Int
  BY AtWork, Lands, Keys DEF TypeOK
<1>2. ASSUME NEW w \in Viewers, NEW t \in Reach[w], Ask(w, t)
      PROVE  IsPts(dec'[cur'].pos) /\ dec'[cur'].pos <= req'
  <2>1. t \in Int /\ t # NoPts
    BY VideoAssumption
  <2>2. cur' = Chosen(t) /\ req' = t /\ ~NeedSeek(t) /\ dec' = Touch(Chosen(t))
    BY <1>2 DEF Ask
  <2>3. cur' \in Decoders /\ cur' \in Exact(t) \cup Nearest(t) \cup SameGop(t)
    BY <2>2, Choice, VideoAssumption DEF TypeOK, Decoders
  <2>4. IsPts(dec[cur'].pos) /\ dec[cur'].pos <= t
    <3>1. CASE cur' \in Exact(t)
      BY <2>1, <3>1 DEF Exact, IsPts
    <3>2. CASE cur' \in Nearest(t)
      <4>1. IsPts(dec[cur'].pos) /\ dec[cur'].pos < t
        BY <3>2 DEF Nearest, Behind
      <4> QED
        BY <2>1, <2>3, <4>1, AtWork
    <3>3. CASE cur' \in SameGop(t)
      <4>1. KeysUpTo(t) # {} /\ dec[cur'].gop = Max(KeysUpTo(t))
            /\ (IsPts(dec[cur'].pos) => dec[cur'].pos <= t)
        BY <3>3 DEF SameGop
      <4>2. IsPts(dec[cur'].gop)
        BY <1>1, <4>1, LastKey, Keys, VideoAssumption DEF IsPts
      <4> QED
        BY <2>3, <4>1, <4>2 DEF Held
    <3> QED
      BY <2>3, <3>1, <3>2, <3>3
  <2>5. dec'[cur'].pos = dec[cur'].pos
    BY <2>2, <2>3, Touched
  <2> QED
    BY <2>2, <2>4, <2>5
<1>3. CASE SeekLands
  <2> DEFINE p == Landing(seek_target)
  <2>1. p \in Int /\ (KeysUpTo(seek_target) = {} => p = FirstShown)
    BY <1>1, Lands
  <2>2. dec'[cur].pos = p /\ cur' = cur /\ req' = req /\ req \in Int
    BY <1>1, <1>3 DEF SeekLands, ArrivesAt, Holds, Requested
  <2>3. p # NoPts
    BY <2>1, VideoAssumption
  <2>4. CASE ~TooFar(p)
    BY <2>1, <2>2, <2>3, <2>4 DEF TooFar, IsPts
  <2>5. CASE TooFar(p)
    <3>1. seek_target < StartTime /\ seek_target \in Int
      BY <1>3, <2>5 DEF SeekLands, GivesUp, Seeking
    <3>2. KeysUpTo(seek_target) = {}
      <4>1. ASSUME KeysUpTo(seek_target) # {} PROVE FALSE
        <5>1. PICK k \in KeyPts : k <= seek_target
          BY <4>1 DEF KeysUpTo
        <5>2. k \in Int /\ StartTime <= k
          BY <1>1, Keys
        <5> QED
          BY <1>1, <3>1, <5>1, <5>2
      <4> QED
        BY <4>1
    <3>3. req < p
      BY <2>1, <2>2, <2>5 DEF TooFar
    <3> QED
      BY <2>1, <2>2, <2>3, <3>2, <3>3 DEF IsPts
  <2> QED
    BY <2>4, <2>5
<1>4. CASE Skip
  <2>1. /\ dec[cur].pos \in Int /\ dec[cur].pos < req /\ req \in Int
        /\ dec'[cur].pos = dec[cur].pos + 1 /\ cur' = cur /\ req' = req
    BY <1>1, <1>4, AtWork DEF Skip, Skipping, ArrivesAt, Holds, Requested
  <2>2. dec[cur].pos + 1 <= req /\ dec[cur].pos + 1 # NoPts
    BY <2>1, VideoAssumption
  <2> QED
    BY <2>1, <2>2 DEF IsPts
<1>5. CASE Opened \/ UNCHANGED vars
  BY <1>5 DEF Opened, vars, Aimed
<1>6. CASE SeekBack \/ SeekFails \/ Show
  BY <1>6 DEF SeekBack, SeekFails, Show, Finish
<1> QED
  BY <1>2, <1>3, <1>4, <1>5, <1>6, NoEnd DEF Next, Works, Breaks

\* What a read that ends shows.
LEMMA RightStep ==
  TypeOK /\ Requested /\ Seeking /\ Held /\ Aimed /\ RightFrame /\ [Next]_vars
    => RightFrame'
<1> SUFFICES ASSUME TypeOK, Requested, Seeking, Held, Aimed, RightFrame, [Next]_vars,
                    file' = file, pc' = "idle", IsPts(req'), ~file.damaged
             PROVE  IF req' >= FirstShown THEN shown' = req' \/ (shown' = Blank /\ ~Spaced)
                                          ELSE shown' \in {FirstShown, Blank}
  BY FileStays DEF RightFrame, IsPts, Spaced, FirstShown, Lead, KeyPts
<1>1. /\ file \in Files /\ cur \in Decoders
      /\ FirstShown \in Int /\ Min(KeyPts) \in Int /\ Min(KeyPts) \in KeyPts
  BY AtWork, Lands, Keys DEF TypeOK
<1>2. CASE SeekFails
  <2>1. /\ pc = "seek" /\ KeysUpTo(seek_target) = {}
        /\ req' = req /\ shown' = Blank /\ req \in Int
    BY <1>2 DEF SeekFails, Finish, Requested
  <2>2. ~(Min(KeyPts) <= seek_target)
    BY <1>1, <2>1 DEF KeysUpTo
  <2>3. ~(Spaced /\ FirstShown <= req)
    BY <2>1, <2>2 DEF Seeking
  <2> QED
    BY <1>1, <2>1, <2>3
<1>3. CASE Show
  <2>1. /\ pc = "skip" /\ IsPts(dec[cur].pos) /\ shown' = dec[cur].pos
        /\ req' = req /\ req \in Int /\ dec[cur].pos \in Int
        /\ ~(dec[cur].pos < req)
    BY <1>1, <1>3, AtWork DEF Show, Finish, Skipping, Aimed, Requested
  <2>2. dec[cur].pos <= req \/ (req < FirstShown /\ dec[cur].pos = FirstShown)
    BY <2>1 DEF Aimed
  <2>3. FirstShown <= dec[cur].pos
    BY <1>1, <2>1 DEF Held
  <2>4. dec[cur].pos = req \/ (req < FirstShown /\ dec[cur].pos = FirstShown)
    BY <2>1, <2>2
  <2> QED
    BY <1>1, <2>1, <2>3, <2>4
<1>4. CASE Opened \/ UNCHANGED vars
  BY <1>4 DEF Opened, vars, RightFrame
<1>5. CASE SeekBack \/ SeekLands \/ Skip
  BY <1>5 DEF SeekBack, SeekLands, Skip, Skipping
<1>6. ASSUME NEW w \in Viewers, NEW t \in Reach[w], Ask(w, t) PROVE FALSE
  BY <1>6 DEF Ask
<1> QED
  BY <1>2, <1>3, <1>4, <1>5, <1>6, NoEnd DEF Next, Works, Breaks

-----------------------------------------------------------------------------
(***************************************************************************)
(* The invariant as a whole.                                               *)
(***************************************************************************)

\* The invariant holds of a stream that has just been opened.
LEMMA InductiveInit == Init => IInv
<1> SUFFICES ASSUME Init PROVE IInv
  OBVIOUS
<1>1. TypeOK
  BY TypesInit
<1>2. pc = "idle" /\ ~IsPts(req)
  BY DEF Init, IsPts
<1>3. \A i \in Decoders : ~IsPts(dec[i].pos) /\ ~IsPts(dec[i].gop)
  BY DEF Init, Fresh, IsPts
<1> QED
  BY <1>1, <1>2, <1>3
     DEF IInv, Requested, Seeking, Held, Aimed, GopKnown, RightFrame

\* Each step preserves the invariant.
LEMMA InductiveStep == IInv /\ [Next]_vars => IInv'
BY TypesStep, RequestedStep, SeekingStep, HeldStep, AimedStep, GopStep, RightStep
   DEF IInv

\* The invariant the other theorems rest on: it holds initially and every step
\* of video_read keeps it.
THEOREM Inductive == Spec => []IInv
<1> QED
  BY InductiveInit, InductiveStep, PTL DEF Spec

\* In every sound file, whatever was read before, by whomever, and however many
\* decoders there are by now, a read shows the frame asked for.  find_stream and
\* seek may choose what they like among decoders and landings: no choice shows
\* another frame.
THEOREM TheRightFrame == Spec => []RightFrame
<1>1. IInv => RightFrame
  BY DEF IInv
<1> QED
  BY <1>1, Inductive, PTL

\* The GOP noted for a decoder is that of its frame, after every sequence of
\* seeks, skips, ends of file and errors.
THEOREM GopsAreTrue == Spec => []GopTrue
<1>1. IInv => GopTrue
  <2> SUFFICES ASSUME IInv, BeginsWithKey, NEW i \in 1..len,
                      IsPts(dec[i].pos), pc = "seek" => i # cur
               PROVE  dec[i].gop = Max(KeysUpTo(dec[i].pos))
    BY DEF GopTrue
  <2>1. i \in Decoders
    BY VideoAssumption DEF IInv, TypeOK, Decoders
  <2> QED
    BY <2>1 DEF IInv, GopKnown
<1> QED
  BY <1>1, Inductive, PTL
=============================================================================
