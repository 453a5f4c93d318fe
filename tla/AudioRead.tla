----------------------------- MODULE AudioRead -----------------------------
(***************************************************************************)
(* audio_read of audio.c: which of the decoders of a stream serves a       *)
(* request (find_stream), and the loop of stream_read that fills the       *)
(* caller's buffer from the resampler of the handle, the decoder's current *)
(* frame, the next frame, or after a seek.                                 *)
(*                                                                         *)
(* A stream may be shared by several handles (chmm_cache); each has its    *)
(* own resampler, over the same decoders.  A sample is its position in the *)
(* file, and the sample rate is not changed, so that the two scales of     *)
(* positions (osr, asr) coincide; what rate conversion does to the order   *)
(* of samples, namely holding some back, is Delay.                         *)
(***************************************************************************)
EXTENDS Integers, FiniteSets, FiniteSetsExt, Sequences

CONSTANTS
  Cap,       \* a->cap: decoders the object may have
  Handles,   \* the handles on the stream, each with its resampler
  Files,     \* the files: where their frames begin (the first one at 0, each
             \* lasts until the next), their length in samples, whether a
             \* decoder drops the first frame after a seek, whether decoding
             \* may fail, and how many samples the resampler holds back
  Second,    \* one second, in samples (duration1s)
  Reach,     \* the offsets each handle asks for
  Sizes,     \* how many samples it asks for
  NoPts,     \* AV_NOPTS_VALUE
  Silence    \* a zeroed sample

ASSUME AudioAssumption ==
  /\ Cap \in Nat \ {0}
  /\ \A f \in Files : /\ f.length \in Nat /\ f.delay \in Nat /\ f.drops \in BOOLEAN
                      /\ f.damaged \in BOOLEAN
                      /\ 0 \in f.frames /\ f.frames \subseteq 0..f.length - 1
  /\ Second \in Nat \ {0}
  /\ \A w \in Handles : Reach[w] \subseteq Nat
  /\ Sizes \subseteq Nat \ {0}
  /\ NoPts \notin Int /\ Silence \notin Int

VARIABLES
  file,       \* the file that is read
  len,        \* decoders opened so far
  dec,        \* per decoder: position of its frame, rank of ts
  swr,        \* per handle: pos and buf of its resampler, samples held back
  valid_first,  \* a->valid_first_sample_pos_asr
  pc,         \* "idle", "read" (stream_read), "seek", "skip" (the loops of seek)
  who, offset, size,  \* the request: handle, offset and length
  cur,        \* the decoder find_stream chose
  out,        \* what has been written to the caller's buffer
  time_stamp, prevpts,  \* locals of seek
  next,       \* history: where each handle plays on
  settled     \* history: the handles a decoder has followed, since one of them
              \* last jumped, failed or was served without its decoder

vars == <<file, len, dec, swr, valid_first, pc, who, offset, size, cur, out,
          time_stamp, prevpts, next, settled>>

request == <<who, offset, size, cur>>
history == <<next, settled>>

Decoders == 1..Cap
IsPts(x) == x # NoPts

Frames == file.frames
Length == file.length
Delay == file.delay
FrameEnd(f) == Min({g \in Frames \cup {Length} : g > f})
Frame(f) == [i \in 1..FrameEnd(f) - f |-> f + i - 1]  \* its samples
LastFrame == Max(Frames)

Init == /\ file \in Files
        /\ len = 1
        /\ dec = [i \in Decoders |-> [pos |-> NoPts, ts |-> 0]]
        /\ swr = [w \in Handles |-> [pos |-> NoPts, buf |-> <<>>, held |-> <<>>]]
        /\ valid_first = NoPts
        /\ pc = "idle"
        /\ who \in Handles /\ offset = 0 /\ size = 0 /\ cur = 1 /\ out = <<>>
        /\ time_stamp = NoPts /\ prevpts = NoPts
        /\ next = [w \in Handles |-> NoPts] /\ settled = {}

-----------------------------------------------------------------------------
\* find_stream.  A decoder without a frame (pts INT64_MIN, no samples) is
\* neither at nor just before any offset.
At(i, t) == IsPts(dec[i].pos) /\ t \in dec[i].pos..FrameEnd(dec[i].pos) - 1

\* The next frame is taken to be as long as this one.
JustBefore(i, t) ==
  /\ IsPts(dec[i].pos)
  /\ t \in FrameEnd(dec[i].pos)..2 * FrameEnd(dec[i].pos) - dec[i].pos - 1

\* Mutant: the decoder used most recently.
MutantMostRecent == {i \in 1..len : \A j \in 1..len : dec[i].ts >= dec[j].ts}
Lru == {i \in 1..len : \A j \in 1..len : dec[i].ts <= dec[j].ts}

\* The first decoder at or just before the offset, else the one used least
\* recently.
Close(t) == {i \in 1..len : At(i, t) \/ JustBefore(i, t)}
Chosen(t) == IF Close(t) # {} THEN Min(Close(t)) ELSE Min(Lru)

Touch(i) ==
  [j \in Decoders |->
     IF j = i
     THEN [dec[j] EXCEPT !.ts = Cardinality({k \in Decoders : dec[k].ts > 0} \cup {i})]
     ELSE [dec[j] EXCEPT !.ts = IF dec[i].ts > 0 /\ @ > dec[i].ts THEN @ - 1 ELSE @]]

Ask(w, t, n) ==
  /\ pc = "idle"
  /\ who' = w /\ offset' = t /\ size' = n
  /\ cur' = Chosen(t)
  /\ dec' = Touch(Chosen(t))
  /\ out' = <<>>
  /\ pc' = "read"
  /\ next' = [next EXCEPT ![w] = t + n]
  /\ settled' = IF t = next[w] THEN settled ELSE {}
  /\ UNCHANGED <<file, len, swr, valid_first, time_stamp, prevpts>>

-----------------------------------------------------------------------------
\* One turn of the loop in stream_read.
ReadPos == offset + Len(out)

Turn == pc = "read" /\ Len(out) < size

\* What is missing is zeroed, after an error as well.
ZeroRest == out' = out \o [i \in 1..size - Len(out) |-> Silence]

GiveUp == /\ ZeroRest
          /\ pc' = "idle"
          /\ settled' = {}
          /\ time_stamp' = NoPts /\ prevpts' = NoPts
          /\ UNCHANGED <<file, len, swr, valid_first, request, next>>

BeforeFirst == IsPts(valid_first) /\ ReadPos < valid_first

\* ... then break: what follows valid_first is zeroed too.
FillHead == Turn /\ BeforeFirst /\ GiveUp /\ UNCHANGED dec

Buffered == LET s == swr[who]
            IN  IsPts(s.pos) /\ ReadPos \in s.pos..s.pos + Len(s.buf) - 1

\* read_buffer
MutantFrom(s) == 0  \* buffer_offset left out
From(s) == ReadPos - s.pos
MutantCount(s, from) == Len(s.buf) - from  \* imin left out
Count(s, from) == Min({size - Len(out), Len(s.buf) - from})

CopyBuffered ==
  /\ Turn /\ ~BeforeFirst /\ Buffered
  /\ LET s == swr[who]
         from == From(s)
     IN  out' = out \o SubSeq(s.buf, from + 1, from + Count(s, from))
  /\ UNCHANGED <<file, len, dec, swr, valid_first, pc, request, time_stamp, prevpts, history>>

\* swr_convert: the resampler takes a frame and gives what it does not hold
\* back.
Convert(s, f, pos) ==
  LET all == s.held \o Frame(f)
      n == IF Len(all) > Delay THEN Len(all) - Delay ELSE 0
  IN  [pos |-> pos, buf |-> SubSeq(all, 1, n), held |-> SubSeq(all, n + 1, Len(all))]

\* convert_frame
ConvertCurrent ==
  /\ Turn /\ ~BeforeFirst /\ ~Buffered
  /\ At(cur, ReadPos)
  /\ swr' = [swr EXCEPT ![who] = Convert(@, dec[cur].pos, dec[cur].pos)]
  /\ UNCHANGED <<file, len, dec, valid_first, pc, request, out, time_stamp, prevpts, history>>

\* grab_next_frame: its position is where the resampler's last output ended,
\* if there was one (INT64_MIN + written is no position).
MoveTo(f) == dec' = [dec EXCEPT ![cur].pos = f]
NextPos == IF IsPts(swr[who].pos) THEN swr[who].pos + Len(swr[who].buf) ELSE NoPts

GrabNext ==
  /\ Turn /\ ~BeforeFirst /\ ~Buffered
  /\ JustBefore(cur, ReadPos)
  /\ dec[cur].pos < LastFrame
  /\ MoveTo(FrameEnd(dec[cur].pos))
  /\ swr' = [swr EXCEPT ![who] = Convert(@, FrameEnd(dec[cur].pos), NextPos)]
  /\ UNCHANGED <<file, len, valid_first, pc, request, out, time_stamp, prevpts, history>>

\* A grab that finds the end of the file leaves no frame.
GrabNextEnd ==
  /\ Turn /\ ~BeforeFirst /\ ~Buffered
  /\ JustBefore(cur, ReadPos)
  /\ dec[cur].pos = LastFrame
  /\ MoveTo(NoPts)
  /\ GiveUp

MustSeek == ~At(cur, ReadPos) /\ ~JustBefore(cur, ReadPos)

BeginSeek ==
  /\ Turn /\ ~BeforeFirst /\ ~Buffered
  /\ MustSeek
  /\ pc' = "seek"
  /\ time_stamp' = ReadPos /\ prevpts' = NoPts
  /\ UNCHANGED <<file, len, dec, swr, valid_first, request, out, history>>

\* All decoders are open, and the one chosen is where the handle plays on.
Followed == len = Cap /\ At(cur, next[who] - 1)

Return ==
  /\ pc = "read"
  /\ Len(out) = size
  /\ pc' = "idle"
  /\ settled' = IF Followed THEN settled \cup {who} ELSE {}
  /\ UNCHANGED <<file, len, dec, swr, valid_first, request, out, time_stamp, prevpts, next>>

-----------------------------------------------------------------------------
\* External: the frame a decoder gives after a seek to t; a time before the
\* start leads to the first frame.
After(f) == IF f = LastFrame THEN NoPts ELSE FrameEnd(f)
Found(t) == Max({f \in Frames : f <= t} \cup {0})
Landing(t) == IF file.drops THEN After(Found(t)) ELSE Found(t)

\* seek: one turn of the loop that goes back until the frame is not behind
\* the sample, or does not move any more before the start.
TooFar(p) == p > ReadPos
MutantGivesUp(p) == FALSE
GivesUp(p) == time_stamp < 0 /\ prevpts = p

SeekBack ==
  /\ pc = "seek"
  /\ LET p == Landing(time_stamp)
     IN  /\ IsPts(p) /\ TooFar(p) /\ ~GivesUp(p)
         /\ MoveTo(p)
         /\ prevpts' = p
  \* every time before 0 leads to the same place
  /\ time_stamp' = IF time_stamp < 0 THEN time_stamp ELSE time_stamp - Second
  /\ UNCHANGED <<file, len, swr, valid_first, pc, request, out, history>>

MutantNewFirst(p) == p  \* noted on every landing
NewFirst(p) == IF TooFar(p) THEN p ELSE valid_first

SeekLands ==
  /\ pc = "seek"
  /\ LET p == Landing(time_stamp)
     IN  /\ IsPts(p)
         /\ TooFar(p) => GivesUp(p)
         /\ MoveTo(p)
         /\ valid_first' = NewFirst(p)
  /\ pc' = "skip"
  /\ time_stamp' = NoPts /\ prevpts' = NoPts
  /\ UNCHANGED <<file, len, swr, request, out, history>>

\* avformat_seek_file refuses a time before the first packet.
SeekRefused == /\ pc = "seek" /\ time_stamp < 0
               /\ GiveUp
               /\ UNCHANGED dec

SeekHitsEnd == /\ pc = "seek"
               /\ ~IsPts(Landing(time_stamp))
               /\ MoveTo(NoPts)
               /\ GiveUp

\* ... and the loop that skips frames that end before the sample.
Skipping == pc = "skip" /\ FrameEnd(dec[cur].pos) <= ReadPos

Skip == /\ Skipping
        /\ dec[cur].pos < LastFrame
        /\ MoveTo(FrameEnd(dec[cur].pos))
        /\ UNCHANGED <<file, len, swr, valid_first, pc, request, out, time_stamp, prevpts, history>>

SkipHitsEnd == /\ Skipping
               /\ dec[cur].pos = LastFrame
               /\ MoveTo(NoPts)
               /\ GiveUp

\* seek_frame: swr_init forgets what was held back.
Flushed(s) == [s EXCEPT !.held = <<>>]

SeekEnds ==
  /\ pc = "skip"
  /\ ~Skipping
  /\ swr' = [swr EXCEPT ![who] = Convert(Flushed(@), dec[cur].pos, dec[cur].pos)]
  /\ pc' = "read"
  /\ UNCHANGED <<file, len, dec, valid_first, request, out, time_stamp, prevpts, history>>

\* Any grab may fail: an error is treated like the end of the file.
Grabbing == \/ Turn /\ ~BeforeFirst /\ ~Buffered /\ JustBefore(cur, ReadPos)
            \/ pc = "seek"
            \/ Skipping

GrabFails == /\ file.damaged
             /\ Grabbing
             /\ MoveTo(NoPts)
             /\ GiveUp

\* create_sub_stream publishes one more decoder.
Opened ==
  /\ len < Cap
  /\ len' = len + 1
  /\ UNCHANGED <<file, dec, swr, valid_first, pc, request, out, time_stamp, prevpts, history>>

Works == \/ FillHead \/ CopyBuffered \/ ConvertCurrent \/ GrabNext \/ GrabNextEnd
         \/ BeginSeek \/ Return \/ SeekBack \/ SeekLands \/ SeekHitsEnd
         \/ Skip \/ SkipHitsEnd \/ SeekEnds
Breaks == SeekRefused \/ GrabFails

Next == \/ \E w \in Handles : \E t \in Reach[w], n \in Sizes : Ask(w, t, n)
        \/ Works
        \/ Breaks
        \/ Opened

Spec == Init /\ [][Next]_vars

(* A call that has begun goes on, on the caller's thread; that something in it
   fails is never taken for granted.                                       *)
FairSpec == Spec /\ WF_vars(Works)

-----------------------------------------------------------------------------
Samples == 0..Length - 1

TypeOK ==
  /\ file \in Files
  /\ len \in Decoders
  /\ dec \in [Decoders -> [pos : Frames \cup {NoPts}, ts : 0..Cap]]
  /\ swr \in [Handles -> [pos : Nat \cup {NoPts}, buf : Seq(Samples),
                          held : Seq(Samples)]]
  /\ \A w \in Handles : Len(swr[w].held) <= Delay
  /\ valid_first \in Frames \cup {NoPts}
  /\ pc \in {"idle", "read", "seek", "skip"}
  /\ who \in Handles /\ offset \in Nat /\ size \in Sizes \cup {0} /\ cur \in 1..len
  /\ out \in Seq(Samples \cup {Silence}) /\ Len(out) <= size
  /\ pc = "skip" => IsPts(dec[cur].pos)

(* When the rate is not converted, every sample that is delivered is the one
   at its place in the file, whichever decoder, frame or buffer it came from
   and whoever has moved the decoder since the resampler was last used.    *)
SamplesInPlace ==
  Delay = 0 => \A i \in 1..Len(out) : out[i] \in {offset + i - 1, Silence}

(* Silence is delivered for what lies after the end only, in a sound file
   that can be decoded from its start.                                     *)
NoNeedlessSilence ==
  pc = "idle" /\ ~file.drops /\ ~file.damaged =>
    \A i \in 1..Len(out) : out[i] = Silence => offset + i - 1 >= Length

(* Every read ends, at the start and the end of files and when decoding fails
   (CHANGELOG lines 69, 117, 134 and 143 tell of endless loops).           *)
ReadEnds == pc # "idle" ~> pc = "idle"

(* README lines 94-100: as many decoders as there are places being played are
   enough.  Once a decoder has followed each handle since one of them last
   jumped, nobody who plays on seeks: the choice by last use has given each a
   decoder of its own.  (A request that the buffer of the resampler serves
   counts as a use of a decoder that is not followed by one, and may cost
   another handle its own; then settled begins anew.)                      *)
NoThrash == [][pc # "seek" /\ pc' = "seek" => settled # Handles]_vars

=============================================================================
