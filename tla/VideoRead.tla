----------------------------- MODULE VideoRead -----------------------------
(***************************************************************************)
(* video_read of video.c: which of the sub-decoders serves a request       *)
(* (find_stream), and how it gets to the frame (seek, the skip loop).      *)
(* SubStreams.tla models how the decoders come to be opened; here one more *)
(* may appear at any time.                                                 *)
(*                                                                         *)
(* Times are in frames: the file has a constant frame rate and a frame's   *)
(* pts is its number.  Decoder times of last use (timespec_get) are kept   *)
(* as ranks, since find_stream only compares them.                         *)
(***************************************************************************)
EXTENDS Integers, FiniteSets, FiniteSetsExt

CONSTANTS
  Cap,        \* v->cap: decoders the object may have
  StartTime,  \* the stream's start_time
  LastPts,    \* the last frame that can be decoded
  Files,      \* the files: their key frames (which are also the entries of
              \* the index), the frames a decoder drops after a seek before it
              \* outputs one, and whether the file is damaged (a file of
              \* whose last GOP nothing can be decoded is)
  Second,     \* one second, in frames (duration1s)
  Near,       \* 15 in find_stream
  Viewers,    \* the timeline objects that show this file
  Reach,      \* the frames each of them asks for
  NoPts,      \* AV_NOPTS_VALUE
  Blank,      \* the picture of fill_blank
  Garbage     \* what scale makes of a frame without data

ASSUME VideoAssumption ==
  /\ Cap \in Nat \ {0} /\ Second \in Nat \ {0} /\ Near \in Nat
  /\ StartTime \in Int /\ LastPts \in Int
  /\ Files \subseteq [keys : (SUBSET (StartTime..LastPts)) \ {{}}, lead : 0..LastPts,
                      damaged : BOOLEAN]
  /\ \A f \in Files : ~f.damaged => \A k \in f.keys : k + f.lead <= LastPts
  /\ NoPts \notin Int /\ Blank \notin Int /\ Garbage \notin Int
  /\ Cardinality({NoPts, Blank, Garbage}) = 3
  /\ \A w \in Viewers : \A t \in Reach[w] : t \in Int /\ t >= StartTime

VARIABLES
  file,         \* the file that is read
  len,          \* decoders opened so far
  dec,          \* per decoder: frame->pts, current_gop_intra_pts, rank of ts
  pc,           \* "idle", "seek" (the loop in seek), "skip" (the skip loops)
  who, req,     \* the viewer being served and target_pts
  cur,          \* the decoder find_stream chose
  seek_target, prevpts,  \* locals of seek
  sought,       \* need_seek of the latest read
  shown,        \* what the latest read gave: a pts, Blank or Garbage
  last,         \* history: the frame each viewer asked for last
  settled       \* history: viewers served since the last jump or failure,
                \* with all decoders open

vars == <<file, len, dec, pc, who, req, cur, seek_target, prevpts, sought,
          shown, last, settled>>

KeyPts == file.keys
Lead == file.lead

Decoders == 1..Cap
Fresh == [pos |-> NoPts, gop |-> NoPts, ts |-> 0]
IsPts(x) == x # NoPts

Init == /\ file \in Files
        /\ len = 1
        /\ dec = [i \in Decoders |-> Fresh]
        /\ pc = "idle" /\ who \in Viewers /\ req = NoPts /\ cur = 1
        /\ seek_target = NoPts /\ prevpts = NoPts
        /\ sought = FALSE /\ shown = Blank
        /\ last = [w \in Viewers |-> NoPts]
        /\ settled = {}

-----------------------------------------------------------------------------
\* External: where libavformat and the decoder get after a seek.  A time
\* before the first key frame leads to the first key frame.
KeysUpTo(t) == {k \in KeyPts : k <= t}
Landing(t) == Lead + IF KeysUpTo(t) = {} THEN Min(KeyPts) ELSE Max(KeysUpTo(t))

FirstShown == Min(KeyPts) + Lead

-----------------------------------------------------------------------------
\* find_stream.  A decoder without a frame has pts INT64_MIN: it is before
\* every target, and the difference to it wraps to a negative number.
Exact(t) == {i \in 1..len : dec[i].pos = t}

Behind(t) == {i \in 1..len : /\ IsPts(dec[i].gop)
                             /\ IsPts(dec[i].pos)
                             /\ dec[i].pos < t}
Nearest(t) == {i \in Behind(t) : /\ \A j \in Behind(t) : dec[j].pos <= dec[i].pos
                                 /\ t - dec[i].pos < Near}

MutantAnywhereInGop(t) ==  \* a decoder past the target counts as well
  {i \in 1..len : /\ Cardinality(KeyPts) > 1
                  /\ KeysUpTo(t) # {}
                  /\ dec[i].gop = Max(KeysUpTo(t))}
SameGop(t) ==
  {i \in 1..len : /\ Cardinality(KeyPts) > 1
                  /\ KeysUpTo(t) # {}
                  /\ dec[i].gop = Max(KeysUpTo(t))
                  /\ IsPts(dec[i].pos) => dec[i].pos <= t}

MutantMostRecent == {i \in 1..len : \A j \in 1..len : dec[j].ts <= dec[i].ts}
Lru == {i \in 1..len : \A j \in 1..len : dec[i].ts <= dec[j].ts}

\* The first decoder with the frame, the nearest one before it, the last one
\* of the same GOP (gap keeps its first value), the least recently used.
Chosen(t) == IF Exact(t) # {} THEN Min(Exact(t))
             ELSE IF Nearest(t) # {} THEN Min(Nearest(t))
             ELSE IF SameGop(t) # {} THEN Max(SameGop(t))
             ELSE Min(Lru)

NeedSeek(t) == Exact(t) = {} /\ Nearest(t) = {} /\ SameGop(t) = {}

\* stream->ts = ts: i becomes the most recently used.
Touch(i) ==
  [j \in Decoders |->
     IF j = i
     THEN [dec[j] EXCEPT !.ts = Cardinality({k \in Decoders : dec[k].ts > 0} \cup {i})]
     ELSE [dec[j] EXCEPT !.ts = IF dec[i].ts > 0 /\ @ > dec[i].ts THEN @ - 1 ELSE @]]

\* External: AviUtl asks for the frames of a file in any order.  A damaged
\* file has a duration that counts frames after the last one.
Wanted(w) == {t \in Reach[w] : t <= LastPts \/ file.damaged}

PlaysOn(w, t) == IsPts(last[w]) /\ t \in {last[w], last[w] + 1}

Ask(w, t) ==
  /\ pc = "idle"
  /\ t \in Wanted(w)
  /\ who' = w /\ req' = t
  /\ cur' = Chosen(t)
  /\ sought' = NeedSeek(t)
  /\ dec' = Touch(Chosen(t))
  /\ pc' = IF NeedSeek(t) THEN "seek" ELSE "skip"
  /\ seek_target' = t /\ prevpts' = NoPts
  /\ last' = [last EXCEPT ![w] = t]
  /\ settled' = IF len < Cap THEN {}
                ELSE IF PlaysOn(w, t) THEN settled \cup {w} ELSE {w}
  /\ UNCHANGED <<file, len, shown>>

-----------------------------------------------------------------------------
\* One turn of the loop in seek.  After a grab that fails the decoder has no
\* frame any more; its current_gop_intra_pts stays.
Finish(picture) == /\ pc' = "idle"
                   /\ shown' = picture
                   /\ settled' = IF picture \in {Blank, Garbage} THEN {} ELSE settled
                   /\ UNCHANGED <<file, len, who, req, cur, seek_target,
                                  prevpts, sought, last>>

TooFar(p) == p > req

MutantGivesUp(p) == FALSE  \* rewinds as long as the landing is too far
GivesUp(p) == seek_target < StartTime /\ prevpts = p

LandsOn(p) == [dec EXCEPT ![cur].pos = p]

\* if (ffmpeg_is_key_frame(frame)) current_gop_intra_pts = frame->pts
MutantArrivesAt(p) == [dec EXCEPT ![cur].pos = p]
MutantEveryFrameIsKey(p) == [dec EXCEPT ![cur].pos = p, ![cur].gop = p]
ArrivesAt(p) == [dec EXCEPT ![cur].pos = p, ![cur].gop = IF p \in KeyPts THEN p ELSE @]

LosesFrame == [dec EXCEPT ![cur].pos = NoPts]

SeekBack ==
  /\ pc = "seek"
  /\ LET p == Landing(seek_target)
     IN  /\ p <= LastPts
         /\ TooFar(p) /\ ~GivesUp(p)
         /\ dec' = LandsOn(p)
         /\ prevpts' = p
  \* every time before StartTime leads to the same place
  /\ seek_target' = IF seek_target < StartTime THEN seek_target
                                               ELSE seek_target - Second
  /\ UNCHANGED <<file, len, pc, who, req, cur, sought, shown, last, settled>>

SeekLands ==
  /\ pc = "seek"
  /\ LET p == Landing(seek_target)
     IN  /\ p <= LastPts
         /\ TooFar(p) => GivesUp(p)
         /\ dec' = ArrivesAt(p)
  /\ pc' = "skip"
  /\ UNCHANGED <<file, len, who, req, cur, seek_target, prevpts, sought, shown,
                 last, settled>>

SeekHitsEnd ==
  /\ pc = "seek"
  /\ Landing(seek_target) > LastPts
  /\ dec' = LosesFrame
  /\ Finish(Blank)

\* ffmpeg_seek refuses a time before the first key frame.
SeekFails ==
  /\ pc = "seek"
  /\ KeysUpTo(seek_target) = {}
  /\ UNCHANGED dec
  /\ Finish(Blank)

\* The skip loops (the one in seek and the one in video_read).
Skipping == pc = "skip" /\ IsPts(dec[cur].pos) /\ dec[cur].pos < req

Skip ==
  /\ Skipping
  /\ dec[cur].pos < LastPts
  /\ dec' = ArrivesAt(dec[cur].pos + 1)
  /\ UNCHANGED <<file, len, pc, who, req, cur, seek_target, prevpts, sought, shown,
                 last, settled>>

\* Only the loop in video_read forgets the GOP at the end of the file.
SkipHitsEnd ==
  /\ Skipping
  /\ dec[cur].pos = LastPts
  /\ dec' = IF sought THEN LosesFrame
                      ELSE [dec EXCEPT ![cur].pos = NoPts, ![cur].gop = NoPts]
  /\ Finish(Blank)

GrabFails ==
  /\ file.damaged
  /\ pc = "seek" \/ Skipping
  /\ dec' = LosesFrame
  /\ Finish(Blank)

\* scale: the picture the decoder holds, if it holds one.
Show ==
  /\ pc = "skip"
  /\ ~Skipping
  /\ UNCHANGED dec
  /\ Finish(IF IsPts(dec[cur].pos) THEN dec[cur].pos ELSE Garbage)

\* create_sub_stream publishes one more decoder.
Opened ==
  /\ len < Cap
  /\ len' = len + 1
  /\ UNCHANGED <<file, dec, pc, who, req, cur, seek_target, prevpts, sought, shown,
                 last, settled>>

Works == SeekBack \/ SeekLands \/ SeekHitsEnd \/ Skip \/ SkipHitsEnd \/ Show
Breaks == SeekFails \/ GrabFails

Next == \/ \E w \in Viewers : \E t \in Reach[w] : Ask(w, t)
        \/ Works
        \/ Breaks
        \/ Opened

Spec == Init /\ [][Next]_vars

(* A call that has begun goes on, on the caller's thread; that something in
   it fails is never taken for granted.                                    *)
FairSpec == Spec /\ WF_vars(Works)

-----------------------------------------------------------------------------
Pts == (Min(KeyPts)..LastPts) \cup {NoPts}

TypeOK ==
  /\ file \in Files
  /\ len \in Decoders
  /\ dec \in [Decoders -> [pos : Pts, gop : KeyPts \cup {NoPts}, ts : 0..Cap]]
  /\ pc \in {"idle", "seek", "skip"}
  /\ who \in Viewers
  /\ req \in (UNION {Reach[w] : w \in Viewers}) \cup {NoPts}
  /\ cur \in 1..len
  /\ sought \in BOOLEAN
  /\ shown \in (Pts \ {NoPts}) \cup {Blank, Garbage}
  /\ settled \subseteq Viewers

\* One second back from behind a later key frame is never before the first one
\* (where the decoder drops nothing, nobody goes back from there).
Spaced == Lead = 0 \/ \A k \in KeyPts : k = Min(KeyPts) \/ k >= Min(KeyPts) + Second

(* A read of a sound file shows the frame that was asked for, whatever was
   read before, by whomever and on however many decoders; before the first
   frame that can be decoded it shows that one, or nothing when the seek fails.
   Where a GOP begins less than a second after the first one, going back from
   it may also lead to a time that ffmpeg_seek refuses.                     *)
RightFrame ==
  pc = "idle" /\ IsPts(req) /\ ~file.damaged =>
    IF req >= FirstShown THEN shown = req \/ (shown = Blank /\ ~Spaced)
                         ELSE shown \in {FirstShown, Blank}

\* The file begins with a key frame, and the decoder drops nothing after it.
BeginsWithKey == Lead = 0 /\ StartTime \in KeyPts

(* When the decoder drops nothing and the file begins with a key frame,
   current_gop_intra_pts names the GOP of the decoder's frame, also after
   errors: a decoder that was moved elsewhere is not taken for one of the old
   GOP.  (Where the first key frame comes later, a seek that fails on its
   second turn leaves the decoder moved and the old GOP noted.)             *)
GopTrue ==
  BeginsWithKey => \A i \in 1..len :
    IsPts(dec[i].pos) /\ (pc = "seek" => i # cur) =>
      dec[i].gop = Max(KeysUpTo(dec[i].pos))

(* README lines 94-100: as many decoders as viewers are enough for them not
   to slow each other down.  Once each of them has been served since somebody
   last jumped or failed, a viewer that plays on does not seek.  (A decoder
   that drops frames after a seek lands behind the key frame, knows no GOP and
   is never the nearest: for such files this is not so, nor where a seek before
   the first key frame left it at that one.  Nor is it so for viewers that
   meet: one may then take the decoder of the other; Reach keeps them apart.) *)
Starts == pc = "idle" /\ pc' # "idle"
NoThrash ==
  [][Starts /\ BeginsWithKey /\ settled = Viewers /\ PlaysOn(who', req') => ~sought']_vars

(* Every read ends, also in a damaged file and in one whose beginning cannot
   be decoded (CHANGELOG lines 26 and 117 tell of endless seeks).          *)
ReadEnds == pc # "idle" ~> pc = "idle"

=============================================================================
