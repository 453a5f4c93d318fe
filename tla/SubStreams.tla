----------------------------- MODULE SubStreams -----------------------------
(***************************************************************************)
(* The sub-decoders of struct video and struct audio (video.c, audio.c).   *)
(* Both keep an array of decoders of one file: video_create opens the      *)
(* first, the first read starts a thread that opens the others one by one, *)
(* and a read uses any decoder opened so far.                              *)
(*                                                                         *)
(* Two processes: the owner, which creates, reads and destroys, and the    *)
(* thread create_sub_stream.  v->mtx guards len and status; a critical     *)
(* section is one step.  Everything else, the slots above all, is touched  *)
(* outside the lock, step by step.                                         *)
(***************************************************************************)
EXTENDS Naturals

CONSTANT Cap  \* v->cap, the "number of streams" setting

ASSUME CapAssumption == Cap \in Nat \ {0}

VARIABLES
  slots,   \* v->streams: "raw", "blank", "half" (inside ffmpeg_open), "open"
           \* or "closed"
  len,     \* v->len: the decoders open for use
  status,  \* v->status: "nothread", "running" or "closing"
  owner,   \* where the owner is
  seen,    \* num_stream, the owner's copy of len in find_stream
  at,      \* the slot the owner is touching
  sub,     \* where the thread is
  mine     \* the thread's copy of len: it fills slot mine + 1

vars == <<slots, len, status, owner, seen, at, sub, mine>>

Slots == 1..Cap

Init == /\ slots = [i \in Slots |-> "raw"]
        /\ len = 0
        /\ status = "nothread"
        /\ owner = "creating"
        /\ seen = 0 /\ at = 1
        /\ sub = "none" /\ mine = 0

-----------------------------------------------------------------------------
\* video_create, audio_create: the first decoder is opened by the owner.
\* When what follows fails (sws_getContext, audioidx_create) the object is
\* destroyed again.
Create(ok) ==
  /\ owner = "creating"
  /\ slots' = [slots EXCEPT ![1] = "open"]
  /\ len' = 1
  /\ owner' = IF ok THEN "idle" ELSE "closing"
  /\ UNCHANGED <<status, seen, at, sub, mine>>

CreateFails ==
  /\ owner = "creating"
  /\ slots' = [slots EXCEPT ![1] = "blank"]
  /\ owner' = "closing"
  /\ UNCHANGED <<len, status, seen, at, sub, mine>>

\* find_stream, under the lock: copy len, start the thread once.
MutantSnapshot == Cap  \* searches v->cap decoders
Snapshot == len

MayStart == status = "nothread" /\ Cap > 1

Find(started) ==
  /\ owner = "idle"
  /\ seen' = Snapshot
  /\ owner' = "scan"
  /\ at' = 1
  /\ started => MayStart
  /\ IF started
     THEN status' = "running" /\ sub' = "check"
     ELSE UNCHANGED <<status, sub>>
  /\ UNCHANGED <<slots, len, mine>>

\* find_stream, without the lock: the loops look at decoders up to num_stream.
Scan(i) ==
  /\ owner = "scan"
  /\ i \in 1..seen
  /\ at' = i
  /\ UNCHANGED <<slots, len, status, owner, seen, sub, mine>>

\* ... and the decoder chosen seeks and decodes.
Read == /\ owner = "scan"
        /\ owner' = "read"
        /\ UNCHANGED <<slots, len, status, seen, at, sub, mine>>

ReadDone == /\ owner = "read"
            /\ owner' = "idle"
            /\ UNCHANGED <<slots, len, status, seen, at, sub, mine>>

\* video_destroy, audio_destroy: a running thread is told to stop, joined, and
\* only then the decoders are closed.
Destroy == /\ owner = "idle"
           /\ owner' = "closing"
           /\ UNCHANGED <<slots, len, status, seen, at, sub, mine>>

TellToClose ==
  /\ owner = "closing"
  /\ IF status = "running"
     THEN status' = "closing" /\ owner' = "joining"
     ELSE owner' = "freeing" /\ UNCHANGED status
  /\ at' = 1
  /\ UNCHANGED <<slots, len, seen, sub, mine>>

MutantJoined == status = "closing"  \* thrd_join left out
Joined == sub = "done"

Join == /\ owner = "joining"
        /\ Joined
        /\ owner' = "freeing"
        /\ UNCHANGED <<slots, len, status, seen, at, sub, mine>>

\* ffmpeg_close for the decoders below len, one at a time.
MutantToClose == seen  \* num_stream of the last read
ToClose == len

CloseOne == /\ owner = "freeing"
            /\ at <= ToClose
            /\ slots' = [slots EXCEPT ![at] = "closed"]
            /\ at' = at + 1
            /\ UNCHANGED <<len, status, owner, seen, sub, mine>>

Free == /\ owner = "freeing"
        /\ at > ToClose
        /\ owner' = "gone"
        /\ UNCHANGED <<slots, len, status, seen, at, sub, mine>>

-----------------------------------------------------------------------------
\* create_sub_stream: the loop head, under the lock.
MutantNoCapacity == status = "closing"  \* cap == len is not tested
MustStop == status = "closing" \/ len = Cap

Check == /\ sub = "check"
         /\ mine' = len
         /\ sub' = IF MustStop THEN "done" ELSE "clear"
         /\ UNCHANGED <<slots, len, status, owner, seen, at>>

Target == mine + 1

Clear == /\ sub = "clear"
         /\ slots' = [slots EXCEPT ![Target] = "blank"]
         /\ sub' = "open"
         /\ UNCHANGED <<len, status, owner, seen, at, mine>>

OpenBegins == /\ sub = "open"
              /\ slots' = [slots EXCEPT ![Target] = "half"]
              /\ sub' = "opening"
              /\ UNCHANGED <<len, status, owner, seen, at, mine>>

\* A failed ffmpeg_open has closed whatever it opened; the thread gives up.
MutantOpenEnds(ok) ==  \* it tries again at once
  /\ sub = "opening"
  /\ slots' = [slots EXCEPT ![Target] = IF ok THEN "open" ELSE "blank"]
  /\ sub' = IF ok THEN "publish" ELSE "clear"
  /\ UNCHANGED <<len, status, owner, seen, at, mine>>
OpenEnds(ok) ==
  /\ sub = "opening"
  /\ slots' = [slots EXCEPT ![Target] = IF ok THEN "open" ELSE "blank"]
  /\ sub' = IF ok THEN "publish" ELSE "done"
  /\ UNCHANGED <<len, status, owner, seen, at, mine>>

Publish == /\ sub = "publish"
           /\ len' = len + 1
           /\ sub' = "check"
           /\ UNCHANGED <<slots, status, owner, seen, at, mine>>

-----------------------------------------------------------------------------
\* The object is gone and its thread has returned.
Over == /\ owner = "gone"
        /\ sub \in {"none", "done"}
        /\ UNCHANGED vars

InCall == \/ \E ok \in BOOLEAN : Create(ok)
          \/ CreateFails
          \/ \E i \in Slots : Scan(i)
          \/ Read
          \/ ReadDone
          \/ TellToClose
          \/ Join
          \/ CloseOne
          \/ Free

Thread == \/ Check
          \/ Clear
          \/ OpenBegins
          \/ \E ok \in BOOLEAN : OpenEnds(ok)
          \/ Publish

Next == \/ InCall
        \/ \E started \in BOOLEAN : Find(started)
        \/ Destroy
        \/ Thread
        \/ Over

Spec == Init /\ [][Next]_vars

(* The operating system runs both threads, and ffmpeg_open returns.  The
   steps of a call the owner has made are taken; whether AviUtl makes
   another call is its own affair.                                         *)
FairSpec == /\ Spec
            /\ WF_vars(Thread)
            /\ WF_vars(TellToClose) /\ WF_vars(Join)
            /\ WF_vars(CloseOne) /\ WF_vars(Free)

-----------------------------------------------------------------------------
TypeOK ==
  /\ slots \in [Slots -> {"raw", "blank", "half", "open", "closed"}]
  /\ len \in 0..Cap
  /\ status \in {"nothread", "running", "closing"}
  /\ owner \in {"creating", "idle", "scan", "read", "closing", "joining",
                "freeing", "gone"}
  /\ seen \in 0..Cap
  /\ at \in 1..Cap + 1
  /\ sub \in {"none", "check", "clear", "open", "opening", "publish", "done"}
  /\ mine \in 0..Cap

(* A reader never touches the slot the thread is filling: what find_stream
   looks at outside the lock is an open decoder.                           *)
Filling(i) == sub \in {"clear", "open", "opening"} /\ i = Target

NoSlotRace ==
  owner \in {"scan", "read"} => slots[at] = "open" /\ ~Filling(at)

(* Nothing is closed or freed under the thread: once the owner has started
   to close decoders the thread has returned.                              *)
NoUseAfterFree == owner \in {"freeing", "gone"} => sub \in {"none", "done"}

(* No decoder outlives its object, even one the thread finished opening after
   the owner had decided to destroy it.                                    *)
NoLeak == owner = "gone" => \A i \in Slots : slots[i] \notin {"open", "half"}

(* What has been handed out stays: until it is closed with its object, a
   decoder below len is not opened over, cleared or closed by anyone.      *)
KeepsPublished ==
  owner # "freeing" => /\ len' >= len
                       /\ \A i \in 1..len : slots'[i] = slots[i]
PublishedStays == [][KeepsPublished]_vars

(* A destroy that has begun ends, whatever the thread is doing. *)
DestroyEnds == owner = "closing" ~> owner = "gone"

(* The inductive invariant: which slots are in which state, given where the
   two processes are.                                                      *)
SlotStates ==
  /\ owner \notin {"freeing", "gone"} => \A i \in 1..len : slots[i] = "open"
  /\ owner = "freeing" =>
       \A i \in 1..len : slots[i] = IF i < at THEN "closed" ELSE "open"
  /\ owner = "gone" => \A i \in 1..len : slots[i] = "closed"
  /\ \A i \in Slots : i > len /\ slots[i] \in {"open", "half"} =>
       /\ i = Target
       /\ sub = IF slots[i] = "open" THEN "publish" ELSE "opening"
  /\ sub = "publish" => slots[Target] = "open"

ThreadBehind ==
  /\ sub \in {"clear", "open", "opening", "publish"} => mine = len /\ len < Cap
  /\ sub # "none" => status # "nothread" /\ len >= 1
  /\ (status = "closing")
       <=> (owner = "joining" \/ (owner \in {"freeing", "gone"} /\ sub # "none"))
  /\ (sub = "none") <=> (status = "nothread")
  /\ owner = "creating" => sub = "none" /\ len = 0 /\ slots[1] = "raw"
  /\ owner \in {"idle", "scan", "read"} => len >= 1

SeenOpen == /\ owner \in {"scan", "read"} => at \in 1..seen /\ seen <= len
            /\ owner = "joining" => at = 1

IInv == TypeOK /\ SlotStates /\ ThreadBehind /\ SeenOpen /\ NoUseAfterFree

=============================================================================
