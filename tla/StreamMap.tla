----------------------------- MODULE StreamMap -----------------------------
(***************************************************************************)
(* The stream map of stream.c: the table from the integer handles AviUtl   *)
(* holds to the streams (an open file with its decoders) behind them.      *)
(* Depending on the handle management mode a stream is private to one      *)
(* handle (chmm_normal), shared by reference count between the handles on  *)
(* the same file (chmm_cache), or kept open in a small pool after its      *)
(* handle is closed (chmm_pool).                                           *)
(*                                                                         *)
(* The calls come from one thread (AviUtl's, or the bridge server's        *)
(* message thread), so one call is one action, with one exception: an open *)
(* that creates a stream resolves its path twice, once to look for a       *)
(* stream to reuse and once to open the file, and is two actions.  The     *)
(* file system is an external actor: it renames and rewrites files that no *)
(* stream holds open (streams are opened with FILE_SHARE_READ only; the    *)
(* lookup opens the path without access and shares everything).            *)
(***************************************************************************)
EXTENDS Integers, FiniteSets

CONSTANTS Paths,       \* file paths AviUtl passes to func_open
          Files,       \* file identities (struct fileid)
          NoFile,      \* the zeroed fileid; also what a dangling path names
          Streams,     \* heap addresses a struct stream may get
          NoStream,    \* NULL
          Postfixed,   \* the paths whose name ends in "-ffmpeg"
          Mode,        \* handle_manage_mode: "normal", "cache" or "pool"
          NeedPostfix, \* need_postfix
          KeepLength,  \* capacity of the pool (keep_length, 4 in the code)
          MaxKey,      \* bound: handles issued in one run
          MaxVer,      \* bound: versions of a file's content
          Times        \* bound: clock readings (timespec_get, any order)

ASSUME ConstantsAssumption ==
  /\ NoFile \notin Files
  /\ NoStream \notin Streams
  /\ Postfixed \subseteq Paths
  /\ Mode \in {"normal", "cache", "pool"}
  /\ NeedPostfix \in BOOLEAN
  /\ KeepLength \in Nat \ {0}
  /\ MaxKey \in Nat
  /\ MaxVer \in Nat \ {0}
  /\ Times \subseteq Nat \ {0}

VARIABLES
  fs,           \* external: the file each path names
  ver,          \* external: the version of each file's content
  heap,         \* struct stream per address; refcount 0 = not allocated
  map,          \* smp->map: struct streamitem per key
  key_index,    \* smp->key_index
  pool,         \* smp->pool: struct poolitem per slot
  pool_length,  \* smp->pool_length
  phase,        \* "ready" from func_init to func_exit, then "exited"
  pending,      \* the open that found nothing to reuse and is about to create
  orphan,       \* history: stream of a key whose hmset failed
  via           \* history: the path each open handle was opened with

vars == <<fs, ver, heap, map, key_index, pool, pool_length, phase, pending,
          orphan, via>>

Keys == 1..MaxKey
Slots == 1..KeepLength
Versions == 1..MaxVer

(* struct info_video / info_audio: the content version they were read from,
   0 when the probe failed and the struct stayed zeroed.                   *)
Info == 0..MaxVer

\* (stray is history, kept in the cache mode: the path named another file
\* when the map was searched for it.)
Freed == [refcount |-> 0, file |-> NoFile, v |-> FALSE, a |-> FALSE,
          vi |-> 0, ai |-> 0, stray |-> FALSE]
NoItem == [stream |-> NoStream, resampler |-> FALSE]
EmptySlot == [fid |-> NoFile, used_at |-> 0, stream |-> NoStream]

Live(s) == heap[s].refcount > 0

\* The thread is in none of the calls.
Idle == phase = "ready" /\ pending = {}

\* CreateFileW(GENERIC_READ, FILE_SHARE_READ): nobody may write, rename or
\* delete a file while a stream has it open.
MutantSharedWrite(f) == FALSE  \* FILE_SHARE_WRITE and FILE_SHARE_DELETE added
HeldOpen(f) == \E s \in Streams : Live(s) /\ heap[s].file = f

-----------------------------------------------------------------------------
\* (Definitions named Mutant... are wrong variants of the definition that
\* follows them; no specification uses them.)

\* stream_destroy: drop one reference, free the stream with the last one.
MutantReleaseFrees(h, s) == [h EXCEPT ![s] = Freed]
Release(h, s) ==
  IF h[s].refcount > 1 THEN [h EXCEPT ![s].refcount = @ - 1]
                       ELSE [h EXCEPT ![s] = Freed]

\* isold(a, b): a is newer than b.
Newer(a, b) == a > b

\* The scans of find_from_pool and add_to_pool: of the slots in S, the first
\* one with the smallest used_at.
MutantLatest(i, S) == i \in S /\ \A j \in S : ~Newer(pool[j].used_at, pool[i].used_at)
Oldest(i, S) ==
  /\ i \in S
  /\ \A j \in S : /\ ~Newer(pool[i].used_at, pool[j].used_at)
                  /\ j < i => Newer(pool[j].used_at, pool[i].used_at)

\* find_from_pool: the slots with this file id.
MutantAnyPoolHit(f) == {i \in 1..pool_length : pool[i].stream # NoStream}
PoolHits(f) == {i \in 1..pool_length : pool[i].fid = f}

MutantKeepSlot(i) == pool
TakeSlot(i) == [pool EXCEPT ![i] = EmptySlot]

\* add_to_pool: the first unused slot, else the oldest one.
Unused == {i \in 1..pool_length : pool[i].stream = NoStream}
IsTarget(i) ==
  \/ i \in Unused /\ \A j \in Unused : i <= j
  \/ Unused = {} /\ Oldest(i, 1..pool_length)

\* config_get_handle_manage_mode(smp->config) == chmm_cache
MayShare == Mode = "cache"

\* find_map: the streams of the map that have this file open.
MutantFirstItemOnly(f) ==
  {s \in Streams : /\ heap[s].file = f
                   /\ \E k \in Keys : /\ map[k].stream = s
                                     /\ \A j \in Keys : j < k => map[j] = NoItem}
MapHits(f) == {s \in Streams : /\ heap[s].file = f
                               /\ \E k \in Keys : map[k].stream = s}

-----------------------------------------------------------------------------
\* streammap_create: the configuration is read once, here; only the pool mode
\* allocates a pool.
Init == /\ fs \in [Paths -> Files \cup {NoFile}]
        /\ ver = [f \in Files |-> 1]
        /\ heap = [s \in Streams |-> Freed]
        /\ map = [k \in Keys |-> NoItem]
        /\ key_index = 0
        /\ pool = [i \in Slots |-> EmptySlot]
        /\ pool_length = IF Mode = "pool" THEN KeepLength ELSE 0
        /\ phase = "ready"
        /\ pending = {}
        /\ orphan = [k \in Keys |-> NoStream]
        /\ via = [k \in Keys |-> NoFile]

\* The hmset at the end of streammap_create_stream: the key is used up even
\* when the insertion fails, and then nothing refers to s any more.
Insert(s, p, stored) ==
  /\ key_index < MaxKey
  /\ key_index' = key_index + 1
  /\ IF stored
     THEN /\ map' = [map EXCEPT ![key_index + 1] =
                       [stream |-> s, resampler |-> FALSE]]
          /\ via' = [via EXCEPT ![key_index + 1] = p]
          /\ UNCHANGED orphan
     ELSE /\ orphan' = [orphan EXCEPT ![key_index + 1] = s]
          /\ UNCHANGED <<map, via>>

\* streammap_create_stream, pool hit: the stream moves out of its slot.
OpenFromPool(p, stored) ==
  /\ Idle
  /\ fs[p] \in Files
  /\ \E i \in PoolHits(fs[p]) :
       /\ Oldest(i, PoolHits(fs[p]))
       /\ Insert(pool[i].stream, p, stored)
       /\ pool' = TakeSlot(i)
  /\ UNCHANGED <<fs, ver, heap, pool_length, phase, pending>>

\* streammap_create_stream, cache hit: the handle shares the stream.
OpenFromMap(p, stored) ==
  /\ Idle
  /\ MayShare
  /\ fs[p] \in Files
  /\ \E s \in MapHits(fs[p]) :
       /\ Insert(s, p, stored)
       /\ heap' = [heap EXCEPT ![s].refcount = @ + 1]
  /\ UNCHANGED <<fs, ver, pool, pool_length, phase, pending>>

MustCreate(f) == /\ PoolHits(f) = {}
                 /\ MayShare => MapHits(f) = {}

\* streammap_create_stream, nothing to reuse: with a pool or in the cache mode
\* the path was resolved to search for it, and a path that names nothing
\* failed there; now stream_create is called.
Searches == pool_length > 0 \/ MayShare

Lookup(p) ==
  /\ Idle
  /\ key_index < MaxKey  \* bound
  /\ Searches => fs[p] \in Files
  /\ MustCreate(fs[p])
  /\ pending' = {[path |-> p, file |-> fs[p]]}
  /\ UNCHANGED <<fs, ver, heap, map, key_index, pool, pool_length, phase,
                 orphan, via>>

\* stream_create: a stream whose file is open; the probes for video and
\* audio fill vi and ai and are closed again, and one of them must succeed.
MutantErrorCodeAsInfo(f, stray, hasVideo, hasAudio) ==
  [refcount |-> 1, file |-> f, v |-> FALSE, a |-> FALSE,
   vi |-> IF hasVideo THEN ver[f] ELSE -1,
   ai |-> IF hasAudio THEN ver[f] ELSE -1, stray |-> stray]
NewStream(f, stray, hasVideo, hasAudio) ==
  [refcount |-> 1, file |-> f, v |-> FALSE, a |-> FALSE,
   vi |-> IF hasVideo THEN ver[f] ELSE 0,
   ai |-> IF hasAudio THEN ver[f] ELSE 0, stray |-> stray]

\* The option by which only files named *-ffmpeg are opened.
Permitted(p) == NeedPostfix => p \in Postfixed

\* Between the two resolutions the path was relinked.
Moved(c) == fs[c.path] # c.file

\* The path is resolved again here; it may name another file by now.  From
\* the opening of the file on nobody can touch it, so the rest of
\* stream_create and the hmset belong to the same step.
OpenNew(c, s, hasVideo, hasAudio, stored) ==
  /\ fs[c.path] \in Files
  /\ Permitted(c.path)
  /\ hasVideo \/ hasAudio
  /\ ~Live(s)
  /\ Insert(s, c.path, stored)
  /\ heap' = [heap EXCEPT ![s] = NewStream(fs[c.path], MayShare /\ Moved(c),
                                          hasVideo, hasAudio)]
  /\ pending' = {}
  /\ UNCHANGED <<fs, ver, pool, pool_length, phase>>

\* stream_create fails: the name, the file, memory or both probes.
OpenGivesUp ==
  /\ pending # {}
  /\ pending' = {}
  /\ UNCHANGED <<fs, ver, heap, map, key_index, pool, pool_length, phase,
                 orphan, via>>

Reuse(p, stored) == OpenFromPool(p, stored) \/ OpenFromMap(p, stored)

Create(c, stored) ==
  \E s \in Streams, hasVideo, hasAudio \in BOOLEAN :
    OpenNew(c, s, hasVideo, hasAudio, stored)

-----------------------------------------------------------------------------
\* streammap_free_stream without a pool, or when add_to_pool fails: the item
\* leaves the map, its resampler goes, its reference is dropped.
CloseAndRelease(k) ==
  /\ Idle
  /\ map[k] # NoItem
  /\ map' = [map EXCEPT ![k] = NoItem]
  /\ via' = [via EXCEPT ![k] = NoFile]
  /\ heap' = Release(heap, map[k].stream)
  /\ UNCHANGED <<fs, ver, key_index, pool, pool_length, phase, pending, orphan>>

\* streammap_free_stream with a pool: the stream moves to a slot, the stream
\* it displaces is destroyed.
Pooled(s, t) == [fid |-> heap[s].file, used_at |-> t, stream |-> s]

CloseToPool(k, t) ==
  /\ Idle
  /\ pool_length > 0
  /\ map[k] # NoItem
  /\ map' = [map EXCEPT ![k] = NoItem]
  /\ \E i \in 1..pool_length :
       /\ IsTarget(i)
       /\ pool' = [pool EXCEPT ![i] = Pooled(map[k].stream, t)]
       /\ heap' = IF pool[i].stream = NoStream
                  THEN heap
                  ELSE Release(heap, pool[i].stream)
  /\ via' = [via EXCEPT ![k] = NoFile]
  /\ UNCHANGED <<fs, ver, key_index, pool_length, phase, pending, orphan>>

Close(k) == CloseAndRelease(k) \/ \E t \in Times : CloseToPool(k, t)

\* streammap_read_video: the video decoder is opened by the first read.
ReadVideo(k) ==
  /\ Idle
  /\ map[k] # NoItem
  /\ ~heap[map[k].stream].v
  /\ heap' = [heap EXCEPT ![map[k].stream].v = TRUE]
  /\ UNCHANGED <<fs, ver, map, key_index, pool, pool_length, phase, pending,
                 orphan, via>>

\* streammap_read_audio: the audio decoder is opened if need be, then this
\* handle's own resampler is made for the sample rate in ai (a zeroed ai is
\* refused by resampler_create) and stored back into the map.
ReadAudio(k, resampled) ==
  /\ Idle
  /\ map[k] # NoItem
  /\ ~map[k].resampler
  /\ resampled => heap[map[k].stream].ai # 0
  /\ heap' = [heap EXCEPT ![map[k].stream].a = TRUE]
  /\ map' = [map EXCEPT ![k].resampler = resampled]
  /\ UNCHANGED <<fs, ver, key_index, pool, pool_length, phase, pending,
                 orphan, via>>

\* streammap_destroy: the pool's streams and the map's streams lose the
\* references the pool and the map hold.
InMap(s) == {k \in Keys : map[k].stream = s}
InPool(s) == {i \in Slots : pool[i].stream = s}
Held(s) == Cardinality(InMap(s)) + Cardinality(InPool(s))

Exit ==
  /\ Idle
  /\ phase' = "exited"
  /\ heap' = [s \in Streams |->
                IF heap[s].refcount > Held(s)
                THEN [heap[s] EXCEPT !.refcount = @ - Held(s)]
                ELSE Freed]
  /\ map' = [k \in Keys |-> NoItem]
  /\ pool' = [i \in Slots |-> EmptySlot]
  /\ pool_length' = 0
  /\ via' = [k \in Keys |-> NoFile]
  /\ UNCHANGED <<fs, ver, key_index, pending, orphan>>

-----------------------------------------------------------------------------
\* The rest of the system rewrites or renames files nobody holds open.
Rewrite(f) ==
  /\ ~HeldOpen(f)
  /\ ver[f] < MaxVer
  /\ ver' = [ver EXCEPT ![f] = @ + 1]
  /\ UNCHANGED <<fs, heap, map, key_index, pool, pool_length, phase, pending,
                 orphan, via>>

Relink(p, f) ==
  /\ f # fs[p]
  /\ fs[p] \in Files => ~HeldOpen(fs[p])
  /\ fs' = [fs EXCEPT ![p] = f]
  /\ UNCHANGED <<ver, heap, map, key_index, pool, pool_length, phase, pending,
                 orphan, via>>

Next ==
  \/ \E p \in Paths, stored \in BOOLEAN : Reuse(p, stored)
  \/ \E p \in Paths : Lookup(p)
  \/ \E c \in pending, stored \in BOOLEAN : Create(c, stored)
  \/ OpenGivesUp
  \/ \E k \in Keys : Close(k)
  \/ \E k \in Keys : ReadVideo(k)
  \/ \E k \in Keys, resampled \in BOOLEAN : ReadAudio(k, resampled)
  \/ Exit
  \/ \E f \in Files : Rewrite(f)
  \/ \E p \in Paths, f \in Files \cup {NoFile} : Relink(p, f)

Spec == Init /\ [][Next]_vars

-----------------------------------------------------------------------------
StreamRec == [refcount : Nat, file : Files \cup {NoFile}, v : BOOLEAN,
              a : BOOLEAN, vi : Info, ai : Info, stray : BOOLEAN]

(* The state has the shape the C declarations give it; the pool is empty
   unless the pool mode allocated it.                                      *)
TypeOK ==
  /\ fs \in [Paths -> Files \cup {NoFile}]
  /\ ver \in [Files -> Versions]
  /\ heap \in [Streams -> StreamRec]
  /\ map \in [Keys -> [stream : Streams \cup {NoStream}, resampler : BOOLEAN]]
  /\ key_index \in 0..MaxKey
  /\ pool \in [Slots -> [fid : Files \cup {NoFile}, used_at : Times \cup {0},
                         stream : Streams \cup {NoStream}]]
  /\ pool_length \in IF Mode = "pool" THEN {0, KeepLength} ELSE {0}
  /\ phase \in {"ready", "exited"}
  /\ pending \in SUBSET [path : Paths, file : Files \cup {NoFile}]
  /\ orphan \in [Keys -> Streams \cup {NoStream}]
  /\ via \in [Keys -> Paths \cup {NoFile}]

(* The reference count of every stream (stream_addref, stream_destroy) is
   the number of its owners: the handles on it, the pool slots keeping it,
   and the references lost when hmset failed at the end of
   streammap_create_stream.  So a stream is freed exactly when its last
   owner lets it go, and only a failed hmset can leak one.                 *)
Orphans(s) == {k \in Keys : orphan[k] = s}
RefCountExact ==
  \A s \in Streams : heap[s].refcount = Held(s) + Cardinality(Orphans(s))

(* Outside the cache mode no two owners share a stream: two handles on one
   file have decoders of their own, and a stream in the pool is in no
   handle (README, "同じ動画ファイルを同時に表示しても動作します").            *)
SoleOwner ==
  Mode # "cache" =>
    \A s \in Streams : /\ \A k1, k2 \in InMap(s) : k1 = k2
                       /\ \A i1, i2 \in InPool(s) : i1 = i2
                       /\ InMap(s) = {} \/ InPool(s) = {}

(* In the cache mode all open handles on one file share one stream, so that
   two streams of one file can only come from a path that was relinked
   between the lookup and the opening of an open: one of them is stray.    *)
OneStreamPerFile ==
  Mode = "cache" =>
    \A k1, k2 \in Keys :
      LET s1 == map[k1].stream
          s2 == map[k2].stream
      IN  (/\ map[k1] # NoItem /\ map[k2] # NoItem
           /\ heap[s1].file = heap[s2].file
           /\ ~heap[s1].stray /\ ~heap[s2].stray) => s1 = s2

(* The media information kept in a stream, which func_info_get answers from
   after the decoders that read it are long closed, still describes the
   file behind the handle; a resampler only exists over an open audio
   decoder and was made for the file's present sample rate.                *)
FreshInfo ==
  \A k \in Keys : map[k] # NoItem =>
    LET s == map[k].stream
        now == ver[heap[s].file]
    IN  /\ Live(s)
        /\ heap[s].vi \in {0, now} /\ heap[s].ai \in {0, now}
        /\ heap[s].vi = now \/ heap[s].ai = now
        /\ map[k].resampler => heap[s].a /\ heap[s].ai = now

(* add_to_pool only throws out a stream when every slot is taken, and then
   one that no other slot was pooled before.                               *)
EvictsOldest ==
  \A i \in Slots :
    pool[i].stream # NoStream /\ pool'[i].stream \notin {NoStream, pool[i].stream}
    => \A j \in 1..pool_length : /\ pool[j].stream # NoStream
                                /\ pool[i].used_at <= pool[j].used_at
LruEviction == [][EvictsOldest]_vars

(* A file is opened anew only when no stream that the mode could reuse has it
   open, none in the pool and in the cache mode none behind a handle, unless
   the path named another file when the call looked for one.               *)
OpensOnlyUnused ==
  \A s \in Streams :
    heap[s].refcount = 0 /\ heap'[s].refcount > 0 /\ ~(\E c \in pending : Moved(c)) =>
      \A t \in Streams :
        (heap[t].refcount > 0 /\ heap[t].file = heap'[s].file) =>
          /\ \A i \in Slots : pool[i].stream # t
          /\ Mode = "cache" => \A k \in Keys : map[k].stream # t
ReuseBeforeOpen == [][OpensOnlyUnused]_vars

(* The stream map implements the table of handles: every handle names the
   file it was opened on until it is closed, whatever is shared, pooled or
   evicted behind it, and that file's content stays put meanwhile.         *)
FileOf(k) == IF map[k] = NoItem THEN NoFile ELSE heap[map[k].stream].file
Table == INSTANCE HandleTable
           WITH opened <- [k \in Keys |-> FileOf(k)], issued <- key_index
HandleTableSpec == Table!Spec

(* The inductive invariant behind the properties above.  What an open found
   missing stays missing until it opens its file; keys are handed out in
   order; an item without a stream and a slot without a stream are blank;
   what a slot says of its stream is true; outside the cache mode nothing
   adds a reference; and a live stream, whoever owns it, has a real file and
   information that is up to date.                                         *)
PendingUnused == \A c \in pending : MustCreate(c.file)

KeysInOrder ==
  \A k \in Keys : k > key_index => map[k] = NoItem /\ orphan[k] = NoStream

BlankWithoutStream ==
  /\ \A k \in Keys : map[k].stream = NoStream => map[k] = NoItem
  /\ \A i \in Slots : pool[i].stream = NoStream => pool[i] = EmptySlot
  /\ \A i \in Slots : pool[i].stream # NoStream => i <= pool_length

PoolKeyed ==
  \A i \in Slots : pool[i].stream # NoStream =>
    pool[i].fid = heap[pool[i].stream].file

OneReference == Mode # "cache" => \A s \in Streams : heap[s].refcount <= 1

LiveFresh ==
  \A s \in Streams : Live(s) =>
    /\ heap[s].file \in Files
    /\ heap[s].vi \in {0, ver[heap[s].file]}
    /\ heap[s].ai \in {0, ver[heap[s].file]}
    /\ heap[s].vi # 0 \/ heap[s].ai # 0

ResamplerHasAudio ==
  \A k \in Keys : map[k].resampler =>
    heap[map[k].stream].a /\ heap[map[k].stream].ai # 0

IInv == /\ TypeOK
        /\ RefCountExact
        /\ PendingUnused
        /\ KeysInOrder
        /\ BlankWithoutStream
        /\ PoolKeyed
        /\ OneReference
        /\ OneStreamPerFile
        /\ LiveFresh
        /\ ResamplerHasAudio

=============================================================================
