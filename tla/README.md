# Verification of ffmpeg_input

TLA+ modules, model-checking configurations and machine-checked proofs for
`oov/aviutl_ffmpeg_input`, an input plugin that lets AviUtl read video and
audio through FFmpeg, either in the process of AviUtl (`*.aui`, 32 bit) or
through a bridge to another process (`*-brdg64.aui`).

Everything below refers to the sources in `src/src/`.

## 1. Inventory

```
AviUtl ── api.c ── stream.c ──┬── video.c ──┬── ffmpeg.c ── libav*
 (direct build)   stream map  └── audio.c ──┘   wrapper
                                    └ resampler.c (one per handle)

AviUtl ── bridgeclient.c ── ipcclient.c ═ pipe ═ ipcserver.c ── bridgeserver.c ── api.c …
 (bridge)      │  └──────── named file mapping object ──────────────┘
               └ process.c (starts and watches the other process)
```

| Component | State | Operations | What is hard | What makes it correct |
|---|---|---|---|---|
| stream map (`stream.c`) | key → stream and resampler, reference counts, pool of closed streams, key counter | create, free, get info, read video, read audio, destroy | sharing and pooling, failure half-way, files changing on disk | counts match owners, nothing shared that must not be, cached information true, the map is a plain table of handles to AviUtl |
| sub-decoder thread (`video.c`, `audio.c`) | array of decoders, `len`, `status`, thread | start, open next, read, destroy | a thread fills an array another reads without the lock | no slot is touched by both, nothing used after free, nothing leaked, destroy ends |
| video reader (`video.c`) | per decoder: frame, GOP, time of last use | `find_stream`, `seek`, skip, grab, end of file | loops over an imprecise seek; choice of the decoder | the frame shown is the frame asked for, reads end, two viewers do not make each other seek |
| audio reader (`audio.c`, `resampler.c`) | per decoder: frame, position; per handle: resampler, buffer, position | `find_stream`, `stream_read`, `seek` | decoder and resampler are shared by different sets of handles | every sample in its place, reads end |
| bridge client (`bridgeclient.c`, `process.c`) | running state, process, connection, table of handles, lock, watcher thread | init, exit, open, close, info, reads, configuration, restart after a crash | a process that dies at any moment, a restart on a thread of its own, calls waiting meanwhile | both tables of handles agree, one thread in the tables, lock always returned, crash noticed, no process left behind |
| read buffer (`bridgeclient.c`, `bridgeserver.c`) | mapping object and name on both sides | grow, write, reply, open, copy | names as identities across restarts | no stale bytes |
| ipc server (`ipcserver.c`) | clients, workers, closing flag | accept, serve, cancel, destroy | teardown while threads block in I/O, errors on every step of a reply | every join returns, nothing freed twice or used after free, a request handled at most once |
| ipc client (`ipcclient.c`) | pipe, buffer | connect with retries, call | calls that fail half-way, a server that dies | a reply belongs to its request, every call ends |
| bridge server (`bridgeserver.c`) | mapping object, handles as addresses | open, close, info, read, config, end | end by event or by death of the parent | see bridge client and read buffer |
| ffmpeg wrapper (`ffmpeg.c`) | format and codec contexts | open, preferred decoders, seek, grab | decoders that cannot be opened, that keep frames back and take the end once | the frames of a file in their order, none lost at the end, no frame of the old place after a seek |
| audio index (`audioidx.c`), progress window (`progress.c`) | created and destroyed, never used | | | dead code: nothing calls `audioidx_get` |
| configuration (`config.c`) | values | load, save, setters | | two values are constants of `StreamMap`, the preferred decoders are the lists of `Decoder` |
| plugin interface (`api.c`), entry points, error reporting, `mapped.c` (unused), tests, build files | little or none | forwarding | | part of `StreamMap` where they forward |

Who calls whom: AviUtl calls the plugin from its main thread and, through the
extended editing plugin, possibly from others; the stream map is used by one
thread at a time (AviUtl's, or the one worker of the bridge server's one
client). The ipc server has an acceptor and one worker per connection; bridge
requests are handled on that worker. The bridge client takes `g_handles_mtx` for each call. Each video and
audio object has a thread that opens its further decoders; each process object
has a watcher; a crash is handled on a detached thread.

## 2. Modules

| Module | Models |
|---|---|
| `HandleTable` | abstract: what the stream map promises to AviUtl |
| `StreamMap`, `MCStreamMap`, `StreamMap_proofs` | `stream.c` with the forwarding of `api.c` |
| `SubStreams`, `SubStreams_proofs` | the decoder thread of `video.c` and `audio.c` |
| `VideoRead`, `MCVideoRead`, `VideoRead_proofs` | `video_read` |
| `AudioRead`, `MCAudioRead`, `AudioRead_proofs` | `audio_read`, `resampler.c` |
| `Bridge`, `MCBridge`, `Bridge_proofs` | `bridgeclient.c`, `process.c`, the table of handles of `bridgeserver.c` |
| `Rpc` | abstract: what the bridge takes `ipcclient_call` for |
| `Ipc`, `Ipc_proofs` | `ipcclient.c`, `ipcserver.c`, `ipccommon.c` |
| `FrameSource` | abstract: what the readers take `ffmpeg.c` for |
| `Decoder`, `MCDecoder`, `Decoder_proofs` | `ffmpeg.c` |
| `BridgeBuffer`, `MCBridgeBuffer`, `BridgeBuffer_proofs` | the file mapping object of both sides |

Definitions named `Mutant…` are wrong variants of the definition that follows.
No specification uses them; they show that each property notices a plausible
mistake. MC modules only add symmetry sets and values of constants.

How they fit together: `StreamMap` treats a read as one step, whose inside are
`SubStreams` (who may touch which decoder), `VideoRead` and `AudioRead` (which
frame or sample comes out). Those two take frames from an ideal source, and
`Decoder` shows that `ffmpeg.c` is one (`FrameSource`). `Bridge` sends requests
that are handled at most once and whose reply is their own, and `Ipc` shows that
the connection does that (`Rpc`); `BridgeBuffer` is the memory beside it.

### Correspondence

**StreamMap.** One call of `streammap_…` is one action: the map has no thread
of its own and is called by one thread at a time. The exception is an open that
creates a stream. It resolves its path twice: `get_fileid_from_filepath`
(stream.c:112-131) opens the path, notes the file and closes it again, and
`stream_create` opens it anew (164). In between another program may relink the
path, so that `Lookup`, which finds nothing to reuse and leaves the call in
`pending`, and `OpenNew` (or `OpenGivesUp`) are two actions; `Moved` says that the
path was relinked, and a stream of the cache mode opened in this way is a `stray`.
An open that finds a stream to reuse stays one action (`OpenFromPool`,
`OpenFromMap`): it resolves the path once and does not come back to the file
system, and a stream that is found holds its file open, so that nothing the
outside may do afterwards changes what was found. `heap` is the set of
`struct stream` by address with the reference count, the file it holds open,
which decoders are open and the information read from the file; `map`, `pool`,
`key_index` are the fields of `struct streammap`. The file system is an actor:
it renames files and rewrites those nobody holds open (streams are opened with
`FILE_SHARE_READ` only). `orphan` is a history variable for the stream of a key
whose `hmset` failed, the one leak the code has; `via` remembers the path of a
handle. `HandleTable` is implemented through `opened = FileOf(k)`.

**SubStreams.** `create_sub_stream` and its caller, with every unlock a point
where the other thread may run: the check of `status` and the capacity, the
clearing of the slot and the opening (both outside the lock), the publication
through `len`; on the other side the snapshot of `len`, the walk over the
slots, and the destruction in its steps.

**VideoRead.** `pc` is the place in `video_read`: choosing, the loop of `seek`,
the skip loops. Times are frame numbers. libavformat's seek is external: it
lands on a key frame not after the time, and the decoder may then drop frames
(`Lead`). The file is chosen in `Init` and stays: its key frames, `Lead`, and
whether it is damaged (any frame may fail, and it is shorter than its duration
says; a file of whose last GOP nothing can be decoded counts as damaged too).
More decoders may appear at any time. `RightFrame` and `GopTrue` name two kinds
of files they hold for in full: `BeginsWithKey`, the first frame is a key frame
and nothing is dropped after a seek (the ordinary file), and `Spaced`, going back
a second from a later key frame does not lead before the first one.

**AudioRead.** A sample is its position. `swr` is the resampler of each handle
with its buffer; `dec` are the decoders all handles share. The file is again
chosen in `Init`; `Delay` is the number of samples a rate converter holds back.

Both readers keep for each decoder the rank of its last use. The code keeps the
time of the clock (video.c:308, audio.c:457), which may give two uses one reading when they
follow each other quickly, or go back; then the decoder that comes first in the
array is the older one. The model takes each use to be later than the last. The
pictures and samples do not depend on it (the proofs say nothing of the ranks
but their type); `NoThrash` does.

**Bridge.** `state`, `lock`, `gproc`, `gipcc`, `path`, `id` are the globals of
`bridgeclient.c`; `life`, `told`, `watch` those of `struct process`; `issued` is
the server's table. `stage` is the place of the thread that starts a process
(`ffmpeg_input_init` or a handler): both run the same `start_process`, under the
lock, so one variable is enough. `notice[p]` is the place of the thread that
runs `process_finished` for process `p`, before and while it has the lock. The
check of the state, the store and the lock are separate steps, as are the two
halves of a call. The watcher of a dead process starts its handler (`Noticed`) or
finds no memory or thread for it (`NoticeFails`, process.c:71-84): then the notice
is `lost`, and no `process_finished` ever runs for that process. A call gets its
reply or loses it because the process has died (`LosesReply`). That a call fails
on the client although the server lives and has served it, for lack of memory
inside a reply (ipcclient.c:196-205), is left to `Ipc` and `Rpc`: there it sets
`half`, and nothing is promised to such a connection afterwards. `Bridge` leaves it
out, so that `TablesAgree` is not shown for a client that has run out of memory
in a call.

**BridgeBuffer.** Objects, names and the two variables on each side. An object
exists as long as someone holds it; the server draws a name that does not exist.

**Ipc.** A pipe instance has two queues of messages, one for each piece that is
read on its own, and a state `end`: not there, listening, open, closed by the
client (`hung`) or by the server (`cut`). `pc[c]` is the place of a client in
`ipcclient_create` or `ipcclient_call`; `acc` and `wk[p]` those of the acceptor
and of the worker of an instance; `serv` the steps of `ipcserver_destroy`. Each
read and write is a step that may fail, each allocation may fail, and
`CancelSynchronousIo` hits a thread that is at an I/O call or comes before it has
blocked (`missed`). `held` follows `ictx->err` through its two owners. The cleanup
of a worker is three steps: it disconnects the pipe, deletes its client from the
map with `serv->mtx` locked (`Delete`; `Locked` keeps the acceptor and other workers
out), and unlocks, frees the error and its client (`Release`).
`ipcserver_destroy` takes no mutex: it scans the map and frees the server
(453-458) whatever the workers do, so that a worker between `hmdelete` and
`mtx_unlock` (261) finds the server freed. What the code does with freed memory or
a null pointer is the step `Faults`: the server's process ends, as it does when it
is killed. When a thread is bound to come to that (`doomed`: `hmset` or the memory
for the context has failed), where exactly is left open, as one step.

`excused` is a history variable for three causes: memory failed in one of three
places (`hmset` of the acceptor, the context of a worker, an error reply); a
client left inside a call, or after one that stopped in a reply; and a worker
had not ended when `ipcserver_destroy` joined the acceptor. `NoFault` says that
without them there is no fault, and nothing about what happens with them: there
the code does fault (see "Observed" below). `cli->th` (440) is read in the step that
joins: `Joined` when it was read before the worker freed its client, `JoinFaults`
when after. The map is the one of the submodule `ovbase`, which is not part of
the sources: its scan is taken to visit every client that is not deleted by then.
`half` notes that a call has stopped in the middle of a reply, after
which `Rpc` promises nothing for that connection.

**Decoder.** `pc` is the place in `ffmpeg_open` or `grab`; `pos`, `queue`,
`draining` are what the libraries know: the next packet, the frames kept back,
and whether the null packet was sent. Names of decoders are members of a set, a
name that is unknown, too long or of another format is `None`. `last` and
`broken` are history: the last frame delivered, and whether a read has failed
since the last seek.

## 3. Runs

| Run | Shows | Instance |
|---|---|---|
| `StreamMap_cache` | shared streams: counts exact, one stream per file unless a path was relinked inside an open, information true | 2 paths, 2 files of 2 versions, 3 streams, 3 opens |
| `StreamMap_pool` | pooled streams: one owner each, the pool evicts the oldest, implements `HandleTable` | 2 slots, 3 streams, a clock that may stand still or go back |
| `SubStreams` | no race on a slot, no use after free, no leak, destroy ends | 4 decoders; fairness; deadlock checked |
| `VideoRead` | the frame shown is the frame asked for, the GOP noted is right, players do not thrash, every read ends | 2 decoders, 2 viewers, 8 files; fairness |
| `AudioRead` | every sample in its place, no needless silence, players come to have a decoder each and do not thrash, every read ends | 2 decoders, 2 handles, 5 files; fairness |
| `Bridge_safety` | tables agree, no orphan, no working process given up | 2 callers, 3 processes, 2 handles, ids and paths, early watchers included |
| `Bridge_live` | the lock returns, crashes are handled, a crash ends the attempt to connect (both unless the handler could not be started), exit ends | 2 callers, 2 processes; fairness; watchers wait for the right handle |
| `Ipc` | at most one execution and the right reply (implements `Rpc`), every call and attempt to connect ends, no fault without one of the three causes, destroy ends | 2 clients, one of a wrong version, 2 instances, 2 calls; fairness |
| `Decoder` | the frames in order, none lost or repeated (implements `FrameSource`), every call returns | 4 files of 6 packets, 3 decoders any of which may not work, 5 lists, up to 2 frames kept back; fairness |
| `BridgeBuffer` | no stale bytes | 3 names, objects and contents, sizes to 2 |

The third mode of `StreamMap`, private streams, has no run of its own: its steps
are a part of those of the pool mode, and the proofs cover all three.

Deadlock is checked where a system cannot stop; `CHECK_DEADLOCK FALSE` stands
where it may (the plugin has exited, or has used up the bounded number of keys,
versions or processes).

Two statements of comments fail, each in a run that expects the violation:

| Run | Disagreement |
|---|---|
| `AudioRead_moved` | when the last frame is shorter, a resampler that was fed from another decoder labels it with the wrong position |
| `Bridge_selfwatch` | a watcher that is faster than an assignment makes `process_destroy` hang |

### Bounds

* `StreamMap`: three opens let two handles share or displace a third; two paths
  and two files are needed for hard links and renames; a second version of a
  file for stale information; two slots for the order of eviction. The proofs
  do not depend on any of them.
* `SubStreams`: the capacity is the only parameter; the proofs hold for all.
* `VideoRead`, `AudioRead`: the smallest files with several GOPs (frames) of
  which some are near and some far for `find_stream`; `Second` and `Near` are
  scaled down with them. Two viewers and two decoders: the fewest that can take
  a decoder from each other. The files differ in what their beginning, their
  end and their frames do to a seek.
* `Bridge`: three processes are two restarts, so that the notice of one process
  can be under way while the next dies and a third is started; two ids per
  process make every id of a new process equal to an old one.
* `Ipc`: two calls, so that the second can meet the remains of the first; two
  instances, so that one can be served while the other is set up; one client
  that is refused at the handshake. An instance is free again when both its ends are
  closed, so the remains of an old connection would meet a new client.
* `Decoder`: two GOPs, a packet of another stream, damage at the start, across
  the key frame and at the end; two frames kept back, so that a flush has more
  than one to give. Lists with wrong names in front, between and alone.
* `BridgeBuffer`: three names, so that a new server can draw the name its
  predecessor's object still has.

### Fairness

Weak fairness throughout, on whole threads: a thread that can take a step takes
one (the schedulers of Windows). `SubStreams`: the decoder thread and an owner
that is destroying; opening a file ends. `VideoRead`, `AudioRead`: the read in
progress; nothing forces a read. `Bridge`: each handler, the booting thread,
the call that has the lock, the message box (someone answers it), a process
told to end (it ends or is terminated after five seconds). `Ipc`: acceptor,
workers, the destroying thread and a client inside a call or an attempt to
connect; handlers return. Nobody has to call, leave or destroy. `Decoder`: a
call that has begun is carried on. Not assumed: that a
process ever comes up or dies, that AviUtl calls, or that the mutex is handed
out fairly. That time passes (`ClockRuns`) is a premise of `LockReturns` and
`CrashHandled` and not of `CrashEndsConnecting` and `ExitEnds`.

## 4. Proofs

TLAPS proves, for every value of the constants allowed by the assumptions:

* `StreamMap_proofs`: type correctness, `RefCountExact`, `OneStreamPerFile`,
  `SoleOwner`, `FreshInfo`, `ReuseBeforeOpen`, `LruEviction`, and that the map
  implements `HandleTable`. The properties are not inductive: that a count is
  exact needs to know that keys are handed out in order (`KeysInOrder`), that
  blank items and slots own nothing (`BlankWithoutStream`), that a pool slot
  names the file of its stream (`PoolKeyed`); that a pooled stream has no other
  owner needs `OneReference`; that information is fresh must be said of all live
  streams, owned or not (`LiveFresh`). `IInv` joins them; `OwnerCounts` turns the
  sets of owners into numbers; `PendingUnused` says that what an open found missing
  is still missing when it opens its file; each property has a lemma for its step.
  `OneStreamPerFile` and `ReuseBeforeOpen` make an exception of a path that was
  relinked inside an open, as the code does; the counts, the freshness of the
  information and the refinement make none. In the run of the pool mode files
  have one version; that a file rewritten while its stream is in the pool cannot
  make its information stale is `FreshInfo` in the proof, for every mode.
* `SubStreams_proofs`: type correctness and all safety properties for every
  capacity, from an invariant that ties the places of both threads to `len`,
  `status` and the slots.
* `BridgeBuffer_proofs`: `RightBytes` and `NameMeansObject`. The invariant
  `Follows` says where the right content is at each point of a call; the step
  that replies uses that no two objects alive have one name.
* `Decoder_proofs`: type correctness and that `ffmpeg.c` implements `FrameSource`,
  for all files, lists of decoders and numbers of frames kept back. `Complete`
  carries it: what is due is kept back, in the packet that is about to be sent or
  still ahead in the file. With `Later` and the order of the queue its head is
  the frame that is due (`HeadIsDue`); with `AtEnd` and `Room` nothing is due when
  the end is reported (`NothingDue`); `Tried` makes the decoder that is opened the
  first of the wanted ones that can be.
* `VideoRead_proofs`: type correctness, `RightFrame` and `GopTrue`. `RightFrame`
  says what a finished read shows and nothing of how it got there; the invariant
  adds where a read may be: a seek aims at the frame asked for or before it and,
  in a spaced file, not before the first key frame (`Seeking`); decoders hold
  frames that can be decoded, and one that knows its GOP holds one (`Held`); what
  is skipped from is not behind the target (`Aimed`). `GopKnown` is `GopTrue` for
  the decoders not yet open as well: one that is published has the GOP it had.
  The lemmas before are about the file: where its key frames are and where a
  seek lands.
* `AudioRead_proofs`: type correctness, `NoNeedlessSilence`, and `SamplesInPlace`
  for files whose frames are all equally long (`Regular`). The first needs that
  no seek in a sound file lands behind the sample or notes a first frame
  (`Seeking`) and that a read under way has written no silence (`Sounding`): then
  only the end of the file gives up a read (`GivesUpAtEnd`). The last needs to
  know under which position a resampler holds a frame (`Labelled`). It may be the
  wrong one, after `grab_next_frame` with another decoder; but with frames of one
  length a wrong position is at least one frame off, so that it does not cover
  the request, and the frame of the decoder does: it is converted before anything
  is read (`MustConvert`, `OnlyConvert`, `Apart`). With a shorter last frame the
  argument fails, and so does the code (run `AudioRead_moved`).
* `Bridge_proofs`: type correctness, `TablesAgree`, `NoOrphan` and the action
  property `KillsOnlyTheDead`. None is inductive, because a crash is noticed in
  many steps: the invariant says who has the lock at each place of each thread
  (`LockOwner`), which process is current and which are watched (`Current`,
  `Watched`, `Running`), that a notice under way is about the process in use or
  the one being started (`Notices`), what a call has been begun with (`Calls`),
  and, while handles are opened again, that the part of the table that has been
  restored agrees with the new server and the rest is still to come (`Tables`).
* `Ipc_proofs`: type correctness, `NoFault` and the refinement of `Rpc`, for all
  numbers of clients, instances and calls. `Instances` and `Owned` say that an
  instance has one client whose messages are the only ones in it; `InOrder` that
  the requests on their way are later than what was served, so that none is
  served twice; `InStep` lists for each place of a client what it may find in the
  pipe and where its worker then is, so that a reply is of the call that waits for
  it; `Excuses` that a freed error or a request left in the pipe has one of the
  named causes, and that without a cause no worker is left once the acceptor has
  been joined (`NoWorker`), which needs that the acceptor starts none after it
  (`NoServer`). The refinement then goes action by action: one step serves, one
  takes the reply, the others stutter.

Assumptions: only the named `ASSUME`s of the modules (disjointness of special
values, non-empty capacities), which TLC evaluates in every run.

So every invariant and refinement that a run checks is proved, `SamplesInPlace` in
the form that holds for all values of the constants. Proving changed three
statements: `RightFrame`, `GopTrue` and the assumption about files, for which TLC
then found the counterexamples that `Spaced`, `BeginsWithKey` and two more
files of `MCVideoRead` stand for (see below).

Only model-checked: all liveness (`ReadEnds`, `CallsReturn`, `DestroyEnds`, `LockReturns`,
`CrashHandled`, `CrashEndsConnecting`, `ExitEnds`, `CallEnds`), which rests on
fairness and `ENABLED`, outside the prover's reach; and `NoThrash` of both readers,
which does not hold for all values of the constants but for players that stay
in parts of the file too far apart to take each other's decoder, with a clock that
advances between two uses. For `AudioRead` it speaks of handles that their decoder
follows: a request served from the buffer of the resampler counts as a use of the
decoder chosen, without moving it, and the next handle that needs one may then
take the other's.

## 5. What is left out

* Pixel conversion, format descriptions, arithmetic of time bases and of the
  rescaling of sample positions: data without control.
* Files of variable frame rate in `VideoRead`.
* The bytes of the pipe: `Bridge` takes a request as served or lost as a whole;
  `Ipc` has the messages it consists of, not their bytes.
* Handlers that answer after they have returned: those of `bridgeserver.c` do not.
* The I/O callbacks of `ffmpeg.c` and `try_grab`, which no caller asks for.
* `func_exit` while a crash is being handled: the code has no protection before
  the windows are disabled (bridgeclient.c:640), and the model assumes it does
  not happen.
* The components marked not modelled in `PROJECT.json`.

### Observed while modelling

What the code does and no run is devoted to:

* With shared or pooled streams, a second name of an open file is served though
  it does not end in `-ffmpeg` (`README.md` 66 says such files are not read): the
  name is tested in `stream_create` only.
* Past the last decodable frame a blank picture is shown (video.c:444, 461);
  `CHANGELOG.md` 52 says the frame before. After an end of file inside `seek` the
  GOP noted stays, and the next request in it scales an empty frame (`Garbage`).
* Where the decoder drops frames after a seek, the landing is behind the key
  frame, no GOP is known, and every read seeks until the next key frame; so
  `NoThrash` is stated for files where it drops none.
* With a rate conversion the end of a frame is held back, and `stream_read` feeds
  the frame again: the output jumps. `SamplesInPlace` is stated without it.
* In the cache mode a file that is open already gets a second stream when the path
  begins to name it between the lookup (stream.c:114-127) and the opening (164);
  `README.md` 85 says that the same file is used again. `OneStreamPerFile` and
  `ReuseBeforeOpen` are stated without such opens (`stray`, `Moved`). In the pool
  mode a pooled stream is passed over in the same way.
* When the watcher of a dead process cannot start its handler (process.c:71-84),
  the crash is never reported: the plugin keeps the dead process, and while it is
  being started only the clock ends the attempt to connect. `CrashHandled` and
  `CrashEndsConnecting` name this as their exception.
* A crash during the boot is noted by `process_finished` ("no point in
  continuing", bridgeclient.c:617), and `ffmpeg_input_init` stores `rs_running`
  over it (line 724): the plugin goes on with a dead process.
* When the first key frame comes after the start of the file, a seek to before it
  rewinds (video.c:173-198) and may then be refused: the decoder has moved, and
  `current_gop_intra_pts` still names the old GOP (`GopTrue` is stated for files
  that begin with a key frame).
* Where decoding drops frames and a GOP begins less than a second after the first
  key frame, rewinding from it leads before the first key frame and may be
  refused: the read shows nothing although the frame exists (`Spaced`).
* A handle AviUtl closes while the process is dead is kept and opened again by
  each restart (bridgeclient.c:378); a process whose watcher thread cannot be
  created is left running (process.c:157); a failed `OpenFileMapping` is
  remembered under its name (bridgeclient.c:264).

* Of two decoders in the GOP of the target the last one is taken, not the nearest
  ("find nearest stream", video.c:367): `gap` is never assigned (video.c:369-377).
* A read of sound that begins before the first decodable sample is silent to its
  end (audio.c:354-359 leaves the loop), also where there is sound.
* When memory for the object fails, `video_create` and `audio_create` return no
  error and no object, and `stream_create` uses it (video.c:592).

In the connection (`ipcserver.c`, `ipcclient.c`), all of it in the model, behind
`excused`, `missed` or `half`:

* `ipcserver_destroy` walks the map without `serv->mtx` while the workers delete
  themselves from it: it may cancel a client whose `cv` is not set yet (before
  line 138) or read `cli->th` from one that was freed (line 440), and it frees the
  server when the map is empty, while the last worker, which has left the map, has
  still to unlock `serv->mtx` (line 261 against 453-458). This can happen
  in every destroy with a connection; `ipc_test.c` 88–93 destroys just then.
* A `CancelSynchronousIo` that comes before the thread has blocked is lost, and
  the join waits until the client goes. It also waits in `FlushFileBuffers` for a
  client that left the rest of a reply unread.
* When an error reply cannot be written, or memory for it fails, `ictx->err` is
  freed twice (217–229); when `hmset` fails the client is freed under its running
  thread (339); when the worker has no memory for its context it releases a null one.
* After one error the acceptor ends for good and nobody can connect any more;
  `ERROR_PIPE_BUSY` is not retried by `ipcclient_create` though its comment
  (77–78) suggests it. A reply of no bytes would be read as an error reply.

In `ffmpeg.c`: a read error counts as the end of the file until the next seek
(533); `avformat_open_input` frees the context when it fails, and the file handle
stays open; a packet the decoder refuses with `EAGAIN` is dropped (553), which
decoders that keep to the interface never cause.

In `api.c`: `g_ready` is set before the stream map exists (257); `info_get`
answers from static variables of the last file for an unknown handle (23–59).

## 6. Plan

Order by weight of the behaviour; done: 1–10.

1. `HandleTable`, `StreamMap`, refinement and proofs.
2. `SubStreams` and proofs.
3. `VideoRead`.
4. `AudioRead`.
5. `Bridge`.
6. `BridgeBuffer` and proofs.
7. `Rpc`, `Ipc`, refinement.
8. `FrameSource`, `Decoder`, refinement.
9. Proofs of type correctness and the refinement of `Decoder`.
10. Proofs: type correctness, `TablesAgree`, `NoOrphan` and `KillsOnlyTheDead` of
    `Bridge`; type correctness, `RightFrame` and `GopTrue` of `VideoRead`; type
    correctness, `NoNeedlessSilence` and `SamplesInPlace` of `AudioRead`; type
    correctness, `NoFault` and the refinement of `Ipc`. Opens of `StreamMap`, the
    notices of `Bridge` and the cleanup of a worker of `Ipc` in their separate steps.
11. Next: an abstract specification of a read (the frame or the samples asked
    for, in one step) that `VideoRead` and `AudioRead` implement, so that
    `StreamMap`'s one step for a read is justified in the same way as `Bridge`'s
    one step for a call; the parts of a safety argument for `NoThrash`.
