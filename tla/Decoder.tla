------------------------------ MODULE Decoder ------------------------------
(***************************************************************************)
(* ffmpeg.c, the wrapper the readers get their frames from: opening with a  *)
(* list of preferred decoders, seeking, and the loop that feeds packets to  *)
(* the decoder until a frame comes out.  libavformat is external: a file is *)
(* a row of packets, some of other streams, and reading may fail.  So is    *)
(* libavcodec: it keeps back up to MaxDelay frames until it is told that no *)
(* packets follow, and refuses packets from then until it is flushed.       *)
(* Frames are in decoding order, named by the place of their packet.  The   *)
(* first grab of open_codec is left out, no caller asks for it (try_grab).  *)
(***************************************************************************)
EXTENDS Naturals, Sequences

CONSTANTS Codecs,    \* decoders, of this format or of others
          None,      \* no decoder, a name that is not one
          Default,   \* the decoder libavcodec itself chooses
          Packets,   \* number of packets in a file
          Files,     \* the files: frames, damaged and keys among the packets
          Lists,     \* the lists of preferred decoders
          MaxDelay   \* number of frames a decoder may keep back

ASSUME ConstantsAssumption ==
  /\ None \notin Codecs /\ Default \in Codecs
  /\ Packets \in Nat /\ MaxDelay \in Nat
  /\ \A f \in Files : /\ f.damaged \cup f.keys \subseteq f.frames
                      /\ f.frames \subseteq 1..Packets
  /\ \A l \in Lists : l \in Seq(Codecs \cup {None})

VARIABLES
  file,      \* the file that is open or will be
  works,     \* the decoders that can be opened on this machine
  names,     \* opt->preferred_decoders, the wrong ones as None
  index,     \* how far find_preferred has come in it
  codec,     \* fs->codec
  pc,        \* where ffmpeg_open or grab is
  pos,       \* the next packet of fs->fctx
  packet,    \* fs->packet
  queue,     \* the frames in fs->cctx
  draining,  \* has fs->cctx been told that no packets follow
  frame,     \* fs->frame, 0 when there is none
  result,    \* what grab returned
  last,      \* the frame before the one that is due
  broken     \* has reading failed since the last seek

fileVars == <<file, works>>
openVars == <<names, index, codec>>
avVars   == <<pos, packet, queue, draining>>
ghosts   == <<last, broken>>
vars == <<fileVars, openVars, pc, avVars, frame, result, ghosts>>

Init == /\ file \in Files /\ works \in SUBSET Codecs
        /\ names = <<>> /\ index = 1 /\ codec = None /\ pc = "closed"
        /\ pos = 1 /\ packet = 0 /\ queue = <<>> /\ draining = FALSE
        /\ frame = 0 /\ result = "none" /\ last = 0 /\ broken = FALSE

\* ffmpeg_close leaves nothing behind.
Blank == /\ names' = <<>> /\ index' = 1 /\ codec' = None /\ pc' = "closed"
         /\ pos' = 1 /\ packet' = 0 /\ queue' = <<>> /\ draining' = FALSE
         /\ frame' = 0 /\ result' = "none" /\ last' = 0 /\ broken' = FALSE
         /\ UNCHANGED fileVars

Close == pc = "idle" /\ Blank
-----------------------------------------------------------------------------
(* Opening *)

\* The file itself can be opened; if not, nothing changes.
Open(list) == /\ pc = "closed"
              /\ names' = list /\ pc' = "find"
              /\ UNCHANGED <<fileVars, index, codec, avVars, frame, result, ghosts>>

\* A later decoder is opened with the codec of the first.
OpenAgain(c) == /\ pc = "closed" /\ c \in works
                /\ names' = <<c>> /\ codec' = c /\ pc' = "idle"
                /\ UNCHANGED <<fileVars, index, avVars, frame, result, ghosts>>

\* find_preferred: the next name that is a decoder of this format.
Usable == {i \in index..Len(names) : names[i] # None}
\* Mutant: the last such name instead of the first.
MutantFound == CHOOSE i \in Usable : \A j \in Usable : j <= i

Found == CHOOSE i \in Usable : \A j \in Usable : i <= j

OpenPreferred == /\ pc = "find" /\ Usable # {} /\ names[Found] \in works
                 /\ codec' = names[Found] /\ index' = Found + 1
                 /\ pc' = "idle"
                 /\ UNCHANGED <<fileVars, names, avVars, frame, result, ghosts>>

\* The codec cannot be opened: back to the start of the file, and on with the next.
TryNext == /\ pc = "find" /\ Usable # {} /\ names[Found] \notin works
           /\ index' = Found + 1 /\ pos' = 1
           /\ UNCHANGED <<fileVars, names, codec, pc, packet, queue, draining,
                          frame, result, ghosts>>

CannotRewind == /\ pc = "find" /\ Usable # {} /\ names[Found] \notin works
                /\ Blank

OpenDefault == /\ pc = "find" /\ Usable = {} /\ Default \in works
               /\ codec' = Default /\ pc' = "idle"
               /\ UNCHANGED <<fileVars, names, index, avVars, frame, result, ghosts>>

OpenFails == /\ pc = "find" /\ Usable = {} /\ Default \notin works
             /\ Blank

Opening == \/ (\E l \in Lists : Open(l)) \/ (\E c \in Codecs : OpenAgain(c))
           \/ OpenPreferred \/ TryNext \/ CannotRewind \/ OpenDefault \/ OpenFails
-----------------------------------------------------------------------------
(* Seeking *)

\* Mutant: the decoder is not flushed.
MutantSeek(t) == /\ pc = "idle"
                 /\ \E k \in file.keys : k <= t /\ pos' = k /\ last' = k - 1
                 /\ result' = "none" /\ broken' = FALSE
                 /\ UNCHANGED <<fileVars, openVars, pc, packet, queue, draining, frame>>

\* avformat_seek_file with no lower limit and t as upper limit, then
\* avcodec_flush_buffers; when it fails nothing is touched.
Seek(t) == /\ pc = "idle"
           /\ \E k \in file.keys : /\ k <= t
                                   /\ pos' = k /\ last' = k - 1
           /\ queue' = <<>> /\ draining' = FALSE
           /\ result' = "none" /\ broken' = FALSE
           /\ UNCHANGED <<fileVars, openVars, pc, packet, frame>>
-----------------------------------------------------------------------------
(* Grabbing *)

Grab == /\ pc = "idle"
        /\ pc' = "receive"
        /\ UNCHANGED <<fileVars, openVars, avVars, frame, result, ghosts>>

Returns(r) == pc' = "idle" /\ result' = r

\* avcodec_receive_frame gives a frame ...
Receive == /\ pc = "receive" /\ queue # <<>> /\ Head(queue) \notin file.damaged
           /\ frame' = Head(queue) /\ queue' = Tail(queue)
           /\ last' = frame'
           /\ Returns("frame")
           /\ UNCHANGED <<fileVars, openVars, pos, packet, draining, broken>>

\* ... or an error ...
ReceiveFails == /\ pc = "receive" /\ queue # <<>> /\ Head(queue) \in file.damaged
                /\ frame' = 0 /\ queue' = Tail(queue)
                /\ Returns("error")
                /\ UNCHANGED <<fileVars, openVars, pos, packet, draining, ghosts>>

\* ... or EAGAIN, or EOF.
NothingYet == /\ pc = "receive"
              /\ IF draining THEN queue = <<>> ELSE Len(queue) <= MaxDelay
              /\ frame' = 0
              /\ pc' = "read"
              /\ UNCHANGED <<fileVars, openVars, avVars, result, ghosts>>

\* ffmpeg_read_packet passes over the packets of other streams.
Ahead == {i \in file.frames : i >= pos}

Read == /\ pc = "read" /\ Ahead # {}
        /\ packet' = CHOOSE i \in Ahead : \A j \in Ahead : i <= j
        /\ pos' = packet' + 1
        /\ pc' = "send"
        /\ UNCHANGED <<fileVars, openVars, queue, draining, frame, result, ghosts>>

NoMorePackets == /\ pc = "read" /\ Ahead = {}
                 /\ pos' = Packets + 1 /\ packet' = 0
                 /\ pc' = "flush"
                 /\ UNCHANGED <<fileVars, openVars, queue, draining, frame, result, ghosts>>

ReadFails == /\ pc = "read"
             /\ packet' = 0 /\ broken' = TRUE
             /\ pc' = "flush"
             /\ UNCHANGED <<fileVars, openVars, pos, queue, draining, frame, result, last>>

\* Mutant: a decoder that is flushed already is asked again.
MutantFlush == /\ pc = "flush"
               /\ draining' = TRUE /\ pc' = "receive"
               /\ UNCHANGED <<result, fileVars, openVars, pos, packet, queue, frame, ghosts>>

\* The null packet; the decoder takes it once.
Flush == /\ pc = "flush"
         /\ IF draining THEN Returns("end") ELSE pc' = "receive" /\ UNCHANGED result
         /\ draining' = TRUE
         /\ UNCHANGED <<fileVars, openVars, pos, packet, queue, frame, ghosts>>

\* avcodec_send_packet: refused while draining; a damaged packet is refused
\* here or when its frame is due.
Send == /\ pc = "send"
        /\ \/ draining /\ Returns("end") /\ UNCHANGED queue
           \/ ~draining /\ packet \in file.damaged /\ Returns("error") /\ UNCHANGED queue
           \/ ~draining /\ queue' = Append(queue, packet)
                        /\ pc' = "receive" /\ UNCHANGED result
        /\ UNCHANGED <<fileVars, openVars, pos, packet, draining, frame, ghosts>>

Grabbing == \/ Receive \/ ReceiveFails \/ NothingYet \/ Read \/ NoMorePackets \/ ReadFails
            \/ Flush \/ Send
-----------------------------------------------------------------------------
Next == \/ Opening \/ Close \/ Grab \/ Grabbing
        \/ \E t \in file.frames : Seek(t)

Spec == Init /\ [][Next]_vars

\* A call that has begun is carried on.
FairSpec == Spec /\ WF_vars(Grabbing)
                 /\ WF_vars(OpenPreferred \/ TryNext \/ CannotRewind \/ OpenDefault \/ OpenFails)
-----------------------------------------------------------------------------
(* Properties *)

\* The types; a decoder is open exactly outside of opening, it keeps back no
\* more than it may, frames of packets that were read, in order.
TypeOK ==
  /\ file \in Files /\ works \subseteq Codecs
  /\ names \in Seq(Codecs \cup {None}) /\ index \in 1..(Len(names) + 1)
  /\ codec \in Codecs \cup {None}
  /\ pc \in {"closed", "find", "idle", "receive", "read", "send", "flush"}
  /\ codec = None <=> pc \in {"closed", "find"}
  /\ pos \in 1..(Packets + 1) /\ packet \in 0..Packets /\ frame \in 0..Packets
  /\ queue \in Seq(file.frames) /\ Len(queue) <= MaxDelay + 1
  /\ \A i \in 1..Len(queue) : queue[i] < pos /\ \A j \in 1..(i - 1) : queue[j] < queue[i]
  /\ draining \in BOOLEAN /\ broken \in BOOLEAN
  /\ result \in {"none", "frame", "error", "end"} /\ last \in 0..Packets

\* The wrapper is the source of frames that VideoRead and AudioRead take it for.
Source == INSTANCE FrameSource WITH over <- result = "end"
FrameSourceSpec == Source!Spec

\* Every grab and every open returns.
CallsReturn == pc \notin {"closed", "idle"} ~> pc \in {"closed", "idle"}
=============================================================================
