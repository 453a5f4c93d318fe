--------------------------- MODULE Decoder_proofs ---------------------------
(***************************************************************************)
(* Proofs about the wrapper of libavcodec, for all files, lists of          *)
(* decoders and numbers of frames kept back: type correctness, and that it  *)
(* implements FrameSource.                                                  *)
(***************************************************************************)
EXTENDS Decoder, SequenceTheorems, WellFoundedInduction, TLAPS

USE ConstantsAssumption

\* Before a decoder is open nothing has been read.
Untouched == pc \in {"closed", "find"} =>
  /\ pos = 1 /\ queue = <<>> /\ ~draining /\ ~broken
  /\ last = 0 /\ result = "none"
  /\ pc = "closed" => index = 1

\* The names passed over could not be opened.
Tried == pc = "find" => \A i \in 1..(index - 1) : names[i] \notin works

\* A packet is sent to a decoder with room for it, and only after a failed
\* read to one that is draining.
Room == pc \in {"read", "send", "flush"} =>
          IF draining THEN queue = <<>> ELSE Len(queue) <= MaxDelay
Sending == pc = "send" =>
  /\ packet \in file.frames /\ pos = packet + 1 /\ last < packet
  /\ \A i \in 1..Len(queue) : queue[i] < packet
  /\ draining => broken

\* A decoder is told to drain at the end of the file or after a failed read.
AtEnd == draining \/ pc = "flush" => broken \/ pos = Packets + 1
Over  == result = "end" => draining /\ queue = <<>>

\* What is kept back is yet to be delivered, and what is yet to be delivered is
\* kept back, on its way or ahead, unless reading has failed.
Later == last < pos /\ \A i \in 1..Len(queue) : last < queue[i]
Good == file.frames \ file.damaged
Complete == \/ draining /\ broken /\ queue = <<>>
            \/ \A g \in Good : g > last =>
                 \/ \E i \in 1..Len(queue) : queue[i] = g
                 \/ g >= pos
                 \/ pc = "send" /\ g = packet

IInv == /\ TypeOK /\ Untouched /\ Tried /\ Room /\ Sending /\ AtEnd /\ Over
        /\ Later /\ Complete
-----------------------------------------------------------------------------
\* The first of the frames ahead, and of the names to try, exists.
LEMMA Least ==
  ASSUME NEW S \in SUBSET Nat, S # {}
  PROVE  LET m == CHOOSE i \in S : \A j \in S : i <= j
         IN  m \in S /\ \A j \in S : m <= j
<1>. DEFINE R == OpToRel(<, Nat)
<1>1. IsWellFoundedOn(R, Nat)
  BY NatLessThanWellFounded
<1>2. \A x, y \in Nat : y < x => <<y, x>> \in R
  BY DEF OpToRel
<1>. HIDE DEF R
<1>3. PICK x \in S : \A y \in S : ~ (<<y, x>> \in R)
  BY <1>1, WFMin
<1>4. ASSUME NEW y \in S PROVE x <= y
  <2>1. ~ (<<y, x>> \in R)
    BY <1>3
  <2>2. ~ (y < x)
    BY <1>2, <2>1
  <2>. QED  BY <2>2
<1>. QED  BY <1>4

\* What the types say of the file.
LEMMA FileFacts ==
  ASSUME TypeOK
  PROVE  /\ file.frames \subseteq 1..Packets /\ file.damaged \subseteq file.frames
         /\ file.keys \subseteq file.frames
         /\ Packets \in Nat /\ MaxDelay \in Nat
BY DEF TypeOK

\* What Head, Tail and Append do to a queue.
LEMMA HeadIsFirst ==
  ASSUME NEW S, NEW q \in Seq(S), q # <<>>
  PROVE  /\ Len(q) \in Nat \ {0} /\ Head(q) = q[1] /\ q[1] \in S
         /\ Tail(q) \in Seq(S) /\ Len(Tail(q)) = Len(q) - 1
         /\ \A i \in 1..Len(Tail(q)) : Tail(q)[i] = q[i + 1]
BY HeadTailProperties, EmptySeq, ElementOfSeq

\* The numbers of a state, apart from its truth values.
LEMMA Numbers ==
  ASSUME TypeOK
  PROVE  /\ pos \in 1..(Packets + 1) /\ packet \in 0..Packets /\ last \in 0..Packets
         /\ Len(queue) \in Nat /\ Len(queue) <= MaxDelay + 1
         /\ \A i \in 1..Len(queue) : queue[i] \in file.frames /\ queue[i] \in 1..Packets
         /\ \A i \in 1..Len(queue) : queue[i] < pos /\ \A j \in 1..(i - 1) : queue[j] < queue[i]
BY FileFacts, ElementOfSeq DEF TypeOK

\* The invariant holds before a file is opened.
LEMMA InductiveInit == Init => IInv
<1>. SUFFICES ASSUME Init PROVE IInv
  OBVIOUS
<1>1. TypeOK
  <2>1. names \in Seq(Codecs \cup {None}) /\ queue \in Seq(file.frames) /\ Len(queue) = 0
        /\ Len(names) = 0
    BY EmptySeq DEF Init
  <2>2. queue \in Seq(file.frames) /\ Len(queue) <= MaxDelay + 1
        /\ \A i \in 1..Len(queue) : queue[i] < pos /\ \A j \in 1..(i - 1) : queue[j] < queue[i]
    BY <2>1 DEF Init
  <2>3. index \in 1..(Len(names) + 1)
    BY <2>1 DEF Init
  <2>4. codec \in Codecs \cup {None} /\ (codec = None <=> pc \in {"closed", "find"})
    BY DEF Init
  <2>5. file \in Files /\ works \subseteq Codecs
    BY DEF Init
  <2>6. /\ pos \in 1..(Packets + 1) /\ packet \in 0..Packets /\ frame \in 0..Packets
        /\ last \in 0..Packets
    BY DEF Init
  <2>7. /\ draining \in BOOLEAN /\ broken \in BOOLEAN
        /\ pc = "closed" /\ result = "none"
    BY DEF Init
  <2>. QED  BY <2>1, <2>2, <2>3, <2>4, <2>5, <2>6, <2>7 DEF TypeOK
<1>2. Untouched /\ Tried /\ Room /\ Sending /\ AtEnd /\ Over /\ Later
  BY DEF Init, Untouched, Tried, Room, Sending, AtEnd, Over, Later
<1>3. Complete
  BY <1>1, FileFacts DEF Init, Complete, Good
<1>. QED  BY <1>1, <1>2, <1>3 DEF IInv

\* A step that leaves nothing open keeps the invariant.
LEMMA BlankKeeps == TypeOK /\ Blank => IInv'
<1>. SUFFICES ASSUME TypeOK, Blank PROVE IInv'
  OBVIOUS
<1>1. <<>> \in Seq(Codecs \cup {None}) /\ <<>> \in Seq(file.frames) /\ Len(<<>>) = 0
  BY EmptySeq
<1>2. TypeOK'
  <2>1. /\ names' = <<>> /\ queue' = <<>> /\ index' = 1 /\ pos' = 1 /\ packet' = 0
        /\ frame' = 0 /\ last' = 0
        /\ index' \in 1..(Len(names') + 1) /\ pos' \in 1..(Packets + 1)
        /\ 0 \in 0..Packets /\ Len(queue') <= MaxDelay + 1
    BY <1>1, FileFacts DEF Blank
  <2>2. /\ codec' \in Codecs \cup {None} /\ (codec' = None <=> pc' \in {"closed", "find"})
        /\ pc' = "closed" /\ result' = "none"
        /\ draining' \in BOOLEAN /\ broken' \in BOOLEAN
        /\ file' \in Files /\ works' \subseteq Codecs /\ file' = file
    BY DEF Blank, TypeOK, fileVars
  <2>. QED  BY <1>1, <2>1, <2>2 DEF TypeOK
<1>3. (Untouched /\ Tried /\ Room /\ Sending /\ AtEnd /\ Over /\ Later)'
  BY <1>1 DEF Blank, Untouched, Tried, Room, Sending, AtEnd, Over, Later
<1>4. Complete'
  BY <1>1, FileFacts DEF Blank, Complete, Good, fileVars
<1>. QED  BY <1>2, <1>3, <1>4 DEF IInv

\* The decoder found is the first usable one of those still to be tried.
LEMMA FoundIsFirst ==
  ASSUME TypeOK, Usable # {}
  PROVE  /\ Found \in Usable
         /\ \A j \in index..(Found - 1) : names[j] = None
<1>1. Usable \in SUBSET Nat
  BY DEF Usable, TypeOK
<1>2. Found \in Usable /\ \A j \in Usable : Found <= j
  BY <1>1, Least DEF Found
<1>3. Found \in index..Len(names) /\ index \in Nat /\ Len(names) \in Nat
  BY <1>2 DEF Usable, TypeOK
<1>4. ASSUME NEW j \in index..(Found - 1) PROVE names[j] = None
  <2>1. j \in index..Len(names) /\ ~ (Found <= j)
    BY <1>3
  <2>. QED  BY <1>2, <2>1 DEF Usable
<1>. QED  BY <1>2, <1>4

\* What TypeOK says of the queue, said of its tail.
TailInPlace ==
  /\ Tail(queue) \in Seq(file.frames) /\ Len(Tail(queue)) <= MaxDelay + 1
  /\ \A i \in 1..Len(Tail(queue)) :
       /\ Tail(queue)[i] < pos
       /\ \A j \in 1..(i - 1) : Tail(queue)[j] < Tail(queue)[i]

\* Giving out the first frame kept back leaves the others in their order.
LEMMA TailStaysInPlace ==
  ASSUME TypeOK, queue # <<>>
  PROVE  TailInPlace
<1>1. /\ Len(queue) \in Nat \ {0} /\ Tail(queue) \in Seq(file.frames)
      /\ Len(Tail(queue)) = Len(queue) - 1
      /\ \A i \in 1..Len(Tail(queue)) : Tail(queue)[i] = queue[i + 1]
  BY HeadIsFirst DEF TypeOK
<1>2. Len(Tail(queue)) <= MaxDelay + 1
  BY <1>1, Numbers, FileFacts
<1>3. ASSUME NEW i \in 1..Len(Tail(queue))
      PROVE  /\ Tail(queue)[i] < pos
             /\ \A j \in 1..(i - 1) : Tail(queue)[j] < Tail(queue)[i]
  <2>1. i + 1 \in 1..Len(queue) /\ Tail(queue)[i] = queue[i + 1]
    BY <1>1
  <2>2. ASSUME NEW j \in 1..(i - 1) PROVE Tail(queue)[j] < Tail(queue)[i]
    <3>1. j \in 1..Len(Tail(queue)) /\ j + 1 \in 1..((i + 1) - 1)
      BY <1>1
    <3>. QED  BY <1>1, <2>1, <3>1, Numbers
  <2>. QED  BY <2>1, <2>2, Numbers
<1>. QED  BY <1>1, <1>2, <1>3 DEF TailInPlace

\* Each step preserves the invariant.
LEMMA InductiveStep == IInv /\ [Next]_vars => IInv'
<1>. SUFFICES ASSUME IInv, [Next]_vars PROVE IInv'
  OBVIOUS
<1>0. TypeOK
  BY DEF IInv
<1>. USE <1>0, FileFacts
     DEF IInv, TypeOK, Untouched, Tried, Room, Sending, AtEnd, Over, Later, Complete,
         Good, fileVars, openVars, avVars, ghosts
<1>1. ASSUME NEW l \in Lists, Open(l)
      PROVE  IInv'
  <2>1. TypeOK'
    BY <1>1 DEF Open
  <2>2. (Untouched /\ Tried /\ Room /\ Sending /\ AtEnd /\ Over)'
    BY <1>1 DEF Open
  <2>3. (Later /\ Complete)'
    BY <1>1 DEF Open
  <2>. QED  BY <2>1, <2>2, <2>3
<1>2. ASSUME NEW c \in Codecs, OpenAgain(c)
      PROVE  IInv'
  <2>1. TypeOK'
    BY <1>2 DEF OpenAgain
  <2>2. (Untouched /\ Tried /\ Room /\ Sending /\ AtEnd /\ Over)'
    BY <1>2 DEF OpenAgain
  <2>3. (Later /\ Complete)'
    BY <1>2 DEF OpenAgain
  <2>. QED  BY <2>1, <2>2, <2>3
<1>3. CASE OpenPreferred
  <2>0. Found \in index..Len(names)
    BY <1>3, FoundIsFirst DEF OpenPreferred, Usable
  <2>1. TypeOK'
    BY <1>3, <2>0 DEF OpenPreferred, Usable
  <2>2. (Untouched /\ Tried /\ Room /\ Sending /\ AtEnd /\ Over)'
    BY <1>3, <2>0 DEF OpenPreferred, Usable
  <2>3. (Later /\ Complete)'
    BY <1>3, <2>0 DEF OpenPreferred, Usable
  <2>. QED  BY <2>1, <2>2, <2>3
<1>4. CASE TryNext
  <2>0. /\ Found \in index..Len(names) /\ names[Found] \notin works
        /\ \A j \in index..(Found - 1) : names[j] = None
    BY <1>4, FoundIsFirst DEF TryNext, Usable
  <2>1. TypeOK'
    BY <1>4, <2>0 DEF TryNext
  <2>2. (Untouched /\ Tried /\ Room /\ Sending /\ AtEnd /\ Over)'
    BY <1>4, <2>0 DEF TryNext
  <2>3. (Later /\ Complete)'
    BY <1>4, <2>0 DEF TryNext
  <2>. QED  BY <2>1, <2>2, <2>3
<1>5. CASE CannotRewind
  BY <1>5, BlankKeeps DEF CannotRewind
<1>6. CASE OpenDefault
  <2>1. TypeOK'
    BY <1>6 DEF OpenDefault
  <2>2. (Untouched /\ Tried /\ Room /\ Sending /\ AtEnd /\ Over)'
    BY <1>6 DEF OpenDefault
  <2>3. (Later /\ Complete)'
    BY <1>6 DEF OpenDefault
  <2>. QED  BY <2>1, <2>2, <2>3
<1>7. CASE OpenFails
  BY <1>7, BlankKeeps DEF OpenFails
<1>8. CASE Close
  BY <1>8, BlankKeeps DEF Close
<1>9. ASSUME NEW t \in file.frames, Seek(t)
      PROVE  IInv'
  <2>0. <<>> \in Seq(file.frames) /\ Len(<<>>) = 0
    BY EmptySeq
  <2>1. PICK k \in file.keys : k <= t /\ pos' = k /\ last' = k - 1
    BY <1>9 DEF Seek
  <2>2. k \in 1..Packets /\ pos' \in 1..(Packets + 1) /\ last' \in 0..Packets
    BY <2>1
  <2>3. /\ queue' = <<>> /\ draining' = FALSE /\ broken' = FALSE /\ result' = "none"
        /\ pc = "idle"
        /\ UNCHANGED <<fileVars, openVars, pc, packet, frame>>
    BY <1>9 DEF Seek
  <2>4. TypeOK'
    <3>1. /\ queue' \in Seq(file'.frames) /\ Len(queue') <= MaxDelay + 1
          /\ \A i \in 1..Len(queue') :
               queue'[i] < pos' /\ \A j \in 1..(i - 1) : queue'[j] < queue'[i]
      BY <2>0, <2>3
    <3>2. /\ draining' \in BOOLEAN /\ broken' \in BOOLEAN
          /\ result' \in {"none", "frame", "error", "end"}
      BY <2>3
    <3>. QED  BY <2>2, <2>3, <3>1, <3>2
  <2>5. (Untouched /\ Tried /\ Room /\ Sending /\ AtEnd /\ Over)'
    BY <2>3
  <2>6. (Later /\ Complete)'
    BY <2>0, <2>1, <2>2, <2>3
  <2>. QED  BY <2>4, <2>5, <2>6
<1>10. CASE Grab
  <2>1. TypeOK'
    BY <1>10 DEF Grab
  <2>2. (Untouched /\ Tried /\ Room /\ Sending /\ AtEnd /\ Over)'
    BY <1>10 DEF Grab
  <2>3. (Later /\ Complete)'
    BY <1>10 DEF Grab
  <2>. QED  BY <2>1, <2>2, <2>3
<1>11. CASE Receive
  <2>0. /\ Len(queue) \in Nat \ {0} /\ Head(queue) = queue[1] /\ queue[1] \in file.frames
        /\ Tail(queue) \in Seq(file.frames) /\ Len(Tail(queue)) = Len(queue) - 1
        /\ \A i \in 1..Len(Tail(queue)) : Tail(queue)[i] = queue[i + 1]
    BY <1>11, HeadIsFirst DEF Receive
  <2>1. TypeOK'
    <3>1. /\ queue' = Tail(queue) /\ frame' = queue[1] /\ last' = queue[1]
          /\ pc' = "idle" /\ result' = "frame" /\ codec # None
          /\ UNCHANGED <<fileVars, openVars, pos, packet, draining, broken>>
      BY <1>11, <2>0 DEF Receive, Returns
    <3>2. TailInPlace
      BY <1>11, TailStaysInPlace DEF Receive
    <3>3. queue[1] \in 0..Packets
      BY <2>0
    <3>. QED  BY <2>0, <3>1, <3>2, <3>3 DEF TailInPlace
  <2>2. (Untouched /\ Tried /\ Room /\ Sending /\ AtEnd /\ Over)'
    BY <1>11, <2>0 DEF Receive, Returns
  <2>3. /\ last' = queue[1] /\ queue' = Tail(queue) /\ UNCHANGED <<file, pos>>
    BY <1>11, <2>0 DEF Receive
  <2>4. last < last' /\ last' < pos
    BY <2>0, <2>3
  <2>5. Later'
    BY <2>0, <2>3, <2>4
  <2>6. ASSUME NEW g \in Good, g > last', ~ (g >= pos)
        PROVE  \E i \in 1..Len(queue') : queue'[i] = g
    <3>0. g \in Nat /\ last \in Nat /\ last' \in Nat /\ g > last
      BY <2>0, <2>3, <2>4, <2>6
    <3>1. PICK i \in 1..Len(queue) : queue[i] = g
      BY <1>11, <2>6, <3>0 DEF Receive
    <3>2. i - 1 \in 1..Len(Tail(queue)) /\ Tail(queue)[i - 1] = g
      BY <2>0, <2>3, <2>6, <3>1
    <3>. QED  BY <2>3, <3>2
  <2>7. Complete'
    BY <2>3, <2>6
  <2>. QED  BY <2>1, <2>2, <2>5, <2>7
<1>12. CASE ReceiveFails
  <2>0. /\ Len(queue) \in Nat \ {0} /\ Head(queue) = queue[1] /\ queue[1] \in file.frames
        /\ Tail(queue) \in Seq(file.frames) /\ Len(Tail(queue)) = Len(queue) - 1
        /\ \A i \in 1..Len(Tail(queue)) : Tail(queue)[i] = queue[i + 1]
    BY <1>12, HeadIsFirst DEF ReceiveFails
  <2>1. TypeOK'
    <3>1. /\ queue' = Tail(queue) /\ frame' = 0
          /\ pc' = "idle" /\ result' = "error" /\ codec # None
          /\ UNCHANGED <<fileVars, openVars, pos, packet, draining, ghosts>>
      BY <1>12, <2>0 DEF ReceiveFails, Returns
    <3>2. TailInPlace
      BY <1>12, TailStaysInPlace DEF ReceiveFails
    <3>. QED  BY <2>0, <3>1, <3>2 DEF TailInPlace
  <2>2. (Untouched /\ Tried /\ Room /\ Sending /\ AtEnd /\ Over)'
    BY <1>12, <2>0 DEF ReceiveFails, Returns
  <2>3. queue' = Tail(queue) /\ queue[1] \in file.damaged /\ UNCHANGED <<file, pos, last>>
    BY <1>12, <2>0 DEF ReceiveFails
  <2>4. Later'
    BY <2>0, <2>3
  <2>5. ASSUME NEW g \in Good, g > last, ~ (g >= pos)
        PROVE  \E i \in 1..Len(queue') : queue'[i] = g
    <3>1. PICK i \in 1..Len(queue) : queue[i] = g
      BY <1>12, <2>0, <2>5 DEF ReceiveFails
    <3>2. i - 1 \in 1..Len(Tail(queue)) /\ Tail(queue)[i - 1] = g
      BY <2>0, <2>3, <2>5, <3>1
    <3>. QED  BY <2>3, <3>2
  <2>6. Complete'
    BY <2>3, <2>5
  <2>. QED  BY <2>1, <2>2, <2>4, <2>6
<1>13. CASE NothingYet
  <2>1. TypeOK'
    BY <1>13 DEF NothingYet
  <2>2. (Untouched /\ Tried /\ Room /\ Sending /\ AtEnd /\ Over)'
    BY <1>13 DEF NothingYet
  <2>3. (Later /\ Complete)'
    BY <1>13 DEF NothingYet
  <2>. QED  BY <2>1, <2>2, <2>3
<1>14. CASE Read
  <2>0. PICK p \in Ahead : packet' = p /\ \A j \in Ahead : p <= j
    <3>1. Ahead \in SUBSET Nat
      BY DEF Ahead
    <3>. QED  BY <1>14, <3>1, Least DEF Read
  <2>1. /\ p \in file.frames /\ p \in 1..Packets /\ pos <= p
        /\ \A j \in file.frames : j >= pos => p <= j
    BY <2>0 DEF Ahead
  <2>2. /\ pc = "read" /\ pc' = "send" /\ packet' = p /\ pos' = p + 1
        /\ UNCHANGED <<fileVars, openVars, queue, draining, frame, result, ghosts>>
    BY <1>14, <2>0 DEF Read
  <2>3. /\ p + 1 \in 1..(Packets + 1) /\ last < p
        /\ \A i \in 1..Len(queue) : queue[i] \in Nat /\ queue[i] < p
    <3>1. p + 1 \in 1..(Packets + 1) /\ p \in Nat /\ pos \in Nat /\ last \in Nat
      BY <2>1, Numbers
    <3>2. last < p
      BY <2>1, <3>1
    <3>3. \A i \in 1..Len(queue) : queue[i] \in 1..Packets /\ queue[i] < pos
      BY Numbers
    <3>4. ASSUME NEW i \in 1..Len(queue)
          PROVE  queue[i] \in Nat /\ queue[i] < p
      <4>1. queue[i] \in Nat /\ queue[i] < pos
        BY <3>3
      <4>. HIDE <1>0, FileFacts, ConstantsAssumption
           DEF IInv, TypeOK, Later, Complete, Sending
      <4>. QED  BY <2>1, <3>1, <4>1
    <3>. QED  BY <3>1, <3>2, <3>4
  <2>4. TypeOK'
    <3>1. /\ queue' \in Seq(file'.frames) /\ Len(queue') <= MaxDelay + 1
          /\ \A i \in 1..Len(queue') :
               queue'[i] < p + 1 /\ \A j \in 1..(i - 1) : queue'[j] < queue'[i]
      BY <2>1, <2>2, <2>3, Numbers
    <3>. QED  BY <2>1, <2>2, <2>3, <3>1
  <2>5. (Untouched /\ Tried /\ Room /\ AtEnd /\ Over)'
    <3>1. ~ (pos = Packets + 1)
      BY <2>1, <2>3
    <3>. QED  BY <2>2, <3>1
  <2>6. Sending'
    <3>1. draining => broken
      BY <2>1, <2>2
    <3>. QED  BY <2>1, <2>2, <2>3, <3>1
  <2>7. Later'
    BY <2>1, <2>2, <2>3, Numbers
  <2>8. \A g \in Good : g >= pos => g = p \/ g >= p + 1
    BY <2>1
  <2>9. Complete'
    BY <2>2, <2>8
  <2>. QED  BY <2>4, <2>5, <2>6, <2>7, <2>9
<1>15. CASE NoMorePackets
  <2>1. TypeOK'
    BY <1>15 DEF NoMorePackets, Ahead
  <2>2. (Untouched /\ Tried /\ Room /\ Sending /\ AtEnd /\ Over)'
    BY <1>15 DEF NoMorePackets, Ahead
  <2>3. (Later /\ Complete)'
    BY <1>15 DEF NoMorePackets, Ahead
  <2>. QED  BY <2>1, <2>2, <2>3
<1>16. CASE ReadFails
  <2>1. TypeOK'
    BY <1>16 DEF ReadFails
  <2>2. (Untouched /\ Tried /\ Room /\ Sending /\ AtEnd /\ Over)'
    BY <1>16 DEF ReadFails
  <2>3. (Later /\ Complete)'
    BY <1>16 DEF ReadFails
  <2>. QED  BY <2>1, <2>2, <2>3
<1>17. CASE Flush
  <2>1. TypeOK'
    BY <1>17 DEF Flush, Returns
  <2>2. (Untouched /\ Tried /\ Room /\ Sending /\ AtEnd /\ Over)'
    BY <1>17 DEF Flush, Returns
  <2>3. (Later /\ Complete)'
    BY <1>17 DEF Flush, Returns
  <2>. QED  BY <2>1, <2>2, <2>3
<1>18. CASE Send
  <2>1. /\ pc = "send" /\ UNCHANGED <<fileVars, openVars, pos, packet, draining, frame, ghosts>>
    BY <1>18 DEF Send
  <2>2. CASE draining /\ Returns("end") /\ UNCHANGED queue
    <3>1. broken /\ queue = <<>>
      BY <2>1, <2>2
    <3>2. TypeOK'
      BY <2>1, <2>2 DEF Returns
    <3>3. (Untouched /\ Tried /\ Room /\ Sending /\ AtEnd /\ Over /\ Later /\ Complete)'
      BY <2>1, <2>2, <3>1 DEF Returns
    <3>. QED  BY <3>2, <3>3
  <2>3. CASE ~draining /\ packet \in file.damaged /\ Returns("error") /\ UNCHANGED queue
    <3>1. TypeOK'
      BY <2>1, <2>3 DEF Returns
    <3>2. (Untouched /\ Tried /\ Room /\ Sending /\ AtEnd /\ Over /\ Later /\ Complete)'
      BY <2>1, <2>3 DEF Returns
    <3>. QED  BY <3>1, <3>2
  <2>4. CASE ~draining /\ queue' = Append(queue, packet) /\ pc' = "receive" /\ UNCHANGED result
    <3>1. /\ queue' \in Seq(file.frames) /\ Len(queue') = Len(queue) + 1
          /\ \A i \in 1..Len(queue) : queue'[i] = queue[i]
          /\ queue'[Len(queue) + 1] = packet
      BY <2>1, <2>4, AppendProperties
    <3>2. /\ packet < pos /\ last < packet /\ packet \in Nat /\ pos \in Nat /\ last \in Nat
          /\ \A i \in 1..Len(queue) : queue[i] < packet
          /\ Len(queue) \in Nat /\ Len(queue) <= MaxDelay
      BY <2>1, <2>4, Numbers
    <3>3. \A i \in 1..Len(queue') : i \in 1..Len(queue) \/ i = Len(queue) + 1
      BY <3>1, <3>2
    <3>4. TypeOK'
      <4>1. ASSUME NEW i \in 1..Len(queue')
            PROVE  queue'[i] < pos /\ \A j \in 1..(i - 1) : queue'[j] < queue'[i]
        <5>1. CASE i \in 1..Len(queue)
          <6>1. \A j \in 1..(i - 1) : j \in 1..Len(queue)
            BY <3>2, <5>1
          <6>. QED  BY <3>1, <5>1, <6>1, Numbers
        <5>2. CASE i = Len(queue) + 1
          <6>1. 1..(i - 1) = 1..Len(queue)
            BY <3>2, <5>2
          <6>. QED  BY <3>1, <3>2, <5>2, <6>1
        <5>. QED  BY <3>3, <5>1, <5>2
      <4>2. Len(queue') <= MaxDelay + 1
        BY <3>1, <3>2
      <4>. QED  BY <2>1, <2>4, <3>1, <4>1, <4>2
    <3>5. (Untouched /\ Tried /\ Room /\ Sending /\ AtEnd /\ Over)'
      BY <2>1, <2>4
    <3>6. Later'
      BY <2>1, <3>1, <3>2, <3>3
    <3>7. Complete'
      <4>1. Len(queue) + 1 \in 1..Len(queue') /\ 1..Len(queue) \subseteq 1..Len(queue')
        BY <3>1, <3>2
      <4>2. ASSUME NEW g \in Good, g > last, ~ (g >= pos)
            PROVE  \E i \in 1..Len(queue') : queue'[i] = g
        <5>1. (\E i \in 1..Len(queue) : queue[i] = g) \/ g = packet
          BY <2>1, <2>4, <4>2
        <5>. QED  BY <3>1, <4>1, <5>1
      <4>. QED  BY <2>1, <4>2
    <3>. QED  BY <3>4, <3>5, <3>6, <3>7
  <2>. QED  BY <1>18, <2>2, <2>3, <2>4 DEF Send
<1>19. CASE UNCHANGED vars
  <2>1. TypeOK'
    BY <1>19 DEF vars
  <2>2. (Untouched /\ Tried /\ Room /\ Sending /\ AtEnd /\ Over)'
    BY <1>19 DEF vars
  <2>3. (Later /\ Complete)'
    BY <1>19 DEF vars
  <2>. QED  BY <2>1, <2>2, <2>3
<1>. QED
  BY <1>1, <1>2, <1>3, <1>4, <1>5, <1>6, <1>7, <1>8, <1>9, <1>10, <1>11, <1>12, <1>13, <1>14, <1>15, <1>16, <1>17, <1>18, <1>19
     DEF Next, Opening, Grabbing
-----------------------------------------------------------------------------
(* What the wrapper keeps holds in every state it can reach: nothing between
   the last frame and the place of reading is lost but what cannot be decoded. *)
THEOREM Inductive == Spec => []IInv
BY InductiveInit, InductiveStep, PTL DEF Spec

(* The types, with the decoder's bound on what it keeps back, the order of it,
   and that a decoder is open exactly from ffmpeg_open's return to the close. *)
THEOREM TypeCorrect == Spec => []TypeOK
<1>1. IInv => TypeOK
  BY DEF IInv
<1>. QED  BY <1>1, Inductive, PTL
-----------------------------------------------------------------------------
(* The refinement of FrameSource. *)

\* The wrapper begins as a source of frames that is closed.
LEMMA InitMaps == Init => Source!Init
BY DEF Init, Source!Init, Source!Closed

\* The head of what is kept back is the frame that is due.
LEMMA HeadIsDue ==
  ASSUME IInv, pc = "receive", queue # <<>>, Head(queue) \notin file.damaged
  PROVE  /\ Source!Due # {}
         /\ Head(queue) = CHOOSE f \in Source!Due : \A g \in Source!Due : f <= g
<1>0. TypeOK
  BY DEF IInv
<1>1. /\ Len(queue) \in Nat \ {0} /\ Head(queue) = queue[1] /\ queue[1] \in file.frames
  BY <1>0, HeadIsFirst DEF TypeOK
<1>2. Source!Due \in SUBSET Nat
  BY <1>0, FileFacts DEF Source!Due, Source!Good
<1>3. queue[1] \in Source!Due
  BY <1>1 DEF IInv, Later, Source!Due, Source!Good
<1>4. ASSUME NEW g \in Source!Due PROVE queue[1] <= g
  <2>1. g \in Good /\ g > last /\ g \in Nat /\ queue[1] \in Nat /\ pos \in Nat
    BY <1>0, <1>1, <1>2, <1>3, <1>4 DEF TypeOK, Source!Due, Source!Good, Good
  <2>2. (\E i \in 1..Len(queue) : queue[i] = g) \/ g >= pos
    BY <2>1 DEF IInv, Complete
  <2>3. CASE g >= pos
    <3>1. queue[1] < pos
      BY <1>0, <1>1, Numbers
    <3>. QED  BY <2>1, <2>3, <3>1
  <2>4. CASE \E i \in 1..Len(queue) : queue[i] = g
    <3>1. PICK i \in 1..Len(queue) : queue[i] = g
      BY <2>4
    <3>2. i = 1 \/ 1 \in 1..(i - 1)
      BY <1>1, <3>1
    <3>3. i = 1 \/ queue[1] < queue[i]
      BY <1>0, <3>1, <3>2, Numbers
    <3>. QED  BY <2>1, <3>1, <3>3
  <2>. QED  BY <2>2, <2>3, <2>4
<1>5. DEFINE m == CHOOSE f \in Source!Due : \A g \in Source!Due : f <= g
<1>6. m \in Source!Due /\ \A g \in Source!Due : m <= g
  BY <1>2, <1>3, Least
<1>. HIDE DEF m
<1>7. m <= queue[1] /\ queue[1] <= m /\ m \in Nat /\ queue[1] \in Nat
  BY <1>2, <1>3, <1>4, <1>6
<1>8. queue[1] = m
  BY <1>7
<1>. QED  BY <1>1, <1>3, <1>8 DEF m

\* At the end of the file, and nothing kept back, nothing is due.
LEMMA NothingDue ==
  ASSUME IInv, draining, pc = "flush" \/ pc = "send"
  PROVE  Source!Due = {} \/ broken
<1>0. TypeOK
  BY DEF IInv
<1>1. CASE broken
  BY <1>1
<1>2. CASE ~broken
  <2>1. pc = "flush" /\ queue = <<>> /\ pos = Packets + 1
    BY <1>2 DEF IInv, Sending, Room, AtEnd
  <2>2. ASSUME NEW g \in Source!Due PROVE FALSE
    <3>1. g \in Good /\ g > last /\ g \in 1..Packets
      BY <1>0, <2>2, FileFacts DEF Source!Due, Source!Good, Good
    <3>2. ~ (g >= pos)
      BY <2>1, <3>1
    <3>3. \E i \in 1..Len(queue) : queue[i] = g
      BY <1>2, <2>1, <3>1, <3>2 DEF IInv, Complete
    <3>. QED  BY <2>1, <3>3, EmptySeq
  <2>. QED  BY <2>2
<1>. QED  BY <1>1, <1>2

\* Each step of the wrapper is a step of the source of frames or changes nothing of it.
LEMMA StepMaps == IInv /\ [Next]_vars => [Source!Next]_Source!vars
<1>. SUFFICES ASSUME IInv, [Next]_vars PROVE [Source!Next]_Source!vars
  OBVIOUS
<1>0. TypeOK
  BY DEF IInv
<1>. USE DEF Source!Next, Source!vars, fileVars, openVars, avVars, ghosts
<1>20. Blank => Source!Next
  BY DEF Blank, Source!Close, Source!Closed
<1>1. ASSUME NEW l \in Lists, Open(l) PROVE Source!Next
  BY <1>0, <1>1 DEF Open, TypeOK, Source!Want
<1>2. ASSUME NEW c \in Codecs, OpenAgain(c) PROVE Source!Next
  BY <1>0, <1>2 DEF OpenAgain, TypeOK, Source!OpenGiven
<1>3. CASE OpenPreferred
  <2>1. Found \in index..Len(names) /\ \A j \in index..(Found - 1) : names[j] = None
    BY <1>0, <1>3, FoundIsFirst DEF OpenPreferred, Usable
  <2>2. \A j \in 1..(Found - 1) : names[j] \notin works
    <3>1. /\ index \in Nat /\ Found \in Nat /\ None \notin works
          /\ \A j \in 1..(index - 1) : names[j] \notin works
      BY <1>0, <1>3, <2>1, ConstantsAssumption DEF OpenPreferred, IInv, Tried, TypeOK
    <3>2. \A j \in 1..(Found - 1) : j \in 1..(index - 1) \/ j \in index..(Found - 1)
      BY <3>1
    <3>. QED  BY <2>1, <3>1, <3>2
  <2>3. Source!First(names[Found])
    <3>1. Found \in 1..Len(names) /\ names[Found] \in works
      BY <1>0, <1>3, <2>1 DEF OpenPreferred, TypeOK
    <3>. QED  BY <2>2, <3>1 DEF Source!First
  <2>. QED  BY <1>0, <1>3, <2>3 DEF OpenPreferred, Source!Open, TypeOK
<1>4. CASE TryNext
  BY <1>4 DEF TryNext
<1>5. CASE CannotRewind
  BY <1>5, <1>20 DEF CannotRewind
<1>6. CASE OpenDefault
  <2>1. \A j \in 1..Len(names) : names[j] \notin works
    <3>1. /\ index \in Nat /\ Len(names) \in Nat /\ None \notin works
          /\ \A j \in 1..(index - 1) : names[j] \notin works
          /\ \A j \in index..Len(names) : names[j] = None
      BY <1>0, <1>6, ConstantsAssumption DEF OpenDefault, Usable, IInv, Tried, TypeOK
    <3>2. \A j \in 1..Len(names) : j \in 1..(index - 1) \/ j \in index..Len(names)
      BY <3>1
    <3>. QED  BY <3>1, <3>2
  <2>2. Source!First(Default)
    BY <1>6, <2>1 DEF OpenDefault, Source!First
  <2>. QED  BY <1>0, <1>6, <2>2 DEF OpenDefault, Source!Open, TypeOK
<1>7. CASE OpenFails
  BY <1>7, <1>20 DEF OpenFails
<1>8. CASE Close
  BY <1>8, <1>20 DEF Close
<1>9. ASSUME NEW t \in file.frames, Seek(t) PROVE Source!Next
  BY <1>0, <1>9 DEF Seek, TypeOK, Source!Seek
<1>10. CASE Grab
  BY <1>10 DEF Grab
<1>11. CASE Receive
  <2>1. codec # None /\ result # "end"
    BY <1>0, <1>11 DEF Receive, IInv, Over, TypeOK
  <2>. QED  BY <1>11, <2>1, HeadIsDue DEF Receive, Returns, Source!Frame
<1>12. CASE ReceiveFails
  <2>1. codec # None /\ result # "end"
    BY <1>0, <1>12 DEF ReceiveFails, IInv, Over, TypeOK
  <2>2. Head(queue) \in file.damaged /\ Head(queue) > last
    BY <1>0, <1>12, HeadIsFirst DEF ReceiveFails, IInv, Later, TypeOK
  <2>. QED  BY <1>12, <2>1, <2>2 DEF ReceiveFails, Returns, Source!Error
<1>13. CASE NothingYet
  BY <1>13 DEF NothingYet
<1>14. CASE Read
  BY <1>14 DEF Read
<1>15. CASE NoMorePackets
  BY <1>15 DEF NoMorePackets
<1>16. CASE ReadFails
  BY <1>0, <1>16 DEF ReadFails, TypeOK, Source!ReadFails
<1>17. CASE Flush
  <2>1. CASE draining
    BY <1>0, <1>17, <2>1, NothingDue DEF Flush, Returns, TypeOK, Source!End
  <2>2. CASE ~draining
    BY <1>17, <2>2 DEF Flush
  <2>. QED  BY <2>1, <2>2
<1>18. CASE Send
  <2>1. CASE draining
    BY <1>0, <1>18, <2>1, NothingDue DEF Send, Returns, TypeOK, Source!End
  <2>2. CASE ~draining /\ packet \in file.damaged /\ Returns("error")
    <3>1. codec # None /\ result # "end" /\ packet > last
      BY <1>0, <1>18, <2>2 DEF Send, IInv, Over, Sending, TypeOK
    <3>. QED  BY <1>18, <2>2, <3>1 DEF Send, Returns, Source!Error
  <2>3. CASE ~draining /\ UNCHANGED result
    BY <1>18, <2>3 DEF Send
  <2>. QED  BY <1>18, <2>1, <2>2, <2>3 DEF Send
<1>19. CASE UNCHANGED vars
  BY <1>19 DEF vars
<1>. QED
  BY <1>1, <1>2, <1>3, <1>4, <1>5, <1>6, <1>7, <1>8, <1>9, <1>10, <1>11, <1>12, <1>13,
     <1>14, <1>15, <1>16, <1>17, <1>18, <1>19 DEF Next, Opening, Grabbing

(* The wrapper is a source of frames: the first usable decoder is opened, every
   frame comes once and in its place, the end is reported only when nothing is
   left or reading has failed, and stays reported until a seek. *)
THEOREM ImplementsFrameSource == Spec => FrameSourceSpec
BY InitMaps, StepMaps, Inductive, PTL DEF Spec, FrameSourceSpec, Source!Spec
=============================================================================
