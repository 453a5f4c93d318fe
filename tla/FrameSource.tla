---------------------------- MODULE FrameSource ----------------------------
(***************************************************************************)
(* What the readers take ffmpeg.c for: a source of the frames of one stream *)
(* of a file.  It is opened with the first of the wanted decoders that can  *)
(* be opened; each grab yields the frame that follows the last one, those   *)
(* that cannot be decoded left out, none twice and none of another place;   *)
(* it is over only when there are no more, or when reading has failed, and  *)
(* then stays over until a seek, which goes on at a key frame not after its *)
(* target.                                                                  *)
(***************************************************************************)
EXTENDS Naturals, Sequences

CONSTANTS None,     \* no decoder
          Default   \* the decoder of the format, for when none is wanted

VARIABLES file,     \* the frames, the undecodable and the key frames among them
          works,    \* the decoders that can be opened
          names,    \* the decoders that are wanted, in order
          codec,    \* the decoder that is open
          last,     \* the frame before the one that is due
          over,     \* has the end been reported
          broken,   \* has reading failed
          result    \* of the last grab

vars == <<file, works, names, codec, last, over, broken, result>>

Good == file.frames \ file.damaged
Due  == {f \in Good : f > last}

Closed == codec = None /\ last = 0 /\ ~over /\ ~broken /\ result = "none"

Init == Closed /\ names = <<>>

Want(list) == codec = None /\ names' = list
                /\ UNCHANGED <<file, works, codec, last, over, broken, result>>

\* What a list of names comes to.
First(c) == \/ \E i \in 1..Len(names) :
                 /\ names[i] = c /\ c \in works
                 /\ \A j \in 1..(i - 1) : names[j] \notin works
            \/ /\ c = Default /\ c \in works
               /\ \A i \in 1..Len(names) : names[i] \notin works

Open(c) == /\ codec = None /\ First(c)
           /\ codec' = c
           /\ UNCHANGED <<file, works, names, last, over, broken, result>>

\* A further reader of the file is given the decoder of the first.
OpenGiven(c) == /\ codec = None /\ c \in works
                /\ names' = <<c>> /\ codec' = c
                /\ UNCHANGED <<file, works, last, over, broken, result>>

Frame == /\ codec # None /\ ~over /\ Due # {}
         /\ last' = CHOOSE f \in Due : \A g \in Due : f <= g
         /\ result' = "frame"
         /\ UNCHANGED <<file, works, names, codec, over, broken>>

Error == /\ codec # None /\ ~over
         /\ \E f \in file.damaged : f > last
         /\ result' = "error"
         /\ UNCHANGED <<file, works, names, codec, last, over, broken>>

End == /\ codec # None
       /\ Due = {} \/ broken
       /\ over' = TRUE /\ result' = "end"
       /\ UNCHANGED <<file, works, names, codec, last, broken>>

ReadFails == /\ codec # None
             /\ broken' = TRUE
             /\ UNCHANGED <<file, works, names, codec, last, over, result>>

Seek(f) == /\ codec # None /\ f \in file.keys
           /\ last' = f - 1 /\ over' = FALSE /\ broken' = FALSE /\ result' = "none"
           /\ UNCHANGED <<file, works, names, codec>>

Close == Closed' /\ names' = <<>> /\ UNCHANGED <<file, works>>

Next == \/ Want(names') \/ (\E c \in works : Open(c) \/ OpenGiven(c))
        \/ Frame \/ Error \/ End \/ ReadFails
        \/ (\E f \in file.keys : Seek(f)) \/ Close

Spec == Init /\ [][Next]_vars
=============================================================================
