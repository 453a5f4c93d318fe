----------------------------- MODULE MCDecoder -----------------------------
(* Instances of Decoder for TLC. *)
EXTENDS Decoder

CONSTANTS d1, d2, d3

\* Six packets, the third of another stream, two key frames; the frames are
\* all sound, or one or two of them cannot be decoded.
Frames == {1, 2, 4, 5, 6}
SomeFiles == {[frames |-> Frames, damaged |-> d, keys |-> {1, 4}] :
                d \in {{}, {1}, {4, 5}, {6}}}

\* Names that are no decoder of the format, in front, between and alone.
SomeLists == {<<>>, <<None>>, <<d1>>, <<None, d1, d2>>, <<d2, None, d1>>}
=============================================================================
