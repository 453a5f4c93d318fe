---------------------------- MODULE MCAudioRead ----------------------------
\* Instances of AudioRead for TLC: the files and who asks for which offsets.
EXTENDS AudioRead, TLC

CONSTANTS a, b

\* A file of frames of two samples.
Even(length, drops, damaged) ==
  [frames |-> {f \in 0..length - 1 : f % 2 = 0}, length |-> length,
   drops |-> drops, damaged |-> damaged, delay |-> 0]

\* One that is sound, one whose first frame cannot be decoded, both damaged,
\* and one whose sample rate is converted.
EvenFiles == {Even(12, drops, damaged) : drops \in BOOLEAN, damaged \in BOOLEAN}
               \cup {[Even(12, FALSE, FALSE) EXCEPT !.delay = 1]}
\* Two handles in parts of the file that no decoder is near to both of; the
\* second reads past the end.
TwoParts == a :> (0..3) @@ b :> (9..11)

\* One handle anywhere in a file whose last frame is shorter.
ShortEnd == {Even(7, FALSE, FALSE)}
Anywhere == a :> (0..8)
=============================================================================
