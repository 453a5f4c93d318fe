---------------------------- MODULE MCVideoRead ----------------------------
\* Instances of VideoRead for TLC: the files and who asks for which frames.
EXTENDS VideoRead, TLC

CONSTANTS a, b

File(keys, lead, damaged) == [keys |-> keys, lead |-> lead, damaged |-> damaged]

\* A plain file, one with three GOPs, one that cannot be decoded from its
\* start, both kinds damaged, and one cut off behind its last key frame, from
\* which nothing can be decoded any more.  Of the sound ones with frames before
\* the first key frame, one has a second GOP close behind the first.
AllFiles == {File({0, 4}, 0, FALSE), File({0, 3, 6}, 0, FALSE), File({1, 4}, 1, FALSE),
             File({1, 4}, 0, FALSE), File({1, 2}, 1, FALSE), File({0, 4}, 0, TRUE),
             File({1, 4}, 1, TRUE), File({1, 6}, 1, TRUE)}
\* Two viewers in parts further apart than find_stream calls near; the second
\* asks for one frame too many.
TwoParts == a :> (0..2) @@ b :> (4..7)
=============================================================================
