----------------------------- MODULE MCMinWasi -----------------------------
(***************************************************************************)
(* Small instances of MinWasi for TLC.                                     *)
(***************************************************************************)
EXTENDS MinWasi, TLC

CONSTANT Values   \* of the first four cells

\* Two iovecs at 0 in all combinations of Values, one at 6 as well in the
\* larger memory, where the next one wraps around to 0.
MCMemories ==
  {SubSeq(<<f[1], f[2], f[3], f[4], 4, 5, 2, 1>>, 1, n) : f \in [1 .. 4 -> Values], n \in {6, 8}}

MCInputs == {<<>>, <<3>>, <<1, 1, 0, 2, 6, 5, 4, 3, 2, 1>>}

\* Empty, more strings than the limit, one too long, and a sum of 2^32.
MCStringLists ==
  {<<>>, <<<<1>>>>, <<<<2, 3>>, <<>>>>, <<<<1>>, <<2>>, <<3>>>>,
   <<<<>>, <<1, 2, 3, 4, 5, 6, 7>>>>, <<<<1, 2, 3>>, <<4, 5, 6>>>>}

\* The products of the conversions overflow at 5 and 11 counts with a frequency
\* of 6, and at 22 ticks with a timebase of 3.
MCClocks ==
  [os : {"windows"}, count : {0, 1, 5, 6, 11}, counts_per_sec : {0, 2, 3, 6}, refused : BOOLEAN]
    \cup [os : {"mac"}, ticks : {0, 1, 2, 5, 7, 22}, numer : {1, 3}, denom : {1, 2}, sec : {0, 3}, usec : {0, 1, 3}]
    \cup [os : {"posix"}, sec : {0, 7, 9}, nsec : {0, 7}, res : {1}, refused : BOOLEAN]
=============================================================================
