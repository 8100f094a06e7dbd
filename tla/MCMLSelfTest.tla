--------------------------- MODULE MCMLSelfTest ----------------------------
EXTENDS MLSelfTest

Mtx(t) == [k \in Idx |-> t[k + 1]]

\* Identity and a 90-degree turn about Z.
MCMounts ==
  { Mtx(<< 1, 0, 0,   0, 1, 0,   0, 0, 1>>),
    Mtx(<< 0, 1, 0,  -1, 0, 0,   0, 0, 1>>) }

\* Bytes on both sides of the 6-bit sign boundary, one with upper bits set.
MCAtcValues == {31, 32, 97}

=============================================================================
