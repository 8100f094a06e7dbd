-------------------------- MODULE MCMLCalibration --------------------------
EXTENDS MLCalibration

\* A mounting matrix from its nine entries, row-major.
Mtx(t) == [k \in Idx |-> t[k + 1]]

\* Identity, 90-degree turns about Z both ways (rows of opposite sign), a
\* turn about X, and a reflection with a negative third row: every signed
\* axis appears in some row.
MCMounts ==
  { Mtx(<< 1, 0, 0,   0, 1, 0,   0, 0, 1>>),
    Mtx(<< 0, 1, 0,  -1, 0, 0,   0, 0, 1>>),
    Mtx(<< 1, 0, 0,   0, 0,-1,   0, 1, 0>>),
    Mtx(<< 0, 0, 1,   0, 1, 0,  -1, 0, 0>>),
    Mtx(<< 0,-1, 0,   1, 0, 0,   0, 0, 1>>) }

\* What an application passes to inv_set_accel_mounting: the identity and
\* a turn whose first two rows have opposite signs.
MCAccelMounts ==
  { Mtx(<< 1, 0, 0,   0, 1, 0,   0, 0, 1>>),
    Mtx(<< 0, 1, 0,  -1, 0, 0,   0, 0, 1>>) }

\* The compass mounting of the platform data (a turn about X, so both
\* regp and regn words occur) and the identity an application may pass.
MCCompassMount == Mtx(<< 1, 0, 0,   0, 0,-1,   0, 1, 0>>)
MCCompassMounts == { MCCompassMount, Mtx(<< 1, 0, 0,   0, 1, 0,   0, 0, 1>>) }

=============================================================================
