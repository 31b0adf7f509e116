---------------------------- MODULE MCCheckQueue ----------------------------
EXTENDS CheckQueue, TLC

CONSTANTS w1, w2, m1, m2

\* A single check, two that fail, and enough at once for batches of two.
AllBatches == {<<FALSE>>, <<TRUE, TRUE>>, <<FALSE, TRUE, FALSE, FALSE>>}
=============================================================================
