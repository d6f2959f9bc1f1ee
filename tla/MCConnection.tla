----------------------------- MODULE MCConnection -----------------------------
\* Connections and sessions for TLC.
EXTENDS Connection, TLC

CONSTANTS k1, k2, s1, s2, aki, ren
=============================================================================
