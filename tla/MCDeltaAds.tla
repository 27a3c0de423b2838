------------------------------ MODULE MCDeltaAds ------------------------------
EXTENDS DeltaAds

CONSTANTS r1, r2, v1, v2

\* A resource that changes, and one that comes and goes.
MCConfigs == {[n \in {r1, r2} |-> IF n = r1 THEN p[1] ELSE p[2]] :
                 p \in {<<v1, v1>>, <<v2, Absent>>, <<v1, Absent>>}}

MCSubscriptions == {{}, {r2}}

=============================================================================
