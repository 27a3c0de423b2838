------------------------- MODULE MCBackendLimiter -------------------------
EXTENDS BackendLimiter

MCLane(c, p) == [cap |-> c, port |-> p]

\* Generation 1 has two routes that disagree, generation 2 drops one cap and
\* moves the other to the second port, generation 3 has no cap.
MCPolicy ==
    << {MCLane(1, 1), MCLane(2, 1)}, {MCLane(1, 2), MCLane(2, 1), NoCap}, {NoCap} >>
=============================================================================
