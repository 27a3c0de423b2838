---------------------------- MODULE MCConfigSync ----------------------------
EXTENDS ConfigSync

\* Two resources, each written once; and an instance with a single write.
MCKeyOf == <<"r1", "r2">>
MCValueOf == <<"a", "b">>
MCOneKey == <<"r1">>
MCOneValue == <<"a">>
MCKeys == {"r1", "r2"}

MCAccurate == <<0, 0>>
MCFast == <<2, 0>>

\* Configuration 1 cannot be applied; and it cannot be sent whole, or it can.
MCBad == {Content(1)}
MCRefusals == {{}, {[full |-> TRUE, from |-> 0, ver |-> 1]}}
MCNoRefusals == {{}}
=============================================================================
