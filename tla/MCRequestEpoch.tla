--------------------------- MODULE MCRequestEpoch ---------------------------
(* The instance of RequestEpoch that TLC checks: requests on the listener's *)
(* own plaintext frontend and on the process-global one.                    *)
EXTENDS RequestEpoch

CONSTANT p1

MCPorts == {p1}
MCKeys == {<<p1, "plain">>, <<Global, "plain">>}
=============================================================================
